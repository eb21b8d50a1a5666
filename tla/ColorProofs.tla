----------------------------- MODULE ColorProofs -----------------------------
(***************************************************************************)
(* Two invariants of the colour board, for any sessions: the LED follows   *)
(* the link and the mode, and the values both tasks write stay in their    *)
(* ranges, so that the exposure table is only searched for an exposure the *)
(* sensor can be set to.                                                   *)
(***************************************************************************)
EXTENDS DistanceProofs

-----------------------------------------------------------------------------
(* The LED.                                                                *)

CfgFields == {"led", "mode", "gain", "ms", "palette", "period"}
SelfTest == IsCommand(comm.f, "RUN SELFTEST")

\* The LED follows the link and the mode, except while a command that changes the
\* mode is on its way to the step that sets the LED.
LedIsRight == dev.led <=> LedFor(app.link, app.cfg)

ColorInv ==
    /\ DOMAIN app = {"cfg", "cal", "capture", "link"} /\ DOMAIN app.cfg = CfgFields
    /\ DOMAIN dev = {"led", "configured", "gain", "ms"}
    /\ {"pc", "f"} \subseteq DOMAIN comm
    /\ comm.pc \in {"idle", "expose", "probe", "configure", "test", "cfg", "led"}
    /\ comm.pc \in {"expose", "cfg", "led"} => ~SelfTest
    /\ comm.pc \in {"expose", "cfg"} => "cfg" \in DOMAIN comm /\ DOMAIN comm.cfg = CfgFields
    /\ comm.pc \in {"probe", "configure"} /\ ~SelfTest =>
          "cfg" \in DOMAIN comm /\ DOMAIN comm.cfg = CfgFields
    /\ \/ comm.pc \in {"idle", "test"}
       \/ comm.pc \in {"probe", "configure"} /\ SelfTest
       => LedIsRight
    /\ DOMAIN nvs = {"cfg", "cal", "works"}
    /\ nvs.cfg # NoBlob => DOMAIN nvs.cfg[1] = CfgFields

\* A step that leaves the frame in hand, the link, the mode and the LED as they are
LEMMA LedSameInv ==
  ASSUME ColorInv, UNCHANGED comm,
         DOMAIN app' = DOMAIN app, DOMAIN app'.cfg = CfgFields,
         app'.cfg.led = app.cfg.led, app'.link = app.link,
         DOMAIN dev' = DOMAIN dev, dev'.led = dev.led,
         DOMAIN nvs' = DOMAIN nvs, nvs'.cfg # NoBlob => DOMAIN nvs'.cfg[1] = CfgFields
  PROVE  ColorInv'
BY DEF ColorInv, SelfTest, IsCommand, LedIsRight, LedFor

LEMMA ColorCommit ==
  ASSUME ColorInv, NEW kind \in {"cfg", "cal"}, NEW blob, NEW saved, CommitFits(kind, blob, saved),
         kind = "cfg" => DOMAIN blob = CfgFields
  PROVE  /\ DOMAIN nvs' = DOMAIN nvs
         /\ nvs'.cfg # NoBlob => DOMAIN nvs'.cfg[1] = CfgFields
BY DEF CommitFits, ColorInv, NoBlob

\* What the driver does to the exposure leaves the LED alone
LEMMA ExposureFacts ==
  ASSUME DOMAIN dev = {"led", "configured", "gain", "ms"},
         \/ \E gain, ms : SetExposure(gain, ms)
         \/ \E exposure, works : Configure(exposure, works)
         \/ UNCHANGED dev
  PROVE  DOMAIN dev' = DOMAIN dev /\ dev'.led = dev.led
BY DEF SetExposure, Configure

LEMMA ColorTaskInv ==
  ASSUME ColorInv, ColorTask
  PROVE  ColorInv'
<1>0. /\ DOMAIN app = {"cfg", "cal", "capture", "link"} /\ DOMAIN app.cfg = CfgFields
      /\ DOMAIN dev = {"led", "configured", "gain", "ms"}
      /\ nvs.cfg # NoBlob => DOMAIN nvs.cfg[1] = CfgFields
  BY DEF ColorInv
<1>1. UNCHANGED <<comm, nvs>>
  BY DEF ColorTask, ColorSnap, ColorRead, ColorProcess, ColorAuto, ColorPublish
<1>2. DOMAIN dev' = DOMAIN dev /\ dev'.led = dev.led
  <2>1. \/ \E gain, ms : SetExposure(gain, ms)
        \/ \E exposure, works : Configure(exposure, works)
        \/ UNCHANGED dev
    BY DEF ColorTask, ColorSnap, ColorRead, ColorProcess, ColorAuto, ColorPublish
  <2> QED BY <1>0, <2>1, ExposureFacts
<1>3. /\ DOMAIN app' = DOMAIN app /\ DOMAIN app'.cfg = CfgFields
      /\ app'.cfg.led = app.cfg.led /\ app'.link = app.link
  <2>1. CASE UNCHANGED app
    BY <1>0, <2>1
  <2>2. CASE \E c : app' = [app EXCEPT !.capture = c]
    BY <1>0, <2>2
  <2>3. CASE app' = [app EXCEPT !.cfg.gain = task.gain, !.cfg.ms = task.ms]
    BY <1>0, <2>3 DEF CfgFields
  <2>4. \/ UNCHANGED app
        \/ \E c : app' = [app EXCEPT !.capture = c]
        \/ app' = [app EXCEPT !.cfg.gain = task.gain, !.cfg.ms = task.ms]
    BY DEF ColorTask, ColorSnap, ColorRead, ColorProcess, ColorAuto, ColorPublish
  <2> QED BY <2>1, <2>2, <2>3, <2>4
<1> QED BY <1>0, <1>1, <1>2, <1>3, LedSameInv

LEMMA SanitizedFields ==
  ASSUME NEW cfg, DOMAIN cfg = CfgFields
  PROVE  DOMAIN ColorSanitized(cfg) = CfgFields
BY DEF ColorSanitized

LEMMA CfgWithFields ==
  ASSUME NEW cfg, DOMAIN cfg = CfgFields, NEW v,
         NEW key \in {"LED", "GAIN_MODE", "GAIN", "INTEGRATION_MS", "PALETTE_MODE", "SAMPLE_MS"}
  PROVE  DOMAIN ColorCfgWith(cfg, key, v) = CfgFields
BY DEF ColorCfgWith

\* A command of one step changes neither the link nor the mode nor the LED
LEMMA LedCommandInv ==
  ASSUME ColorInv, UNCHANGED <<comm, dev>>,
         UNCHANGED app \/ (\E c : app' = [app EXCEPT !.capture = c])
         \/ (\E cal : app' = [app EXCEPT !.cal = cal])
         \/ (\E c, cal : app' = [app EXCEPT !.cal = cal, !.capture = c]),
         \/ UNCHANGED nvs
         \/ \E saved : CommitFits("cfg", app.cfg, saved)
         \/ \E cal, saved : CommitFits("cal", cal, saved)
  PROVE  ColorInv'
<1>0. DOMAIN app = {"cfg", "cal", "capture", "link"} /\ DOMAIN app.cfg = CfgFields
      /\ (nvs.cfg # NoBlob => DOMAIN nvs.cfg[1] = CfgFields)
  BY DEF ColorInv
<1>1. /\ DOMAIN app' = DOMAIN app /\ app'.cfg = app.cfg /\ app'.link = app.link
  BY <1>0
<1>2. DOMAIN nvs' = DOMAIN nvs /\ (nvs'.cfg # NoBlob => DOMAIN nvs'.cfg[1] = CfgFields)
  BY <1>0, ColorCommit
<1> QED BY <1>0, <1>1, <1>2, LedSameInv

\* A command whose configuration, fit to be set, is on its way
LEMMA CfgBeginsInv ==
  ASSUME ColorInv, UNCHANGED <<dev, nvs>>,
         NEW f, NEW cfg, DOMAIN cfg = CfgFields, ~IsCommand(f, "RUN SELFTEST"),
         comm' = [pc |-> "expose", f |-> f, cfg |-> cfg],
         UNCHANGED app \/ app' = [app EXCEPT !.cfg = cfg]
  PROVE  ColorInv'
BY DEF ColorInv, SelfTest, IsCommand

LEMMA ColorCfgInv ==
  ASSUME ColorInv, On("color"), session \in DOMAIN Sessions,
         NEW f \in This.frames, comm.pc = "idle", ColorCfgCommand(f)
  PROVE  ColorInv'
<1>0. DOMAIN app.cfg = CfgFields
  BY DEF ColorInv
<1>1. CASE /\ \/ IsCommand(f, "SET CFG") /\ TokenFits(f.c[2][1], f.c[2][2])
              \/ IsCommand(f, "LED")
           /\ LET change == IF f.c[1] = "LED" THEN <<"LED", f.c[2]>> ELSE f.c[2]
              IN  comm' = [pc |-> "expose", f |-> f,
                           cfg |-> ColorSanitized(ColorCfgWith(app.cfg, change[1], change[2]))]
           /\ UNCHANGED <<app, dev, task, wire, nvs>>
  <2> DEFINE change == IF f.c[1] = "LED" THEN <<"LED", f.c[2]>> ELSE f.c[2]
             cfg == ColorSanitized(ColorCfgWith(app.cfg, change[1], change[2]))
  <2>1. change[1] \in {"LED", "GAIN_MODE", "GAIN", "INTEGRATION_MS", "PALETTE_MODE", "SAMPLE_MS"}
    BY <1>1, ColorSessions DEF IsCommand, On, This, ColorNumbers
  <2>2. DOMAIN cfg = CfgFields
    <3> HIDE DEF change
    <3> QED BY <1>0, <2>1, CfgWithFields, SanitizedFields
  <2>3. ~IsCommand(f, "RUN SELFTEST")
    BY <1>1 DEF IsCommand
  <2>4. comm' = [pc |-> "expose", f |-> f, cfg |-> cfg]
    BY <1>1
  <2> HIDE DEF cfg
  <2> QED BY <1>1, <2>2, <2>3, <2>4, CfgBeginsInv
<1>2. CASE Executes("ERR") /\ UNCHANGED <<app, dev, nvs>>
  BY <1>2, LedCommandInv DEF Executes
<1>3. CASE /\ IsCommand(f, "RESET CFG")
           /\ app' = [app EXCEPT !.cfg = ColorDefaults]
           /\ comm' = [pc |-> "expose", f |-> f, cfg |-> ColorDefaults]
           /\ UNCHANGED <<dev, task, wire, nvs>>
  <2>1. DOMAIN ColorDefaults = CfgFields /\ ~IsCommand(f, "RUN SELFTEST")
    BY <1>3 DEF ColorDefaults, CfgFields, IsCommand
  <2> QED BY <1>3, <2>1, CfgBeginsInv
<1>4. CASE /\ UNCHANGED <<app, dev>>
           /\ \E saved \in BOOLEAN :
                CommitFits("cfg", app.cfg, saved) /\ Executes(IF saved THEN "OK" ELSE "ERR")
  BY <1>4, LedCommandInv DEF Executes
<1> QED BY <1>1, <1>2, <1>3, <1>4 DEF ColorCfgCommand

LEMMA ColorCommandInv ==
  ASSUME ColorInv, On("color"), session \in DOMAIN Sessions,
         NEW f \in This.frames, comm.pc = "idle", ColorCommand(f)
  PROVE  ColorInv'
<1>1. CASE \E text \in ColorReads :
             IsCommand(f, text) /\ Executes("DATA") /\ UNCHANGED <<app, dev, nvs>>
  BY <1>1, LedCommandInv DEF Executes
<1>2. CASE /\ IsCommand(f, "RUN SELFTEST")
           /\ comm' = [pc |-> IF dev.configured THEN "test" ELSE "probe", f |-> f, cfg |-> NoBlob]
           /\ UNCHANGED <<app, dev, task, wire, nvs>>
  BY <1>2 DEF ColorInv, SelfTest, IsCommand, LedIsRight, LedFor
<1>3. CASE ColorCalCommand(f)
  BY <1>3, LedCommandInv DEF ColorCalCommand, Executes
<1>4. CASE ColorCaptureCommand(f)
  BY <1>4, LedCommandInv DEF ColorCaptureCommand, Executes
<1>5. CASE ColorPatchCommand(f)
  <2>1. UNCHANGED <<comm, dev, nvs>>
    BY <1>5 DEF ColorPatchCommand, CommitTarget, Executes
  <2>2. \/ UNCHANGED app
        \/ \E c : app' = [app EXCEPT !.capture = c]
        \/ \E cal : app' = [app EXCEPT !.cal = cal]
        \/ \E c, cal : app' = [app EXCEPT !.cal = cal, !.capture = c]
    BY <1>5 DEF ColorPatchCommand, CommitTarget
  <2> QED BY <2>1, <2>2, LedCommandInv
<1> QED BY <1>1, <1>2, <1>3, <1>4, <1>5, ColorCfgInv DEF ColorCommand

\* The steps between a command on the configuration and its answer
LEMMA CommExposeInv ==
  ASSUME ColorInv, CommExpose
  PROVE  ColorInv'
<1>0. /\ {"pc", "f"} \subseteq DOMAIN comm /\ UNCHANGED <<app, nvs>>
      /\ DOMAIN dev = {"led", "configured", "gain", "ms"}
  BY DEF ColorInv, CommExpose
<1>1. CASE comm.pc = "expose"
  <2>1. SetExposure(comm.cfg.gain, comm.cfg.ms) /\ comm' = [comm EXCEPT !.pc = "probe"]
    BY <1>1 DEF CommExpose
  <2>2. comm'.pc = "probe" /\ comm'.f = comm.f /\ DOMAIN comm' = DOMAIN comm
        /\ ("cfg" \in DOMAIN comm => comm'.cfg = comm.cfg)
    BY <1>0, <2>1
  <2>3. DOMAIN dev' = DOMAIN dev
    BY <1>0, <2>1, ExposureFacts
  <2> QED BY <1>0, <1>1, <2>2, <2>3 DEF ColorInv, SelfTest, IsCommand
<1>2. CASE comm.pc = "probe"
  <2>1. UNCHANGED dev /\ comm' = [pc |-> "configure", f |-> comm.f, cfg |-> comm.cfg,
                                exposure |-> Resolved]
    BY <1>2 DEF CommExpose
  <2>2. comm'.pc = "configure" /\ comm'.f = comm.f /\ comm'.cfg = comm.cfg
        /\ {"pc", "f", "cfg"} \subseteq DOMAIN comm'
    BY <2>1
  <2> QED BY <1>0, <1>2, <2>1, <2>2 DEF ColorInv, SelfTest, IsCommand, LedIsRight, LedFor
<1>3. CASE comm.pc = "configure"
  <2>1. DOMAIN dev' = DOMAIN dev /\ dev'.led = dev.led
    BY <1>0, <1>3, ExposureFacts DEF CommExpose
  <2>2. CASE SelfTest
    <3>1. comm' = [pc |-> "test", f |-> comm.f, cfg |-> NoBlob] \/ comm' = Idle
      BY <1>3, <2>2 DEF CommExpose, SelfTest, Ends
    <3> QED BY <1>0, <1>3, <2>1, <2>2, <3>1 DEF ColorInv, LedIsRight, LedFor, Idle
  <2>3. CASE ~SelfTest
    <3>1. comm' = [pc |-> "cfg", f |-> comm.f, cfg |-> comm.cfg]
      BY <1>3, <2>3 DEF CommExpose, SelfTest
    <3> QED BY <1>0, <1>3, <2>1, <2>3, <3>1 DEF ColorInv, SelfTest, IsCommand
  <2> QED BY <2>2, <2>3
<1> QED BY <1>1, <1>2, <1>3 DEF CommExpose

LEMMA ColorCommInv ==
  ASSUME ColorInv, On("color"), session \in DOMAIN Sessions, ColorComm
  PROVE  ColorInv'
<1>0. /\ {"pc", "f"} \subseteq DOMAIN comm /\ DOMAIN app = {"cfg", "cal", "capture", "link"}
      /\ DOMAIN dev = {"led", "configured", "gain", "ms"}
  BY DEF ColorInv
<1>1. CASE \E f \in This.frames :
             /\ Hears(f) /\ wire.link
             /\ IF f.type = "HOST" THEN ColorControlFrame(f) ELSE ColorStreamFrame(f)
  <2>1. PICK f \in This.frames :
             /\ Hears(f) /\ wire.link
             /\ IF f.type = "HOST" THEN ColorControlFrame(f) ELSE ColorStreamFrame(f)
    BY <1>1
  <2>2. CASE ColorCommand(f)
    BY <2>1, <2>2, ColorCommandInv DEF Hears
  <2>3. CASE ColorControlFrame(f)
    BY <2>3, LedCommandInv DEF ColorControlFrame, HostFrame, Replies
  <2>4. CASE OtherFrame(f, IF f.c[1] \in TractionOut THEN "OK" ELSE "ERR")
    BY <2>4, LedCommandInv DEF OtherFrame, Unknown, Replies, TelemetryFrame
  <2> QED BY <2>1, <2>2, <2>3, <2>4 DEF ColorStreamFrame
<1>2. CASE CommTest
  BY <1>0, <1>2 DEF CommTest, Ends, Idle, ColorInv, LedIsRight, LedFor
<1>3. CASE CommCfgLed
  <2>1. CASE comm.pc = "cfg"
    <3>1. /\ UNCHANGED <<dev, nvs>> /\ comm' = [pc |-> "led", f |-> comm.f]
          /\ app' \in {app, [app EXCEPT !.cfg = comm.cfg]}
      BY <1>3, <2>1 DEF CommCfgLed
    <3> QED BY <1>0, <2>1, <3>1 DEF ColorInv, SelfTest, IsCommand
  <2>2. CASE comm.pc = "led"
    <3>1. RefreshLed /\ comm' = Idle /\ UNCHANGED <<app, nvs>>
      BY <1>3, <2>2 DEF CommCfgLed, Ends
    <3>2. DOMAIN dev' = DOMAIN dev /\ dev'.led = LedFor(app.link, app.cfg)
      BY <1>0, <3>1 DEF RefreshLed
    <3> QED BY <1>0, <2>2, <3>1, <3>2 DEF ColorInv, LedIsRight, LedFor, Idle
  <2> QED BY <1>3, <2>1, <2>2 DEF CommCfgLed
<1>4. CASE ColorLinkActive
  <2>1. DOMAIN app' = DOMAIN app /\ app'.cfg = app.cfg /\ app'.link = TRUE
    BY <1>0, <1>4 DEF ColorLinkActive
  <2>2. DOMAIN dev' = DOMAIN dev /\ dev'.led = LedFor(TRUE, app.cfg)
    BY <1>0, <1>4 DEF ColorLinkActive
  <2>3. UNCHANGED <<comm, nvs>> /\ comm.pc = "idle"
    BY <1>4 DEF ColorLinkActive
  <2> QED BY <2>1, <2>2, <2>3 DEF ColorInv, LedIsRight, LedFor
<1>5. CASE ColorLinkTimeout
  <2>1. DOMAIN app' = DOMAIN app /\ app'.cfg = app.cfg /\ app'.link = FALSE
    BY <1>0, <1>5 DEF ColorLinkTimeout
  <2>2. DOMAIN dev' = DOMAIN dev /\ dev'.led = FALSE
    BY <1>0, <1>5 DEF ColorLinkTimeout
  <2>3. UNCHANGED <<comm, nvs>> /\ comm.pc = "idle"
    BY <1>5 DEF ColorLinkTimeout, LosesLink
  <2> QED BY <2>1, <2>2, <2>3 DEF ColorInv, LedIsRight, LedFor
<1>6. CASE ColorTelemetry
  BY <1>6, LedCommandInv DEF ColorTelemetry, SendsTelemetry
<1> QED BY <1>1, <1>2, <1>3, <1>4, <1>5, <1>6, CommExposeInv DEF ColorComm

LEMMA ColorBootFacts ==
  ASSUME NEW n, n.cfg # NoBlob => DOMAIN n.cfg[1] = CfgFields, NEW b \in ColorBoots(n)
  PROVE  /\ DOMAIN b.app = {"cfg", "cal", "capture", "link"} /\ DOMAIN b.app.cfg = CfgFields
         /\ DOMAIN b.dev = {"led", "configured", "gain", "ms"}
         /\ b.dev.led = FALSE /\ b.app.link = FALSE
<1>1. DOMAIN ColorLoadCfg(n.cfg) = CfgFields
  BY SanitizedFields DEF ColorLoadCfg, ColorDefaults, CfgFields
<1> QED BY <1>1 DEF ColorBoots

-----------------------------------------------------------------------------
(* Ranges.                                                                 *)

\* What sanitize_cfg lets through
ColorCfgOK(cfg) ==
    /\ cfg \in ColorBlobs
    /\ cfg.led <= AUTO /\ cfg.palette \in Palettes /\ cfg.period \in 20 .. 1000
    /\ cfg.gain # 0 /\ cfg.ms >= 3

ColorCalOK(cal) == /\ cal \in [Palettes -> Profiles]
                   /\ \A mode \in Palettes : cal[mode].measured \subseteq 0 .. mode - 1

CaptureOK(capture) == /\ DOMAIN capture = {"active", "target", "samples"}
                      /\ capture.samples \in Seq(BOOLEAN) /\ Len(capture.samples) <= MaxSamples

\* What the sensor can be set to, and what the sampling task may ask for
ExposureOK(e) == e.gain \in Gains /\ e.ms \in Times
AskedOK(e) == e.gain \in Nat \ {0} /\ e.ms \in Nat /\ e.ms >= 3

ColorAppOK == /\ DOMAIN app = {"cfg", "cal", "capture", "link"}
              /\ ColorCfgOK(app.cfg) /\ ColorCalOK(app.cal) /\ CaptureOK(app.capture)
              /\ app.link \in BOOLEAN

ColorDevOK == /\ DOMAIN dev = {"led", "configured", "gain", "ms"}
              /\ dev.led \in BOOLEAN /\ dev.configured \in BOOLEAN /\ dev.ms \in Int
              /\ dev.configured => ExposureOK(dev)

\* A pass asks the driver for its step of the exposure table only with an exposure
\* the sensor can be set to: the table is searched for no other
ColorTaskOK ==
    /\ task.pc \in {"snap", "read", "identify", "configure", "reread", "sample", "auto",
                    "probe", "apply", "publish"}
    /\ task.pc # "snap" =>
          /\ DOMAIN task = {"pc", "mode", "gain", "ms", "processed", "sample", "next"}
          /\ AskedOK(task) /\ task.processed \in BOOLEAN
    /\ task.pc \in {"configure", "sample", "auto", "apply"} => ExposureOK(task.sample)
    /\ task.pc \in {"probe", "apply"} => AskedOK(task.next)
    /\ task.pc = "reread" => ExposureOK(dev)

ColorCommOK ==
    /\ comm.pc \in {"expose", "cfg"} => ColorCfgOK(comm.cfg)
    /\ comm.pc \in {"probe", "configure"} /\ ~SelfTest => ColorCfgOK(comm.cfg)
    /\ comm.pc = "configure" => ExposureOK(comm.exposure)

ColorStored(n) == /\ DOMAIN n = {"cfg", "cal", "works"}
                  /\ n.cfg # NoBlob => n.cfg[1] \in ColorBlobs
                  /\ n.cal # NoBlob => ColorCalOK(n.cal[1])

ColorTypes == ColorAppOK /\ ColorDevOK /\ ColorTaskOK /\ ColorCommOK /\ ColorStored(nvs)

LEMMA ColorSanitizedFacts ==
  ASSUME NEW cfg \in ColorBlobs
  PROVE  ColorCfgOK(ColorSanitized(cfg))
<1> DEFINE led == IF cfg.led > AUTO THEN AUTO ELSE cfg.led
           palette == IF cfg.palette \notin Palettes THEN 8 ELSE cfg.palette
           period == Within(20, 1000, cfg.period)
           gain == IF cfg.gain = 0 THEN ColorDefaults.gain ELSE cfg.gain
           ms == IF cfg.ms < 3 THEN ColorDefaults.ms ELSE cfg.ms
           c == ColorSanitized(cfg)
<1>1. /\ cfg.led \in Nat /\ cfg.palette \in Nat /\ cfg.period \in Nat /\ cfg.gain \in Nat
      /\ cfg.ms \in Nat
  BY DEF ColorBlobs
<1>2. period \in Nat /\ period \in 20 .. 1000
  BY <1>1, SMT DEF Within
<1>3. ColorDefaults.gain = 4 /\ ColorDefaults.ms = 50
  BY DEF ColorDefaults
<1>4. led \in Nat /\ led <= AUTO /\ palette \in Nat /\ palette \in Palettes
  BY <1>1 DEF AUTO, Palettes
<1>5. gain \in Nat /\ gain # 0 /\ ms \in Nat /\ ms >= 3
  BY <1>1, <1>3
<1>6. c = [cfg EXCEPT !.led = led, !.palette = palette, !.period = period, !.gain = gain,
                      !.ms = ms]
  BY DEF ColorSanitized, ColorBlobs
<1> HIDE DEF c, led, palette, period, gain, ms
<1>7. /\ c \in ColorBlobs /\ c.led = led /\ c.palette = palette /\ c.period = period
      /\ c.gain = gain /\ c.ms = ms
  BY <1>2, <1>4, <1>5, <1>6 DEF ColorBlobs
<1>8. ColorCfgOK(c)
  BY <1>2, <1>4, <1>5, <1>7 DEF ColorCfgOK
<1> QED BY <1>8 DEF c

\* A sanitized configuration is left as it is
LEMMA ColorCfgStays ==
  ASSUME NEW cfg, ColorCfgOK(cfg)
  PROVE  cfg = ColorSanitized(cfg)
<1>1. /\ cfg \in ColorBlobs /\ cfg.led <= AUTO /\ cfg.palette \in Palettes
      /\ cfg.period \in 20 .. 1000 /\ cfg.gain # 0 /\ cfg.ms >= 3
  BY DEF ColorCfgOK
<1>2. ~(cfg.led > AUTO) /\ ~(cfg.ms < 3) /\ Within(20, 1000, cfg.period) = cfg.period
  BY <1>1, SMT DEF ColorBlobs, AUTO, Within
<1> DEFINE same == [led |-> cfg.led, mode |-> cfg.mode, gain |-> cfg.gain, ms |-> cfg.ms,
                    palette |-> cfg.palette, period |-> cfg.period]
<1>3. cfg = same
  BY <1>1 DEF ColorBlobs
<1>4. [same EXCEPT !.led = same.led, !.palette = same.palette, !.period = same.period,
                   !.gain = same.gain, !.ms = same.ms] = same
  OBVIOUS
<1>5. ColorSanitized(cfg) = [cfg EXCEPT !.led = cfg.led, !.palette = cfg.palette,
                               !.period = cfg.period, !.gain = cfg.gain, !.ms = cfg.ms]
  <2> DEFINE led == IF cfg.led > AUTO THEN AUTO ELSE cfg.led
             palette == IF cfg.palette \notin Palettes THEN 8 ELSE cfg.palette
             period == Within(20, 1000, cfg.period)
             gain == IF cfg.gain = 0 THEN ColorDefaults.gain ELSE cfg.gain
             ms == IF cfg.ms < 3 THEN ColorDefaults.ms ELSE cfg.ms
  <2>1. /\ led = cfg.led /\ palette = cfg.palette /\ period = cfg.period /\ gain = cfg.gain
        /\ ms = cfg.ms
    BY <1>1, <1>2
  <2>2. ColorSanitized(cfg) = [cfg EXCEPT !.led = led, !.palette = palette, !.period = period,
                                          !.gain = gain, !.ms = ms]
    BY DEF ColorSanitized, ColorBlobs
  <2> HIDE DEF led, palette, period, gain, ms
  <2> QED BY <2>1, <2>2
<1> HIDE DEF same
<1> QED BY <1>3, <1>4, <1>5

LEMMA ColorDefaultsOK == ColorCfgOK(ColorDefaults)
BY DEF ColorCfgOK, ColorBlobs, GainModes, ColorDefaults, ON, AUTO, Palettes

\* SET CFG with what its checks let through
LEMMA ColorCfgWithRaw ==
  ASSUME NEW cfg, ColorCfgOK(cfg), NEW v, NEW key,
         \/ key = "GAIN_MODE" /\ v \in GainModes
         \/ key \in ColorNumbers /\ v \in Nat
  PROVE  ColorCfgWith(cfg, key, v) \in ColorBlobs
<1>1. cfg \in ColorBlobs
  BY DEF ColorCfgOK
<1>2. CASE key = "GAIN_MODE"
  BY <1>1, <1>2 DEF ColorCfgWith, ColorBlobs, ColorNumbers
<1>3. CASE key \in ColorNumbers /\ v \in Nat
  BY <1>1, <1>3 DEF ColorCfgWith, ColorBlobs, ColorNumbers
<1> QED BY <1>2, <1>3

LEMMA TimesFacts == \A ms \in Times : ms \in Nat
BY SMT DEF Times, CyclesMs

LEMMA ResolvedFacts ==
  ASSUME NEW gain, NEW ms \in Int
  PROVE  ResolvedGain(gain) \in Gains /\ ResolvedMs(ms) \in Times
<1>1. ResolvedGain(gain) \in Gains
  BY DEF ResolvedGain, Gains
<1>2. UINT16_MAX \in Int
  BY SMT DEF UINT16_MAX
<1>3. Within(3, UINT16_MAX, ms) \in Int
  BY <1>2 DEF Within
<1>4. Within(1, 256, (10 * Within(3, UINT16_MAX, ms) + 12) \div 24) \in 1 .. 256
  <2> DEFINE x == (10 * Within(3, UINT16_MAX, ms) + 12) \div 24
  <2>1. x \in Int
    BY <1>3, SMT
  <2> HIDE DEF x
  <2>2. Within(1, 256, x) \in 1 .. 256
    BY <2>1, SMT DEF Within
  <2> QED BY <2>2 DEF x
<1>5. ResolvedMs(ms) \in Times
  <2> DEFINE cycles == Within(1, 256, (10 * Within(3, UINT16_MAX, ms) + 12) \div 24)
  <2>1. cycles \in 1 .. 256 /\ ResolvedMs(ms) = CyclesMs(cycles)
    BY <1>4 DEF ResolvedMs
  <2> HIDE DEF cycles
  <2> QED BY <2>1 DEF Times
<1> QED BY <1>1, <1>5

LEMMA StepsFacts ==
  /\ DOMAIN AutoExposureSteps = 1 .. 17 /\ Len(AutoExposureSteps) = 17
  /\ \A i \in 1 .. 17 : /\ AutoExposureSteps[i][1] \in Nat \ {0}
                        /\ AutoExposureSteps[i][2] \in Nat /\ AutoExposureSteps[i][2] >= 3
BY SMT DEF AutoExposureSteps

\* The table has a nearest step for every exposure of the sensor
LEMMA NearestFacts ==
  ASSUME NEW gain \in Gains, NEW ms \in Times
  PROVE  NearestStep[<<gain, ms>>] \in 1 .. 17
<1> DEFINE Key(i) == 20 * Score(i, gain, ms) + i
           T == {Key(i) : i \in 1 .. 17}
           Nearest(i) == \A j \in 1 .. 17 :
                            \/ Score(i, gain, ms) < Score(j, gain, ms)
                            \/ Score(i, gain, ms) = Score(j, gain, ms) /\ i <= j
<1>0. /\ <<gain, ms>> \in Gains \X Times
      /\ <<gain, ms>>[1] = gain /\ <<gain, ms>>[2] = ms
  OBVIOUS
<1>1. gain \in Nat /\ ms \in Nat
  BY TimesFacts DEF Gains
<1>2. ASSUME NEW i \in 1 .. 17 PROVE Score(i, gain, ms) \in Nat
  <2>1. AutoExposureSteps[i][1] \in Nat /\ AutoExposureSteps[i][2] \in Nat
    BY StepsFacts
  <2>2. \A a, b \in Nat : Apart(a, b) \in Nat
    BY DEF Apart
  <2>3. /\ Apart(AutoExposureSteps[i][1], gain) \in Nat
        /\ Apart(AutoExposureSteps[i][2], ms) \in Nat
    BY <1>1, <2>1, <2>2
  <2>4. Score(i, gain, ms) = 1000 * Apart(AutoExposureSteps[i][1], gain)
                             + Apart(AutoExposureSteps[i][2], ms)
    BY SMT DEF Score
  <2> QED BY <2>3, <2>4, SMT
<1>3. T \in SUBSET Nat /\ T # {}
  <2>1. \A i \in 1 .. 17 : Key(i) \in Nat
    BY <1>2
  <2>2. 1 \in 1 .. 17
    OBVIOUS
  <2> HIDE DEF Key
  <2> QED BY <2>1, <2>2
<1>4. PICK i \in 1 .. 17 : \A j \in 1 .. 17 : Key(i) <= Key(j)
  <2>1. PICK x \in T : \A y \in T : x <= y
    BY <1>3, LeastNatural
  <2> HIDE DEF Key
  <2> QED BY <2>1
<1>5. Nearest(i)
  <2> SUFFICES ASSUME NEW j \in 1 .. 17
               PROVE  \/ Score(i, gain, ms) < Score(j, gain, ms)
                      \/ Score(i, gain, ms) = Score(j, gain, ms) /\ i <= j
    OBVIOUS
  <2>1. Score(i, gain, ms) \in Nat /\ Score(j, gain, ms) \in Nat
    BY <1>2
  <2>2. 20 * Score(i, gain, ms) + i <= 20 * Score(j, gain, ms) + j
    BY <1>4
  <2> QED BY <2>1, <2>2
<1>6. NearestStep[<<gain, ms>>] = CHOOSE n \in 1 .. 17 : Nearest(n)
  <2>1. NearestStep[<<gain, ms>>] = CHOOSE n \in DOMAIN AutoExposureSteps :
                                   \A j \in DOMAIN AutoExposureSteps :
                                     \/ Score(n, gain, ms) < Score(j, gain, ms)
                                     \/ Score(n, gain, ms) = Score(j, gain, ms) /\ n <= j
    BY <1>0 DEF NearestStep
  <2>2. DOMAIN AutoExposureSteps = 1 .. 17
    BY StepsFacts
  <2> QED BY <2>1, <2>2
<1> HIDE DEF Nearest
<1> QED BY <1>5, <1>6

LEMMA ChosenFacts ==
  ASSUME NEW sample, ExposureOK(sample), NEW clear
  PROVE  AskedOK(ChosenStep(sample, clear))
<1> DEFINE at == NearestStep[<<sample.gain, sample.ms>>]
           next == IF clear > TargetClear + TargetClear \div 3 THEN IF at > 1 THEN at - 1 ELSE at
                   ELSE IF clear < TargetClear - TargetClear \div 3 /\ at < Len(AutoExposureSteps)
                        THEN at + 1 ELSE at
<1>1. at \in 1 .. 17
  <2>1. sample.gain \in Gains /\ sample.ms \in Times
    BY DEF ExposureOK
  <2> QED BY <2>1, NearestFacts
<1>2. ChosenStep(sample, clear) = [gain |-> AutoExposureSteps[next][1],
                                   ms |-> AutoExposureSteps[next][2]]
  BY DEF ChosenStep
<1>3. Len(AutoExposureSteps) = 17
  BY StepsFacts
<1> HIDE DEF at
<1>4. next \in 1 .. 17
  BY <1>1, <1>3
<1> HIDE DEF next
<1> QED BY <1>2, <1>4, StepsFacts DEF AskedOK
-----------------------------------------------------------------------------
(* What the operators of the board keep in range.                          *)

\* A driver keeps an exposure the sensor can be set to
LEMMA SetExposureFacts ==
  ASSUME ColorDevOK, NEW gain, NEW ms \in Int, SetExposure(gain, ms)
  PROVE  ColorDevOK' /\ ExposureOK(dev')
<1>1. ResolvedGain(gain) \in Gains /\ ResolvedMs(ms) \in Times
  BY ResolvedFacts
<1>2. ResolvedMs(ms) \in Int
  BY <1>1, TimesFacts
<1> QED BY <1>1, <1>2 DEF SetExposure, ColorDevOK, ExposureOK

LEMMA ConfigureFacts ==
  ASSUME ColorDevOK, NEW e, ExposureOK(e), NEW works \in BOOLEAN, Configure(e, works)
  PROVE  ColorDevOK' /\ (ExposureOK(dev) => ExposureOK(dev')) /\ (works => ExposureOK(dev'))
<1>1. e.ms \in Int
  BY TimesFacts DEF ExposureOK
<1> QED BY <1>1 DEF Configure, ColorDevOK, ExposureOK

LEMMA ResolvedOK ==
  ASSUME ColorDevOK
  PROVE  ExposureOK(Resolved)
<1>1. dev.ms \in Int
  BY DEF ColorDevOK
<1> QED BY <1>1, ResolvedFacts DEF Resolved, ExposureOK

LEMMA CapturesOK ==
  /\ CaptureOK(NoCapture)
  /\ \A target : CaptureOK(CaptureFor(target))
BY ColorAssumption DEF CaptureOK, NoCapture, CaptureFor

LEMMA CaptureAddOK ==
  ASSUME NEW capture, CaptureOK(capture), NEW processed \in BOOLEAN
  PROVE  CaptureOK(CaptureAdd(capture, processed))
<1> DEFINE old == IF Len(capture.samples) >= MaxSamples THEN Tail(capture.samples)
                  ELSE capture.samples
<1>1. /\ DOMAIN capture = {"active", "target", "samples"} /\ capture.samples \in Seq(BOOLEAN)
      /\ Len(capture.samples) <= MaxSamples
  BY DEF CaptureOK
<1>2. old \in Seq(BOOLEAN) /\ Len(old) + 1 <= MaxSamples
  <2>1. CASE Len(capture.samples) >= MaxSamples
    <3>1. capture.samples # <<>>
      BY <1>1, <2>1, ColorAssumption
    <3> QED BY <1>1, <2>1, <3>1, ColorAssumption
  <2>2. CASE ~(Len(capture.samples) >= MaxSamples)
    BY <1>1, <2>2, ColorAssumption
  <2> QED BY <2>1, <2>2
<1>3. CaptureAdd(capture, processed) = [capture EXCEPT !.samples = Append(old, processed)]
  BY DEF CaptureAdd
<1> HIDE DEF old
<1>4. Append(old, processed) \in Seq(BOOLEAN) /\ Len(Append(old, processed)) <= MaxSamples
  BY <1>2
<1> QED BY <1>1, <1>3, <1>4 DEF CaptureOK

LEMMA DefaultProfileOK ==
  ASSUME NEW mode \in Palettes
  PROVE  DefaultProfile(mode) \in Profiles /\ DefaultProfile(mode).measured \subseteq 0 .. mode - 1
BY DEF DefaultProfile, Profiles

\* A profile that is replaced by one of its palette
LEMMA ProfileSetOK ==
  ASSUME NEW cal, ColorCalOK(cal), NEW palette \in Palettes, NEW p \in Profiles,
         p.measured \subseteq 0 .. palette - 1
  PROVE  ColorCalOK([cal EXCEPT ![palette] = p])
BY DEF ColorCalOK

LEMMA WithTargetOK ==
  ASSUME NEW cal, ColorCalOK(cal), NEW palette \in Palettes, NEW target, IsTarget(target, palette)
  PROVE  ColorCalOK(WithTarget(cal, palette, target))
<1> DEFINE p == cal[palette]
<1>1. p \in Profiles /\ p.measured \subseteq 0 .. palette - 1
  BY DEF ColorCalOK
<1>2. CASE target = DARK
  <2> DEFINE q == [p EXCEPT !.dark = TRUE]
  <2>1. WithTarget(cal, palette, target) = [cal EXCEPT ![palette].dark = TRUE]
    BY <1>2 DEF WithTarget, DARK, WHITE
  <2>2. [cal EXCEPT ![palette].dark = TRUE] = [cal EXCEPT ![palette] = q]
    OBVIOUS
  <2>3. q \in Profiles /\ q.measured = p.measured
    BY <1>1 DEF Profiles
  <2> HIDE DEF p, q
  <2>4. q.measured \subseteq 0 .. palette - 1
    BY <1>1, <2>3
  <2>5. ColorCalOK([cal EXCEPT ![palette] = q])
    BY <2>3, <2>4, ProfileSetOK
  <2> QED BY <2>1, <2>2, <2>5
<1>3. CASE target = WHITE
  <2> DEFINE q == [p EXCEPT !.white = TRUE]
  <2>1. WithTarget(cal, palette, target) = [cal EXCEPT ![palette].white = TRUE]
    BY <1>3 DEF WithTarget, DARK, WHITE
  <2>2. [cal EXCEPT ![palette].white = TRUE] = [cal EXCEPT ![palette] = q]
    OBVIOUS
  <2>3. q \in Profiles /\ q.measured = p.measured
    BY <1>1 DEF Profiles
  <2> HIDE DEF p, q
  <2>4. q.measured \subseteq 0 .. palette - 1
    BY <1>1, <2>3
  <2>5. ColorCalOK([cal EXCEPT ![palette] = q])
    BY <2>3, <2>4, ProfileSetOK
  <2> QED BY <2>1, <2>2, <2>5
<1>4. CASE target \notin {DARK, WHITE}
  <2> DEFINE measured == p.measured \cup {target}
             q == [p EXCEPT !.measured = measured]
  <2>1. WithTarget(cal, palette, target)
           = [cal EXCEPT ![palette].measured = cal[palette].measured \cup {target}]
    BY <1>4 DEF WithTarget
  <2>2. [cal EXCEPT ![palette].measured = cal[palette].measured \cup {target}]
           = [cal EXCEPT ![palette] = q]
    OBVIOUS
  <2>3. target \in 0 .. palette - 1 /\ target \in 0 .. 15
    BY <1>4 DEF IsTarget, Palettes
  <2>4. measured \in SUBSET (0 .. 15) /\ measured \subseteq 0 .. palette - 1
    BY <1>1, <2>3 DEF Profiles
  <2> HIDE DEF measured
  <2>5. q \in Profiles /\ q.measured = measured
    BY <1>1, <2>4 DEF Profiles
  <2> HIDE DEF p, q
  <2>6. ColorCalOK([cal EXCEPT ![palette] = q])
    BY <2>4, <2>5, ProfileSetOK
  <2> QED BY <2>1, <2>2, <2>6
<1> QED BY <1>2, <1>3, <1>4

LEMMA ColorCommitOK ==
  ASSUME ColorStored(nvs), NEW kind \in {"cfg", "cal"}, NEW blob,
         kind = "cfg" => blob \in ColorBlobs, kind = "cal" => ColorCalOK(blob),
         NEW saved, CommitFits(kind, blob, saved)
  PROVE  ColorStored(nvs')
<1>1. CASE nvs' = nvs
  BY <1>1 DEF ColorStored
<1>2. CASE nvs' = [nvs EXCEPT ![kind] = <<blob>>]
  <2>1. DOMAIN nvs = {"cfg", "cal", "works"}
    BY DEF ColorStored
  <2>2. CASE kind = "cfg"
    <3>1. /\ DOMAIN nvs' = {"cfg", "cal", "works"}
          /\ nvs'.cfg = <<blob>> /\ nvs'.cal = nvs.cal
      BY <1>2, <2>1, <2>2
    <3>2. blob \in ColorBlobs /\ nvs'.cfg[1] = blob
      BY <2>2, <3>1
    <3> QED BY <3>1, <3>2 DEF ColorStored
  <2>3. CASE kind = "cal"
    <3>1. /\ DOMAIN nvs' = {"cfg", "cal", "works"}
          /\ nvs'.cal = <<blob>> /\ nvs'.cfg = nvs.cfg
      BY <1>2, <2>1, <2>3
    <3>2. ColorCalOK(blob) /\ nvs'.cal[1] = blob
      BY <2>3, <3>1
    <3> QED BY <3>1, <3>2 DEF ColorStored
  <2> QED BY <2>2, <2>3
<1> QED BY <1>1, <1>2 DEF CommitFits

-----------------------------------------------------------------------------
(* The steps of both tasks.                                                *)

LEMMA TaskStays ==
  ASSUME ColorTaskOK, UNCHANGED task, ExposureOK(dev) => ExposureOK(dev')
  PROVE  ColorTaskOK'
BY DEF ColorTaskOK, AskedOK, ExposureOK

LEMMA CommStays ==
  ASSUME ColorCommOK, UNCHANGED comm
  PROVE  ColorCommOK'
BY DEF ColorCommOK, SelfTest, IsCommand

LEMMA AppStays ==
  ASSUME ColorAppOK, UNCHANGED app
  PROVE  ColorAppOK'
BY DEF ColorAppOK

LEMMA StoredStays ==
  ASSUME ColorStored(nvs), UNCHANGED nvs
  PROVE  ColorStored(nvs')
OBVIOUS

\* A command that ends in its step, with what it made of the state
LEMMA ExecutedTypes ==
  ASSUME ColorTypes, UNCHANGED <<task, comm, dev>>, ColorAppOK', ColorStored(nvs')
  PROVE  ColorTypes'
<1>1. ColorTaskOK'
  BY TaskStays DEF ColorTypes
<1>2. ColorCommOK'
  BY CommStays DEF ColorTypes
<1>3. ColorDevOK'
  BY DEF ColorTypes, ColorDevOK, ExposureOK
<1> QED BY <1>1, <1>2, <1>3 DEF ColorTypes

\* A configuration that is fit to be set goes on its way
LEMMA CfgBeginsTypes ==
  ASSUME ColorTypes, UNCHANGED <<dev, task, nvs>>, NEW f, NEW cfg, ColorCfgOK(cfg),
         comm' = [pc |-> "expose", f |-> f, cfg |-> cfg],
         UNCHANGED app \/ app' = [app EXCEPT !.cfg = cfg]
  PROVE  ColorTypes'
<1>1. ColorTaskOK'
  BY TaskStays DEF ColorTypes
<1>2. ColorCommOK'
  BY DEF ColorCommOK
<1>3. ColorAppOK'
  BY DEF ColorTypes, ColorAppOK
<1>4. ColorDevOK'
  BY DEF ColorTypes, ColorDevOK, ExposureOK
<1> QED BY <1>1, <1>2, <1>3, <1>4 DEF ColorTypes

LEMMA ColorCfgTypes ==
  ASSUME ColorTypes, On("color"), session \in DOMAIN Sessions, NEW f \in This.frames,
         ColorCfgCommand(f)
  PROVE  ColorTypes'
<1>0. ColorAppOK /\ ColorCfgOK(app.cfg) /\ app.cfg \in ColorBlobs /\ ColorStored(nvs)
  BY DEF ColorTypes, ColorAppOK, ColorCfgOK
<1>1. CASE /\ \/ IsCommand(f, "SET CFG") /\ TokenFits(f.c[2][1], f.c[2][2])
              \/ IsCommand(f, "LED")
           /\ LET change == IF f.c[1] = "LED" THEN <<"LED", f.c[2]>> ELSE f.c[2]
              IN  comm' = [pc |-> "expose", f |-> f,
                           cfg |-> ColorSanitized(ColorCfgWith(app.cfg, change[1], change[2]))]
           /\ UNCHANGED <<app, dev, task, wire, nvs>>
  <2> DEFINE change == IF f.c[1] = "LED" THEN <<"LED", f.c[2]>> ELSE f.c[2]
             cfg == ColorSanitized(ColorCfgWith(app.cfg, change[1], change[2]))
  <2>1. \/ change[1] = "GAIN_MODE" /\ change[2] \in GainModes
        \/ change[1] \in ColorNumbers /\ change[2] \in Nat
    <3>1. CASE f.c[1] = "LED"
      BY <3>1, ColorSessions DEF On, This, ColorNumbers
    <3>2. CASE f.c[1] # "LED"
      <4>1. /\ f.c[1] = "SET CFG" /\ TokenFits(f.c[2][1], f.c[2][2])
            /\ change = f.c[2]
        BY <1>1, <3>2 DEF IsCommand
      <4>2. \/ f.c[2][1] = "GAIN_MODE"
            \/ f.c[2][1] \in ColorNumbers /\ f.c[2][2] \in Nat
        BY <4>1, ColorSessions DEF On, This
      <4>3. f.c[2][1] = "GAIN_MODE" => f.c[2][2] \in GainModes
        BY <4>1 DEF TokenFits
      <4> HIDE DEF change
      <4> QED BY <4>1, <4>2, <4>3
    <3> QED BY <3>1, <3>2
  <2>2. ColorCfgOK(cfg)
    <3> HIDE DEF change
    <3>1. ColorCfgWith(app.cfg, change[1], change[2]) \in ColorBlobs
      BY <1>0, <2>1, ColorCfgWithRaw
    <3> QED BY <3>1, ColorSanitizedFacts
  <2>3. comm' = [pc |-> "expose", f |-> f, cfg |-> cfg]
    BY <1>1
  <2> HIDE DEF cfg
  <2> QED BY <1>1, <2>2, <2>3, CfgBeginsTypes
<1>2. CASE Executes("ERR") /\ UNCHANGED <<app, dev, nvs>>
  BY <1>0, <1>2, ExecutedTypes, AppStays DEF Executes
<1>3. CASE /\ app' = [app EXCEPT !.cfg = ColorDefaults]
           /\ comm' = [pc |-> "expose", f |-> f, cfg |-> ColorDefaults]
           /\ UNCHANGED <<dev, task, wire, nvs>>
  BY <1>3, ColorDefaultsOK, CfgBeginsTypes
<1>4. CASE /\ UNCHANGED <<app, dev>>
           /\ \E saved \in BOOLEAN :
                CommitFits("cfg", app.cfg, saved) /\ Executes(IF saved THEN "OK" ELSE "ERR")
  <2>1. ColorStored(nvs')
    BY <1>0, <1>4, ColorCommitOK
  <2> QED BY <1>0, <1>4, <2>1, ExecutedTypes, AppStays DEF Executes
<1> QED BY <1>1, <1>2, <1>3, <1>4 DEF ColorCfgCommand

LEMMA ColorCalTypes ==
  ASSUME ColorTypes, NEW f, ColorCalCommand(f)
  PROVE  ColorTypes'
<1>0. /\ ColorAppOK /\ ColorCalOK(app.cal) /\ ColorStored(nvs)
      /\ DOMAIN app = {"cfg", "cal", "capture", "link"}
  BY DEF ColorTypes, ColorAppOK
<1>1. UNCHANGED <<task, comm, dev>>
  BY DEF ColorCalCommand, Executes
<1>2. CASE UNCHANGED <<app, nvs>>
  BY <1>0, <1>1, <1>2, ExecutedTypes, AppStays
<1>3. CASE /\ UNCHANGED nvs
           /\ app' = [app EXCEPT !.cal = [mode \in Palettes |->
                         IF f.c[2] \in {mode, 0} THEN DefaultProfile(mode) ELSE @[mode]]]
  <2> DEFINE cal == [mode \in Palettes |->
                        IF f.c[2] \in {mode, 0} THEN DefaultProfile(mode) ELSE app.cal[mode]]
  <2>1. \A mode \in Palettes : /\ cal[mode] \in Profiles
                               /\ cal[mode].measured \subseteq 0 .. mode - 1
    BY <1>0, DefaultProfileOK DEF ColorCalOK
  <2>2. cal \in [Palettes -> Profiles]
    BY <2>1
  <2> HIDE DEF cal
  <2>3. ColorCalOK(cal)
    BY <2>1, <2>2 DEF ColorCalOK
  <2>4. app' = [app EXCEPT !.cal = cal]
    BY <1>3 DEF cal
  <2>5. ColorAppOK'
    BY <1>0, <2>3, <2>4 DEF ColorAppOK
  <2> QED BY <1>0, <1>1, <1>3, <2>5, ExecutedTypes
<1>4. CASE UNCHANGED app /\ \E saved \in BOOLEAN : CommitFits("cal", app.cal, saved)
  <2>1. ColorStored(nvs')
    BY <1>0, <1>4, ColorCommitOK
  <2> QED BY <1>0, <1>1, <1>4, <2>1, ExecutedTypes, AppStays
<1> QED BY <1>2, <1>3, <1>4 DEF ColorCalCommand

\* A command that changes the calibration or the capture
LEMMA CaptureTypes ==
  ASSUME ColorTypes, UNCHANGED <<task, comm, dev, nvs>>,
         NEW cal, ColorCalOK(cal), NEW capture, CaptureOK(capture),
         \/ UNCHANGED app
         \/ app' = [app EXCEPT !.cal = cal]
         \/ app' = [app EXCEPT !.capture = capture]
         \/ app' = [app EXCEPT !.cal = cal, !.capture = capture]
  PROVE  ColorTypes'
<1>1. ColorAppOK'
  BY DEF ColorTypes, ColorAppOK
<1>2. ColorStored(nvs')
  BY DEF ColorTypes
<1> QED BY <1>1, <1>2, ExecutedTypes

LEMMA ColorPatchTypes ==
  ASSUME ColorTypes, NEW f, ColorPatchCommand(f) \/ ColorCaptureCommand(f)
  PROVE  ColorTypes'
<1>0. ColorCalOK(app.cal) /\ CaptureOK(app.capture) /\ app.cfg.palette \in Palettes
  BY DEF ColorTypes, ColorAppOK, ColorCfgOK
<1>1. UNCHANGED <<task, comm, dev, nvs>>
  BY DEF ColorPatchCommand, ColorCaptureCommand, CommitTarget, Executes
<1>2. CASE UNCHANGED app
  BY <1>0, <1>1, <1>2, CaptureTypes
<1>3. CASE \E capture : CaptureOK(capture) /\ app' = [app EXCEPT !.capture = capture]
  BY <1>0, <1>1, <1>3, CaptureTypes
<1>4. CASE \E palette, target :
             /\ palette \in Palettes /\ IsTarget(target, palette)
             /\ \/ app' = [app EXCEPT !.cal = WithTarget(app.cal, palette, target)]
                \/ app' = [app EXCEPT !.cal = WithTarget(app.cal, palette, target),
                                      !.capture = NoCapture]
  <2>1. PICK palette, target :
             /\ palette \in Palettes /\ IsTarget(target, palette)
             /\ \/ app' = [app EXCEPT !.cal = WithTarget(app.cal, palette, target)]
                \/ app' = [app EXCEPT !.cal = WithTarget(app.cal, palette, target),
                                      !.capture = NoCapture]
    BY <1>4
  <2> DEFINE cal == WithTarget(app.cal, palette, target)
  <2>2. ColorCalOK(cal) /\ CaptureOK(NoCapture)
    BY <1>0, <2>1, WithTargetOK, CapturesOK
  <2> HIDE DEF cal
  <2>3. \/ app' = [app EXCEPT !.cal = cal]
        \/ app' = [app EXCEPT !.cal = cal, !.capture = NoCapture]
    BY <2>1 DEF cal
  <2> QED BY <1>1, <2>2, <2>3, CaptureTypes
<1>5. \/ UNCHANGED app
      \/ \E capture : CaptureOK(capture) /\ app' = [app EXCEPT !.capture = capture]
      \/ \E palette, target :
             /\ palette \in Palettes /\ IsTarget(target, palette)
             /\ \/ app' = [app EXCEPT !.cal = WithTarget(app.cal, palette, target)]
                \/ app' = [app EXCEPT !.cal = WithTarget(app.cal, palette, target),
                                      !.capture = NoCapture]
  <2>1. CASE ColorCaptureCommand(f)
    BY <2>1, CapturesOK DEF ColorCaptureCommand
  <2>2. CASE ColorPatchCommand(f)
    BY <1>0, <2>2, CapturesOK DEF ColorPatchCommand, CommitTarget
  <2> QED BY <2>1, <2>2
<1> QED BY <1>2, <1>3, <1>4, <1>5

LEMMA ColorCommandTypes ==
  ASSUME ColorTypes, On("color"), session \in DOMAIN Sessions, NEW f \in This.frames,
         ColorCommand(f)
  PROVE  ColorTypes'
<1>0. ColorAppOK /\ ColorStored(nvs)
  BY DEF ColorTypes
<1>1. CASE \E text \in ColorReads :
             IsCommand(f, text) /\ Executes("DATA") /\ UNCHANGED <<app, dev, nvs>>
  BY <1>0, <1>1, ExecutedTypes, AppStays DEF Executes
<1>2. CASE /\ IsCommand(f, "RUN SELFTEST")
           /\ comm' = [pc |-> IF dev.configured THEN "test" ELSE "probe", f |-> f, cfg |-> NoBlob]
           /\ UNCHANGED <<app, dev, task, wire, nvs>>
  <2>1. ColorTaskOK'
    BY <1>2, TaskStays DEF ColorTypes
  <2>2. ColorCommOK'
    BY <1>2 DEF ColorCommOK, SelfTest, IsCommand
  <2>3. ColorDevOK'
    BY <1>2 DEF ColorTypes, ColorDevOK, ExposureOK
  <2> QED BY <1>0, <1>2, <2>1, <2>2, <2>3, AppStays DEF ColorTypes
<1>3. CASE ColorCfgCommand(f)
  BY <1>3, ColorCfgTypes
<1>4. CASE ColorCalCommand(f)
  BY <1>4, ColorCalTypes
<1>5. CASE ColorPatchCommand(f) \/ ColorCaptureCommand(f)
  BY <1>5, ColorPatchTypes
<1> QED BY <1>1, <1>2, <1>3, <1>4, <1>5 DEF ColorCommand

LEMMA CommExposeTypes ==
  ASSUME ColorTypes, ColorInv, CommExpose
  PROVE  ColorTypes'
<1>0. /\ ColorAppOK /\ ColorDevOK /\ ColorTaskOK /\ ColorCommOK /\ ColorStored(nvs)
      /\ {"pc", "f"} \subseteq DOMAIN comm
  BY DEF ColorTypes, ColorInv
<1>1. UNCHANGED <<app, task, nvs>>
  BY DEF CommExpose, Ends
<1>2. CASE comm.pc = "expose"
  <2>1. SetExposure(comm.cfg.gain, comm.cfg.ms) /\ comm' = [comm EXCEPT !.pc = "probe"]
    BY <1>2 DEF CommExpose
  <2>2. ColorCfgOK(comm.cfg) /\ "cfg" \in DOMAIN comm
    BY <1>0, <1>2 DEF ColorCommOK, ColorInv
  <2>3. comm.cfg.ms \in Int
    BY <2>2 DEF ColorCfgOK, ColorBlobs
  <2>4. ColorDevOK' /\ ExposureOK(dev')
    BY <1>0, <2>1, <2>3, SetExposureFacts
  <2>5. comm'.pc = "probe" /\ comm'.cfg = comm.cfg
    BY <1>0, <2>1, <2>2
  <2>6. ColorCommOK'
    BY <2>2, <2>5 DEF ColorCommOK
  <2> QED BY <1>0, <1>1, <2>4, <2>6, AppStays, TaskStays DEF ColorTypes
<1>3. CASE comm.pc = "probe"
  <2>1. UNCHANGED dev /\ comm' = [pc |-> "configure", f |-> comm.f, cfg |-> comm.cfg,
                                exposure |-> Resolved]
    BY <1>3 DEF CommExpose
  <2>2. ExposureOK(Resolved)
    BY <1>0, ResolvedOK
  <2>3. ~SelfTest => ColorCfgOK(comm.cfg)
    BY <1>0, <1>3 DEF ColorCommOK
  <2>4. /\ comm'.pc = "configure" /\ comm'.exposure = Resolved /\ comm'.cfg = comm.cfg
        /\ comm'.f = comm.f
    BY <2>1
  <2>5. ColorCommOK'
    BY <2>2, <2>3, <2>4 DEF ColorCommOK, SelfTest, IsCommand
  <2>6. ColorDevOK'
    BY <1>0, <2>1 DEF ColorDevOK, ExposureOK
  <2> QED BY <1>0, <1>1, <2>1, <2>5, <2>6, AppStays, TaskStays DEF ColorTypes
<1>4. CASE comm.pc = "configure"
  <2>1. PICK works \in BOOLEAN : Configure(comm.exposure, works)
    BY <1>4 DEF CommExpose
  <2>2. ExposureOK(comm.exposure)
    BY <1>0, <1>4 DEF ColorCommOK
  <2>3. ColorDevOK' /\ (ExposureOK(dev) => ExposureOK(dev'))
    BY <1>0, <2>1, <2>2, ConfigureFacts
  <2>4. ColorCommOK'
    <3>1. CASE SelfTest
      <4>1. comm' = [pc |-> "test", f |-> comm.f, cfg |-> NoBlob] \/ comm' = Idle
        BY <1>4, <3>1 DEF CommExpose, SelfTest, Ends
      <4> QED BY <4>1 DEF Idle, ColorCommOK
    <3>2. CASE ~SelfTest
      <4>1. comm' = [pc |-> "cfg", f |-> comm.f, cfg |-> comm.cfg]
        BY <1>4, <3>2 DEF CommExpose, SelfTest
      <4>2. ColorCfgOK(comm.cfg)
        BY <1>0, <1>4, <3>2 DEF ColorCommOK
      <4> QED BY <4>1, <4>2 DEF ColorCommOK
    <3> QED BY <3>1, <3>2
  <2> QED BY <1>0, <1>1, <2>3, <2>4, AppStays, TaskStays DEF ColorTypes
<1> QED BY <1>2, <1>3, <1>4 DEF CommExpose

\* The LED, whatever lights it
LEMMA LedTypes ==
  ASSUME ColorTypes, UNCHANGED <<task, nvs>>, ColorAppOK', NEW led \in BOOLEAN,
         dev' = [dev EXCEPT !.led = led], comm' = comm \/ comm' = Idle
  PROVE  ColorTypes'
<1>0. ColorDevOK /\ ColorTaskOK /\ ColorCommOK /\ ColorStored(nvs)
  BY DEF ColorTypes
<1>1. ColorDevOK' /\ (ExposureOK(dev) => ExposureOK(dev'))
  BY <1>0 DEF ColorDevOK, ExposureOK
<1>2. ColorCommOK'
  <2>1. CASE comm' = comm
    BY <1>0, <2>1, CommStays
  <2>2. CASE comm' = Idle
    BY <2>2 DEF Idle, ColorCommOK
  <2> QED BY <2>1, <2>2
<1> QED BY <1>0, <1>1, <1>2, TaskStays DEF ColorTypes

LEMMA LedForIsBoolean == \A link \in BOOLEAN : \A cfg : LedFor(link, cfg) \in BOOLEAN
BY DEF LedFor

LEMMA CommCfgLedTypes ==
  ASSUME ColorTypes, CommCfgLed
  PROVE  ColorTypes'
<1>0. /\ ColorAppOK /\ ColorDevOK /\ ColorTaskOK /\ ColorCommOK /\ ColorStored(nvs)
      /\ app.link \in BOOLEAN
  BY DEF ColorTypes, ColorAppOK
<1>1. CASE comm.pc = "cfg"
  <2>1. /\ UNCHANGED <<dev, task, nvs>> /\ comm' = [pc |-> "led", f |-> comm.f]
        /\ app' = app \/ app' = [app EXCEPT !.cfg = comm.cfg]
    BY <1>1 DEF CommCfgLed
  <2>2. ColorCfgOK(comm.cfg)
    BY <1>0, <1>1 DEF ColorCommOK
  <2>3. ColorAppOK'
    BY <1>0, <2>1, <2>2 DEF ColorAppOK
  <2>4. ColorCommOK'
    BY <2>1 DEF ColorCommOK
  <2>5. ColorDevOK'
    BY <1>0, <2>1 DEF ColorDevOK, ExposureOK
  <2> QED BY <1>0, <2>1, <2>3, <2>4, <2>5, TaskStays DEF ColorTypes
<1>2. CASE comm.pc = "led"
  <2>1. /\ dev' = [dev EXCEPT !.led = LedFor(app.link, app.cfg)] /\ comm' = Idle
        /\ UNCHANGED <<app, task, nvs>>
    BY <1>2 DEF CommCfgLed, RefreshLed, Ends
  <2> QED BY <1>0, <2>1, LedTypes, LedForIsBoolean, AppStays
<1> QED BY <1>1, <1>2 DEF CommCfgLed

LEMMA ColorCommTypes ==
  ASSUME ColorTypes, ColorInv, On("color"), session \in DOMAIN Sessions, ColorComm
  PROVE  ColorTypes'
<1>0. ColorAppOK /\ ColorStored(nvs)
  BY DEF ColorTypes
<1>1. CASE UNCHANGED <<app, dev, task, comm, nvs>>
  BY <1>0, <1>1, ExecutedTypes, AppStays
<1>2. CASE \E f \in This.frames :
             /\ Hears(f) /\ wire.link
             /\ IF f.type = "HOST" THEN ColorControlFrame(f) ELSE ColorStreamFrame(f)
  <2>1. PICK f \in This.frames :
             IF f.type = "HOST" THEN ColorControlFrame(f) ELSE ColorStreamFrame(f)
    BY <1>2
  <2>2. CASE ColorCommand(f)
    BY <2>2, ColorCommandTypes
  <2>3. CASE ColorControlFrame(f)
    BY <1>1, <2>3 DEF ColorControlFrame, HostFrame, Replies
  <2>4. CASE OtherFrame(f, IF f.c[1] \in TractionOut THEN "OK" ELSE "ERR")
    BY <1>1, <2>4 DEF OtherFrame, Unknown, Replies, TelemetryFrame
  <2> QED BY <2>1, <2>2, <2>3, <2>4 DEF ColorStreamFrame
<1>3. CASE CommTest
  <2>1. comm' = Idle /\ UNCHANGED <<app, dev, task, nvs>>
    BY <1>3 DEF CommTest, Ends
  <2>2. ColorCommOK'
    BY <2>1 DEF Idle, ColorCommOK
  <2>3. ColorDevOK' /\ ColorTaskOK'
    BY <2>1, TaskStays DEF ColorTypes, ColorDevOK, ExposureOK
  <2> QED BY <1>0, <2>1, <2>2, <2>3, AppStays DEF ColorTypes
<1>4. CASE ColorLinkActive
  <2>1. ColorAppOK'
    BY <1>0, <1>4 DEF ColorLinkActive, ColorAppOK
  <2> QED BY <1>4, <2>1, LedTypes, LedForIsBoolean DEF ColorLinkActive
<1>5. CASE ColorLinkTimeout
  <2>1. ColorAppOK'
    BY <1>0, <1>5 DEF ColorLinkTimeout, ColorAppOK
  <2> QED BY <1>5, <2>1, LedTypes DEF ColorLinkTimeout
<1>6. CASE ColorTelemetry
  BY <1>1, <1>6 DEF ColorTelemetry, SendsTelemetry
<1> QED BY <1>2, <1>3, <1>4, <1>5, <1>6, CommExposeTypes, CommCfgLedTypes DEF ColorComm

\* A step of the sampling task, with what it made of the board
LEMMA PassTypes ==
  ASSUME ColorTypes, UNCHANGED <<comm, nvs>>, ColorAppOK', ColorDevOK', ColorTaskOK'
  PROVE  ColorTypes'
<1>1. ColorCommOK'
  BY CommStays DEF ColorTypes
<1> QED BY <1>1 DEF ColorTypes

LEMMA ColorTaskTypes ==
  ASSUME ColorTypes, ColorTask
  PROVE  ColorTypes'
<1>0. ColorAppOK /\ ColorDevOK /\ ColorTaskOK
  BY DEF ColorTypes
<1>a. UNCHANGED dev => ColorDevOK'
  BY <1>0 DEF ColorDevOK, ExposureOK
<1>b. task.pc # "snap" =>
         /\ DOMAIN task = {"pc", "mode", "gain", "ms", "processed", "sample", "next"}
         /\ AskedOK(task) /\ task.processed \in BOOLEAN
  BY <1>0 DEF ColorTaskOK
<1>1. CASE ColorSnap
  <2>1. /\ UNCHANGED <<app, dev, comm, nvs>>
        /\ task' = [pc |-> "read", mode |-> app.cfg.mode, gain |-> app.cfg.gain,
                    ms |-> app.cfg.ms,
                    processed |-> app.cal[app.cfg.palette].dark /\ app.cal[app.cfg.palette].white,
                    sample |-> NoBlob, next |-> NoBlob]
    BY <1>1 DEF ColorSnap
  <2>2. /\ app.cfg.gain \in Nat \ {0} /\ app.cfg.ms \in Nat /\ app.cfg.ms >= 3
    BY <1>0 DEF ColorAppOK, ColorCfgOK, ColorBlobs
  <2>3. ColorTaskOK'
    BY <2>1, <2>2 DEF ColorTaskOK, AskedOK
  <2> QED BY <1>0, <1>a, <2>1, <2>3, PassTypes, AppStays
<1>2. CASE ColorRead
  <2>0. UNCHANGED <<app, comm, nvs>>
    BY <1>2 DEF ColorRead
  <2>1. CASE task.pc = "read"
    <3>1. UNCHANGED dev /\ task' = [task EXCEPT !.pc = IF dev.configured THEN "sample"
                                                       ELSE "identify", !.sample = Noted]
      BY <1>2, <2>1 DEF ColorRead
    <3>2. dev.configured => ExposureOK(Noted)
      BY <1>0 DEF ColorDevOK, ExposureOK, Noted
    <3>3. ColorTaskOK'
      BY <1>b, <2>1, <3>1, <3>2 DEF ColorTaskOK, AskedOK
    <3> QED BY <1>0, <1>a, <2>0, <3>1, <3>3, PassTypes, AppStays
  <2>2. CASE task.pc = "identify"
    <3>1. UNCHANGED dev /\ task' = [task EXCEPT !.pc = "configure", !.sample = Resolved]
      BY <1>2, <2>2 DEF ColorRead
    <3>2. ColorTaskOK'
      BY <1>0, <1>b, <2>2, <3>1, ResolvedOK DEF ColorTaskOK, AskedOK
    <3> QED BY <1>0, <1>a, <2>0, <3>1, <3>2, PassTypes, AppStays
  <2>3. CASE task.pc = "configure"
    <3>1. PICK works \in BOOLEAN :
             /\ Configure(task.sample, works)
             /\ task' = [task EXCEPT !.pc = IF works THEN "reread" ELSE "publish"]
      BY <1>2, <2>3 DEF ColorRead
    <3>2. ExposureOK(task.sample)
      BY <1>0, <2>3 DEF ColorTaskOK
    <3>3. ColorDevOK' /\ (works => ExposureOK(dev'))
      BY <1>0, <3>1, <3>2, ConfigureFacts
    <3>4. ColorTaskOK'
      BY <1>b, <2>3, <3>1, <3>3 DEF ColorTaskOK, AskedOK, ExposureOK
    <3> QED BY <1>0, <2>0, <3>3, <3>4, PassTypes, AppStays
  <2>4. CASE task.pc = "reread"
    <3>1. UNCHANGED dev /\ task' = [task EXCEPT !.pc = "sample", !.sample = Noted]
      BY <1>2, <2>4 DEF ColorRead
    <3>2. ExposureOK(Noted)
      BY <1>0, <2>4 DEF ColorTaskOK, ExposureOK, Noted
    <3>3. ColorTaskOK'
      BY <1>b, <2>4, <3>1, <3>2 DEF ColorTaskOK, AskedOK
    <3> QED BY <1>0, <1>a, <2>0, <3>1, <3>3, PassTypes, AppStays
  <2> QED BY <1>2, <2>1, <2>2, <2>3, <2>4 DEF ColorRead
<1>3. CASE ColorProcess
  <2>1. UNCHANGED <<dev, comm, nvs>> /\ task.pc = "sample"
    BY <1>3 DEF ColorProcess
  <2>2. ColorAppOK'
    <3>1. task.processed \in BOOLEAN /\ CaptureOK(app.capture)
      BY <1>0, <1>b, <2>1 DEF ColorAppOK
    <3>2. CaptureOK(CaptureAdd(app.capture, task.processed))
      BY <3>1, CaptureAddOK
    <3>3. \/ app' = app
          \/ app' = [app EXCEPT !.capture = CaptureAdd(app.capture, task.processed)]
      BY <1>3 DEF ColorProcess
    <3> QED BY <1>0, <3>2, <3>3 DEF ColorAppOK
  <2>3. ColorTaskOK'
    <3>1. ExposureOK(task.sample)
      BY <1>0, <2>1 DEF ColorTaskOK
    <3>2. \/ task' = [task EXCEPT !.pc = "publish"]
          \/ task' = [task EXCEPT !.pc = "auto"]
      BY <1>3 DEF ColorProcess
    <3> QED BY <1>b, <2>1, <3>1, <3>2 DEF ColorTaskOK, AskedOK
  <2> QED BY <1>a, <2>1, <2>2, <2>3, PassTypes
<1>4. CASE ColorAuto
  <2>0. UNCHANGED <<app, comm, nvs>>
    BY <1>4 DEF ColorAuto
  <2>1. CASE task.pc = "auto"
    <3>1. ExposureOK(task.sample)
      BY <1>0, <2>1 DEF ColorTaskOK
    <3>2. PICK clear \in This.scene :
             LET next == ChosenStep(task.sample, clear)
             IN  IF next = task.sample
                 THEN /\ task' = [task EXCEPT !.pc = "publish", !.gain = next.gain, !.ms = next.ms]
                      /\ UNCHANGED dev
                 ELSE /\ task' = [task EXCEPT !.pc = "probe", !.next = next]
                      /\ SetExposure(next.gain, next.ms)
      BY <1>4, <2>1 DEF ColorAuto
    <3> DEFINE next == ChosenStep(task.sample, clear)
    <3>3. AskedOK(next)
      BY <3>1, ChosenFacts
    <3>4. \/ /\ task' = [task EXCEPT !.pc = "publish", !.gain = next.gain, !.ms = next.ms]
             /\ UNCHANGED dev
          \/ /\ task' = [task EXCEPT !.pc = "probe", !.next = next]
             /\ SetExposure(next.gain, next.ms)
      BY <3>2
    <3> HIDE DEF next
    <3>5. CASE /\ task' = [task EXCEPT !.pc = "publish", !.gain = next.gain, !.ms = next.ms]
               /\ UNCHANGED dev
      <4>1. ColorTaskOK'
        BY <1>b, <2>1, <3>3, <3>5 DEF ColorTaskOK, AskedOK
      <4> QED BY <1>0, <1>a, <2>0, <3>5, <4>1, PassTypes, AppStays
    <3>6. CASE /\ task' = [task EXCEPT !.pc = "probe", !.next = next]
               /\ SetExposure(next.gain, next.ms)
      <4>1. ColorTaskOK'
        BY <1>b, <2>1, <3>3, <3>6 DEF ColorTaskOK, AskedOK
      <4>2. next.ms \in Int
        BY <3>3 DEF AskedOK
      <4>3. ColorDevOK'
        BY <1>0, <3>6, <4>2, SetExposureFacts
      <4> QED BY <1>0, <2>0, <4>1, <4>3, PassTypes, AppStays
    <3> QED BY <3>4, <3>5, <3>6
  <2>2. CASE task.pc = "probe"
    <3>1. UNCHANGED dev /\ task' = [task EXCEPT !.pc = "apply", !.sample = Resolved]
      BY <1>4, <2>2 DEF ColorAuto
    <3>2. AskedOK(task.next) /\ ExposureOK(Resolved)
      BY <1>0, <2>2, ResolvedOK DEF ColorTaskOK
    <3>3. ColorTaskOK'
      BY <1>b, <2>2, <3>1, <3>2 DEF ColorTaskOK, AskedOK
    <3> QED BY <1>0, <1>a, <2>0, <3>1, <3>3, PassTypes, AppStays
  <2>3. CASE task.pc = "apply"
    <3>1. PICK works \in BOOLEAN :
             /\ Configure(task.sample, works)
             /\ task' = [task EXCEPT !.pc = "publish",
                                     !.gain = IF works THEN task.next.gain ELSE @,
                                     !.ms = IF works THEN task.next.ms ELSE @]
      BY <1>4, <2>3 DEF ColorAuto
    <3>2. AskedOK(task.next) /\ ExposureOK(task.sample)
      BY <1>0, <2>3 DEF ColorTaskOK
    <3>3. ColorDevOK'
      BY <1>0, <3>1, <3>2, ConfigureFacts
    <3>4. ColorTaskOK'
      BY <1>b, <2>3, <3>1, <3>2 DEF ColorTaskOK, AskedOK
    <3> QED BY <1>0, <2>0, <3>3, <3>4, PassTypes, AppStays
  <2> QED BY <1>4, <2>1, <2>2, <2>3 DEF ColorAuto
<1>5. CASE ColorPublish
  <2>1. /\ app' = [app EXCEPT !.cfg.gain = task.gain, !.cfg.ms = task.ms]
        /\ task' = ColorTaskAtStart /\ UNCHANGED <<dev, comm, nvs>> /\ task.pc = "publish"
    BY <1>5 DEF ColorPublish
  <2>2. task.gain \in Nat \ {0} /\ task.ms \in Nat /\ task.ms >= 3
    BY <1>b, <2>1 DEF AskedOK
  <2> DEFINE cfg == [app.cfg EXCEPT !.gain = task.gain, !.ms = task.ms]
  <2>3. ColorCfgOK(cfg)
    BY <1>0, <2>2 DEF ColorAppOK, ColorCfgOK, ColorBlobs
  <2>4. app'.cfg = cfg /\ DOMAIN app' = DOMAIN app /\ app'.cal = app.cal
        /\ app'.capture = app.capture /\ app'.link = app.link
    BY <1>0, <2>1 DEF ColorAppOK, ColorCfgOK, ColorBlobs
  <2> HIDE DEF cfg
  <2>5. ColorAppOK'
    BY <1>0, <2>3, <2>4 DEF ColorAppOK
  <2>6. ColorTaskOK'
    BY <2>1 DEF ColorTaskAtStart, ColorTaskOK
  <2> QED BY <1>a, <2>1, <2>5, <2>6, PassTypes
<1> QED BY <1>1, <1>2, <1>3, <1>4, <1>5 DEF ColorTask

LEMMA ColorBootTypes ==
  ASSUME ColorStored(nvs), comm = Idle,
         NEW b \in ColorBoots(nvs), app = b.app, dev = b.dev, task = b.task
  PROVE  ColorTypes
<1> DEFINE cfg == ColorLoadCfg(nvs.cfg)
           cal == ColorLoadCal(nvs.cal)
<1>1. ColorCfgOK(cfg)
  <2>1. CASE nvs.cfg = NoBlob
    BY <2>1, ColorDefaultsOK DEF ColorLoadCfg
  <2>2. CASE nvs.cfg # NoBlob
    <3> DEFINE c == ColorSanitized(nvs.cfg[1])
    <3>1. ColorCfgOK(c)
      BY <2>2, ColorSanitizedFacts DEF ColorStored
    <3>2. cfg = [c EXCEPT !.led = ON]
      BY <2>2 DEF ColorLoadCfg
    <3> HIDE DEF c, cfg
    <3> QED BY <3>1, <3>2 DEF ColorCfgOK, ColorBlobs, ON, AUTO
  <2> QED BY <2>1, <2>2
<1>2. ColorCalOK(cal)
  <2>1. CASE nvs.cal = NoBlob
    BY <2>1, DefaultProfileOK DEF ColorLoadCal, ColorCalOK
  <2>2. CASE nvs.cal # NoBlob
    BY <2>2 DEF ColorLoadCal, ColorStored
  <2> QED BY <2>1, <2>2
<1>3. PICK probed \in BOOLEAN :
         b = [app  |-> [cfg |-> cfg, cal |-> cal, capture |-> NoCapture, link |-> FALSE],
              dev  |-> [led |-> FALSE, configured |-> probed,
                        gain |-> IF probed THEN ResolvedGain(cfg.gain) ELSE cfg.gain,
                        ms |-> IF probed THEN ResolvedMs(cfg.ms) ELSE cfg.ms],
              task |-> ColorTaskAtStart]
  BY DEF ColorBoots
<1> HIDE DEF cfg, cal
<1>4. cfg.ms \in Int
  BY <1>1 DEF ColorCfgOK, ColorBlobs
<1>5. /\ ResolvedGain(cfg.gain) \in Gains /\ ResolvedMs(cfg.ms) \in Times
      /\ ResolvedMs(cfg.ms) \in Int
  BY <1>4, ResolvedFacts, TimesFacts
<1>6. ColorAppOK
  BY <1>1, <1>2, <1>3, CapturesOK DEF ColorAppOK
<1>7. ColorDevOK
  BY <1>3, <1>4, <1>5 DEF ColorDevOK, ExposureOK
<1>8. ColorTaskOK
  BY <1>3 DEF ColorTaskAtStart, ColorTaskOK
<1>9. ColorCommOK
  BY DEF Idle, ColorCommOK
<1> QED BY <1>6, <1>7, <1>8, <1>9 DEF ColorTypes
=============================================================================
