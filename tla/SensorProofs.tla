----------------------------- MODULE SensorProofs -----------------------------
(***************************************************************************)
(* The invariants of SensorBoards, for any sessions, channels and bounds:  *)
(* the types; the line sensor's calibration can be divided by outside a    *)
(* capture; the published distance is a median of the last readings; and   *)
(* the colour board's LED follows the link and the configuration.          *)
(***************************************************************************)
EXTENDS ColorProofs

-----------------------------------------------------------------------------
(* The line board.                                                         *)

Usable(cal) == \A ch \in Channels : cal[ch][1] < cal[ch][2]

LineCfgOK(cfg) == /\ DOMAIN cfg = {"track", "level", "time", "name"}
                  /\ cfg.level \in 5 .. 95 /\ cfg.time >= 100

\* What is in flash: the configurations of both layouts have a level and a time
LineFlashOK(n) == /\ DOMAIN n = {"cfg", "cal", "works"}
                  /\ n.cal # NoBlob => n.cal[1] \in Calibrations
                  /\ n.cfg # NoBlob => n.cfg[1].level \in 5 .. 95 /\ n.cfg[1].time >= 100

\* Wherever a calibration is copied to, its bounds are in range; the driver's is
\* usable unless a capture is folding readings into it.
LineInv ==
    /\ DOMAIN app = {"cfg", "cal", "on"} /\ app.cal \in Calibrations
    /\ LineCfgOK(app.cfg) /\ app.on \in BOOLEAN
    /\ DOMAIN dev = {"cal", "on", "done"} /\ dev.cal \in Calibrations
    /\ dev.on \in BOOLEAN /\ dev.done \in BOOLEAN
    /\ dev.on \/ Usable(dev.cal)
    /\ DOMAIN task = {"pc", "cal", "on"} /\ task.on \in BOOLEAN
    /\ task.pc \in {"state", "write", "put", "save"} => task.cal \in Calibrations
    /\ comm.pc \in {"idle", "set", "get", "put", "save"}
    /\ {"pc", "f"} \subseteq DOMAIN comm
    /\ comm.pc \in {"set", "put", "save"} => "cal" \in DOMAIN comm /\ comm.cal \in Calibrations
    /\ LineFlashOK(nvs)

LEMMA RawFacts == RAW_MAX \in Nat /\ UINT16_MAX \in Nat /\ 0 < RAW_MAX /\ RAW_MAX < UINT16_MAX
BY SMT DEF RAW_MAX, UINT16_MAX

LEMMA SanitizedUsable ==
  ASSUME NEW cal \in Calibrations
  PROVE  Sanitized(cal) \in Calibrations /\ Usable(Sanitized(cal))
BY RawFacts DEF Sanitized, Usable, Calibrations

LEMMA WidenedFacts ==
  ASSUME NEW cal \in Calibrations, NEW raw \in [Channels -> 0 .. RAW_MAX]
  PROVE  Widened(cal, raw) \in Calibrations
<1>1. ASSUME NEW ch \in Channels
      PROVE  <<IF raw[ch] < cal[ch][1] THEN raw[ch] ELSE cal[ch][1],
               IF raw[ch] > cal[ch][2] THEN raw[ch] ELSE cal[ch][2]>>
               \in (0 .. UINT16_MAX) \X (0 .. RAW_MAX)
  BY RawFacts DEF Calibrations
<1> QED BY <1>1 DEF Widened, Calibrations

LEMMA DefaultsAreCals == DefaultCal \in Calibrations /\ CaptureExtremes \in Calibrations
BY RawFacts DEF DefaultCal, CaptureExtremes, Calibrations

LEMMA LineLoadFacts ==
  ASSUME NEW n, LineFlashOK(n)
  PROVE  LineCfgOK(LineLoadCfg(n.cfg))
BY DEF LineFlashOK, LineLoadCfg, LineCfgOK, LineDefaults

\* The flash after a write that may have failed
LEMMA CommitCal ==
  ASSUME LineFlashOK(nvs), NEW cal \in Calibrations, NEW saved, CommitFits("cal", cal, saved)
  PROVE  LineFlashOK(nvs)'
BY DEF CommitFits, LineFlashOK, NoBlob

LEMMA CommitCfg ==
  ASSUME LineFlashOK(nvs), NEW cfg, LineCfgOK(cfg), NEW saved,
         CommitFits("cfg", LineBlob(cfg), saved)
  PROVE  LineFlashOK(nvs)'
BY DEF CommitFits, LineFlashOK, LineCfgOK, LineBlob, NoBlob

\* SET CFG with what its checks let through
LEMMA LineCfgWithFacts ==
  ASSUME NEW cfg, LineCfgOK(cfg), NEW v, NEW key \in {"TRACK", "CAL_TIME_MS", "LEVEL", "NAME"},
         key = "LEVEL" => v \in Int, LineCfgFits(key, v)
  PROVE  LineCfgOK(LineCfgWith(cfg, key, v))
<1>1. CASE key = "TRACK"
  BY <1>1 DEF LineCfgWith, LineCfgOK
<1>2. CASE key = "CAL_TIME_MS"
  BY <1>2 DEF LineCfgWith, LineCfgOK, LineCfgFits
<1>3. CASE key = "LEVEL"
  <2>1. Within(5, 95, v) \in 5 .. 95
    BY <1>3 DEF Within
  <2> QED BY <1>3, <2>1 DEF LineCfgWith, LineCfgOK
<1>4. CASE key = "NAME"
  BY <1>4 DEF LineCfgWith, LineCfgOK
<1> QED BY <1>1, <1>2, <1>3, <1>4

LEMMA LineBootFacts ==
  ASSUME LineFlashOK(nvs), comm = Idle,
         app = LineBoot(nvs).app, dev = LineBoot(nvs).dev, task = LineBoot(nvs).task
  PROVE  LineInv
<1> DEFINE cal == IF nvs.cal = NoBlob THEN DefaultCal ELSE nvs.cal[1]
           cfg == LineLoadCfg(nvs.cfg)
<1>1. cal \in Calibrations /\ LineCfgOK(cfg)
  BY DefaultsAreCals, LineLoadFacts DEF LineFlashOK
<1>2. /\ app = [cfg |-> cfg, cal |-> cal, on |-> FALSE]
      /\ dev = [cal |-> Sanitized(cal), on |-> FALSE, done |-> FALSE]
      /\ task = LineTaskAtStart
  BY DEF LineBoot
<1> HIDE DEF cal, cfg
<1>3. Sanitized(cal) \in Calibrations /\ Usable(Sanitized(cal))
  BY <1>1, SanitizedUsable
<1> QED BY <1>1, <1>2, <1>3 DEF LineInv, LineTaskAtStart, Idle

\* A handler of the serial task that is not one of a calibration
LEMMA LineSameInv ==
  ASSUME LineInv, UNCHANGED <<app, dev, task, nvs>>, comm' \in {comm, Idle}
  PROVE  LineInv'
<1>1. CASE comm' = comm
  BY <1>1 DEF LineInv
<1>2. CASE comm' = Idle
  BY <1>2 DEF LineInv, Idle
<1> QED BY <1>1, <1>2

LEMMA LineCommandInv ==
  ASSUME LineInv, On("line"), session \in DOMAIN Sessions,
         NEW f \in This.frames, comm.pc = "idle", LineCommand(f)
  PROVE  LineInv'
<1>0. /\ app.cal \in Calibrations /\ dev.cal \in Calibrations /\ DOMAIN app = {"cfg", "cal", "on"}
      /\ DOMAIN dev = {"cal", "on", "done"}
  BY DEF LineInv
<1>1. CASE \E text \in LineReads :
             IsCommand(f, text) /\ Executes("DATA") /\ UNCHANGED <<app, dev, nvs>>
  BY <1>1, LineSameInv DEF Executes
<1>2. CASE StartCal /\ Executes("OK") /\ UNCHANGED <<app, nvs>>
  BY <1>2, DefaultsAreCals DEF StartCal, Executes, LineInv
<1>3. CASE StopCal /\ Begins("get", f) /\ UNCHANGED <<app, nvs>>
  <2>1. /\ dev'.cal \in Calibrations /\ Usable(dev'.cal) /\ DOMAIN dev' = {"cal", "on", "done"}
        /\ dev'.on \in BOOLEAN /\ dev'.done \in BOOLEAN
    BY <1>0, <1>3, SanitizedUsable DEF StopCal
  <2> QED BY <1>3, <2>1 DEF Begins, LineInv
<1>4. CASE Begins("get", f) /\ UNCHANGED <<app, dev, nvs>>
  BY <1>4 DEF Begins, LineInv
<1>5. CASE /\ \E saved \in BOOLEAN :
                CommitFits("cfg", LineBlob(app.cfg), saved) /\ Executes(IF saved THEN "OK" ELSE "ERR")
           /\ UNCHANGED <<app, dev>>
  BY <1>5, CommitCfg DEF Executes, LineInv
<1>6. CASE /\ IsCommand(f, "SET CFG")
           /\ IF LineCfgFits(f.c[2][1], f.c[2][2])
              THEN /\ app' = [app EXCEPT !.cfg = LineCfgWith(@, f.c[2][1], f.c[2][2])]
                   /\ Executes("DATA")
              ELSE UNCHANGED app /\ Executes("ERR")
           /\ UNCHANGED <<dev, nvs>>
  <2>1. DOMAIN app' = DOMAIN app /\ app'.cal = app.cal /\ app'.on = app.on /\ LineCfgOK(app'.cfg)
    <3>1. /\ f.c[2][1] \in {"TRACK", "CAL_TIME_MS", "LEVEL", "NAME"}
          /\ f.c[2][1] = "LEVEL" => f.c[2][2] \in Int
      BY <1>6, LineSessions DEF IsCommand, On, This
    <3>2. LineCfgOK(app.cfg)
      BY DEF LineInv
    <3>3. CASE LineCfgFits(f.c[2][1], f.c[2][2])
      <4>1. LineCfgOK(LineCfgWith(app.cfg, f.c[2][1], f.c[2][2]))
        BY <3>1, <3>2, <3>3, LineCfgWithFacts
      <4>2. app' = [app EXCEPT !.cfg = LineCfgWith(app.cfg, f.c[2][1], f.c[2][2])]
        BY <1>6, <3>3
      <4> QED BY <1>0, <4>1, <4>2
    <3> QED BY <1>6, <3>2, <3>3
  <2>2. UNCHANGED <<dev, nvs, task, comm>>
    BY <1>6 DEF Executes
  <2> QED BY <2>1, <2>2 DEF LineInv
<1>7. CASE IsCommand(f, "SET CAL") /\ UNCHANGED <<app, dev, nvs>>
  <2>1. f.c[2][2] \in Int /\ f.c[2][3] \in Int
    BY <1>7, LineSessions DEF IsCommand, On, This
  <2>2. CASE CalFits(f.c[2][1], f.c[2][2], f.c[2][3])
    <3> DEFINE cal == [app.cal EXCEPT ![f.c[2][1]] = <<f.c[2][2], f.c[2][3]>>]
    <3>1. cal \in Calibrations
      BY <1>0, <2>1, <2>2, RawFacts DEF Calibrations, CalFits
    <3>2. comm' = [pc |-> "set", f |-> f, cal |-> cal] /\ UNCHANGED task
      BY <1>7, <2>2 DEF LineCommand, IsCommand, LineReads
    <3> HIDE DEF cal
    <3> QED BY <1>7, <3>1, <3>2 DEF LineInv
  <2>3. CASE ~CalFits(f.c[2][1], f.c[2][2], f.c[2][3])
    <3>1. Executes("ERR")
      BY <1>7, <2>3 DEF LineCommand, IsCommand, LineReads
    <3> QED BY <1>7, <3>1, LineSameInv DEF Executes
  <2> QED BY <2>2, <2>3
<1> QED BY <1>1, <1>2, <1>3, <1>4, <1>5, <1>6, <1>7 DEF LineCommand

LEMMA LineCommInv ==
  ASSUME LineInv, On("line"), session \in DOMAIN Sessions, LineComm
  PROVE  LineInv'
<1>0. /\ app.cal \in Calibrations /\ dev.cal \in Calibrations /\ DOMAIN app = {"cfg", "cal", "on"}
      /\ DOMAIN dev = {"cal", "on", "done"}
  BY DEF LineInv
<1>1. CASE \E f \in This.frames :
             Hears(f) /\ IF f.type = "HOST" THEN LineControlFrame(f) ELSE LineStreamFrame(f)
  <2>1. PICK f \in This.frames :
             Hears(f) /\ IF f.type = "HOST" THEN LineControlFrame(f) ELSE LineStreamFrame(f)
    BY <1>1
  <2>2. CASE LineCommand(f)
    BY <2>1, <2>2, LineCommandInv DEF Hears
  <2>3. CASE LineControlFrame(f)
    BY <2>3, LineSameInv DEF LineControlFrame, HostFrame, Replies
  <2>4. CASE OtherFrame(f, IF f.c[1] \in TractionOut THEN "OK" ELSE "ERR")
    BY <2>4, LineSameInv DEF OtherFrame, Unknown, Replies, TelemetryFrame
  <2> QED BY <2>1, <2>2, <2>3, <2>4 DEF LineStreamFrame
<1>2. CASE CommSet
  <2>1. comm.cal \in Calibrations
    BY <1>2 DEF CommSet, LineInv
  <2>2. /\ dev'.cal = Sanitized(comm.cal) /\ DOMAIN dev' = {"cal", "on", "done"}
        /\ dev'.on = dev.on /\ dev'.done = dev.done
    BY <1>0, <1>2 DEF CommSet, SetCal
  <2>3. dev'.cal \in Calibrations /\ Usable(dev'.cal)
    BY <2>1, <2>2, SanitizedUsable
  <2> QED BY <1>2, <2>2, <2>3 DEF CommSet, LineInv
<1>3. CASE CommGet
  BY <1>0, <1>3 DEF CommGet, LineInv
<1>4. CASE CommPut
  <2>1. comm.cal \in Calibrations /\ UNCHANGED <<dev, task, nvs>>
    BY <1>4 DEF CommPut, LineInv, Ends
  <2>2. /\ DOMAIN app' = {"cfg", "cal", "on"} /\ app'.cal \in Calibrations
        /\ app'.cfg = app.cfg /\ app'.on = app.on
    BY <1>0, <1>4, <2>1 DEF CommPut
  <2>3. comm' \in {Idle, [comm EXCEPT !.pc = "save"]}
    BY <1>4 DEF CommPut, Ends
  <2>4. CASE comm' = Idle
    BY <2>1, <2>2, <2>4 DEF LineInv, Idle
  <2>5. CASE comm' = [comm EXCEPT !.pc = "save"]
    <3>1. comm.pc = "put"
      BY <1>4 DEF CommPut
    <3>2. {"pc", "f", "cal"} \subseteq DOMAIN comm
      BY <3>1 DEF LineInv
    <3>3. comm'.pc = "save" /\ comm'.cal = comm.cal /\ DOMAIN comm' = DOMAIN comm
      BY <2>5, <3>2
    <3> QED BY <2>1, <2>2, <3>2, <3>3 DEF LineInv
  <2> QED BY <2>3, <2>4, <2>5
<1>5. CASE CommSave
  <2>1. comm.cal \in Calibrations
    BY <1>5 DEF CommSave, LineInv
  <2>2. LineFlashOK(nvs)'
    BY <1>5, <2>1, CommitCal DEF CommSave, LineInv
  <2>3. comm' = Idle /\ UNCHANGED <<app, dev, task>>
    BY <1>5 DEF CommSave, Ends
  <2> QED BY <2>2, <2>3 DEF Idle, LineInv
<1>6. CASE LineTelemetry \/ LineLinkTimeout
  BY <1>6, LineSameInv DEF LineTelemetry, SendsTelemetry, LineLinkTimeout
<1> QED BY <1>1, <1>2, <1>3, <1>4, <1>5, <1>6 DEF LineComm

LEMMA LineTaskInv ==
  ASSUME LineInv, On("line"), session \in DOMAIN Sessions, LineTask
  PROVE  LineInv'
<1>0. /\ app.cal \in Calibrations /\ dev.cal \in Calibrations /\ DOMAIN app = {"cfg", "cal", "on"}
      /\ DOMAIN dev = {"cal", "on", "done"} /\ DOMAIN task = {"pc", "cal", "on"}
  BY DEF LineInv
<1>1. CASE \E over \in BOOLEAN : LineSample(over)
  <2>1. PICK over \in BOOLEAN, raw \in [Channels -> This.scene] : SampleWith(raw, over)
    BY <1>1 DEF LineSample
  <2>2. raw \in [Channels -> 0 .. RAW_MAX]
    BY LineSessions DEF On, This
  <2>3. Widened(dev.cal, raw) \in Calibrations
    BY <1>0, <2>2, WidenedFacts
  <2>4. Sanitized(Widened(dev.cal, raw)) \in Calibrations /\ Usable(Sanitized(Widened(dev.cal, raw)))
    BY <2>3, SanitizedUsable
  <2>5. /\ DOMAIN dev' = {"cal", "on", "done"} /\ dev'.cal \in Calibrations
        /\ dev'.on \/ Usable(dev'.cal)
        /\ dev'.on \in BOOLEAN /\ dev'.done \in BOOLEAN
    <3>0. dev.done \in BOOLEAN /\ dev.on \in BOOLEAN
      BY DEF LineInv
    <3>1. CASE ~dev.on
      BY <2>1, <3>1 DEF SampleWith, LineInv
    <3>2. CASE dev.on /\ over
      BY <2>1, <2>4, <3>2 DEF SampleWith
    <3>3. CASE dev.on /\ ~over
      BY <1>0, <2>1, <2>3, <3>0, <3>3 DEF SampleWith
    <3> QED BY <3>1, <3>2, <3>3
  <2>6. task' = [task EXCEPT !.pc = "cal"] /\ UNCHANGED <<app, comm, nvs>>
    BY <1>1 DEF LineSample
  <2>7. DOMAIN task' = {"pc", "cal", "on"} /\ task'.pc = "cal" /\ task'.on = task.on
    BY <1>0, <2>6
  <2> QED BY <2>5, <2>6, <2>7 DEF LineInv
<1>2. CASE LineCopy
  BY <1>0, <1>2 DEF LineCopy, LineInv
<1>3. CASE LinePublish
  BY <1>0, <1>3 DEF LinePublish, LineInv
<1>4. CASE LineConsume
  BY <1>0, <1>4 DEF LineConsume, LineInv
<1>5. CASE LinePersist
  <2>1. CASE task.pc = "get"
    BY <1>0, <1>5, <2>1 DEF LinePersist, LineInv
  <2>2. CASE task.pc = "put"
    BY <1>0, <1>5, <2>2 DEF LinePersist, LineInv
  <2>3. CASE task.pc = "save"
    <3>1. task.cal \in Calibrations
      BY <2>3 DEF LineInv
    <3>2. LineFlashOK(nvs)'
      BY <1>5, <2>3, <3>1, CommitCal DEF LinePersist, LineInv
    <3>3. UNCHANGED <<app, dev, comm>> /\ task' = LineTaskAtStart
      BY <1>5, <2>3 DEF LinePersist
    <3> QED BY <3>2, <3>3 DEF LineTaskAtStart, LineInv
  <2> QED BY <1>5, <2>1, <2>2, <2>3 DEF LinePersist
<1> QED BY <1>1, <1>2, <1>3, <1>4, <1>5 DEF LineTask

-----------------------------------------------------------------------------
(* The boards together.                                                    *)

BoardInv == /\ session \in DOMAIN Sessions
            /\ On("line") => LineInv
            /\ On("distance") => DistanceInv
            /\ On("color") => ColorInv /\ ColorTypes

FlashOK == /\ On("line") => LineFlashOK(nvs)
           /\ On("distance") => DistanceFlashOK(nvs)
           /\ On("color") => ColorStored(nvs)

\* A power-up, of any board
Starts == /\ session \in DOMAIN Sessions /\ comm = Idle /\ FlashOK
          /\ \E b \in Boots(This.board, nvs) : app = b.app /\ dev = b.dev /\ task = b.task

LEMMA StartFacts == Starts => BoardInv
<1> SUFFICES ASSUME Starts PROVE BoardInv
  OBVIOUS
<1>0. PICK b \in Boots(This.board, nvs) : app = b.app /\ dev = b.dev /\ task = b.task
  BY DEF Starts
<1>1. ASSUME On("line") PROVE LineInv
  <2>1. b = LineBoot(nvs)
    BY <1>0, <1>1 DEF On, Boots
  <2> QED BY <1>0, <1>1, <2>1, LineBootFacts DEF FlashOK, Starts
<1>2. ASSUME On("distance") PROVE DistanceInv
  <2>1. b = DistanceBoot(nvs)
    BY <1>0, <1>2 DEF On, Boots
  <2> QED BY <1>0, <1>2, <2>1, DistanceBootFacts DEF FlashOK, Starts
<1>3. ASSUME On("color") PROVE ColorInv /\ ColorTypes
  <2>1. b \in ColorBoots(nvs) /\ ColorStored(nvs) /\ comm = Idle
    BY <1>0, <1>3 DEF On, Boots, FlashOK, Starts
  <2>2. nvs.cfg # NoBlob => DOMAIN nvs.cfg[1] = CfgFields
    BY <2>1 DEF ColorStored, ColorBlobs, CfgFields
  <2>3. ColorInv
    BY <1>0, <2>1, <2>2, ColorBootFacts DEF ColorStored, ColorInv, LedIsRight, LedFor, Idle
  <2> QED BY <1>0, <2>1, <2>3, ColorBootTypes
<1> QED BY <1>1, <1>2, <1>3 DEF BoardInv, Starts

LEMMA InitInv == Init => BoardInv
<1> SUFFICES ASSUME Init PROVE BoardInv
  OBVIOUS
<1>1. session \in DOMAIN Sessions /\ nvs = Sessions[session].nvs /\ comm = Idle
  BY DEF Init, This
<1>2. DOMAIN nvs = {"cfg", "cal", "works"}
  BY <1>1, SessionsAssumption
<1>3. ASSUME On("line") PROVE LineFlashOK(nvs)
  BY <1>1, <1>2, <1>3, LineSessions DEF On, This, LineFlashOK, Calibrations
<1>4. ASSUME On("distance") PROVE DistanceFlashOK(nvs)
  BY <1>1, <1>2, <1>4, DistanceSessions DEF On, This, DistanceFlashOK, DistanceFields
<1>5. ASSUME On("color") PROVE ColorStored(nvs)
  BY <1>1, <1>2, <1>5, ColorSessions DEF On, This, ColorStored, ColorCalOK
<1>6. Starts
  BY <1>1, <1>3, <1>4, <1>5 DEF Init, Starts, FlashOK
<1> QED BY <1>6, StartFacts

LEMMA RestartInv ==
  ASSUME BoardInv, Restart
  PROVE  BoardInv'
<1>1. /\ UNCHANGED <<session, nvs>> /\ comm' = Idle /\ session \in DOMAIN Sessions
      /\ UNCHANGED This
  BY DEF Restart, BoardInv, This
<1>2. FlashOK'
  BY <1>1 DEF BoardInv, LineInv, DistanceInv, ColorTypes, FlashOK, On,
             LineFlashOK, DistanceFlashOK, ColorStored
<1>3. Starts'
  BY <1>1, <1>2 DEF Starts, Restart, Boots
<1> QED BY <1>3, StartFacts, PTL

LEMMA NextInv == BoardInv /\ [Next]_boardVars => BoardInv'
<1> SUFFICES ASSUME BoardInv, [Next]_boardVars, ~Restart PROVE BoardInv'
  BY RestartInv
<1>1. UNCHANGED session
  BY DEF Next, CommStep, TaskStep, HostStays, HostIsGone, boardVars
<1>2. \A board : On(board)' = On(board)
  BY <1>1 DEF On, This
<1>3. ~(On("line") /\ On("color")) /\ ~(On("line") /\ On("distance"))
      /\ ~(On("color") /\ On("distance"))
  BY DEF On
<1>4. \/ On("line") /\ (LineComm \/ LineTask)
      \/ On("distance") /\ (DistanceComm \/ DistanceTask)
      \/ On("color") /\ (ColorComm \/ ColorTask)
      \/ UNCHANGED <<app, dev, task, comm, nvs>>
  BY DEF Next, CommStep, TaskStep, HostIsGone, boardVars
<1>5. ASSUME On("line") PROVE LineInv'
  <2>1. LineInv /\ session \in DOMAIN Sessions
    BY <1>5 DEF BoardInv
  <2>2. CASE UNCHANGED <<app, dev, task, comm, nvs>>
    BY <2>1, <2>2, LineSameInv
  <2> QED BY <1>3, <1>4, <1>5, <2>1, <2>2, LineCommInv, LineTaskInv
<1>6. ASSUME On("distance") PROVE DistanceInv'
  <2>1. DistanceInv /\ session \in DOMAIN Sessions
    BY <1>6 DEF BoardInv
  <2>2. CASE UNCHANGED <<app, dev, task, comm, nvs>>
    BY <2>1, <2>2, DistanceSameInv
  <2> QED BY <1>3, <1>4, <1>6, <2>1, <2>2, DistanceCommInv, DistanceTaskInv
<1>7. ASSUME On("color") PROVE ColorInv' /\ ColorTypes'
  <2>1. ColorInv /\ ColorTypes /\ session \in DOMAIN Sessions
    BY <1>7 DEF BoardInv
  <2>2. CASE UNCHANGED <<app, dev, task, comm, nvs>>
    BY <2>1, <2>2, LedCommandInv, ExecutedTypes, AppStays DEF ColorTypes
  <2> QED BY <1>3, <1>4, <1>7, <2>1, <2>2, ColorCommInv, ColorTaskInv,
             ColorCommTypes, ColorTaskTypes
<1> QED BY <1>1, <1>2, <1>5, <1>6, <1>7 DEF BoardInv

-----------------------------------------------------------------------------
(* The wire, the flash and the host, the same for every board.             *)

LinkOK == /\ DOMAIN wire = {"link", "stream", "out"}
          /\ wire.link \in BOOLEAN /\ wire.stream \in BOOLEAN

FlashKeeps == DOMAIN nvs = {"cfg", "cal", "works"} /\ nvs.works \in BOOLEAN

HostOK == /\ DOMAIN host = {"gone", "boots"} /\ host.gone \in BOOLEAN
          /\ host.boots \in 0 .. This.boots

SharedInv == session \in DOMAIN Sessions /\ LinkOK /\ FlashKeeps /\ HostOK

\* The ways a step of a board touches them
WireStep == \/ UNCHANGED wire
            \/ \E text : Says(text)
            \/ \E link \in BOOLEAN : wire' = [wire EXCEPT !.link = link]
            \/ SendsTelemetry
            \/ \E f : TelemetryFrame(f)

FlashStep == \/ UNCHANGED nvs
             \/ \E kind \in {"cfg", "cal"} : \E blob, saved : CommitFits(kind, blob, saved)

LEMMA LinkKept ==
  ASSUME LinkOK, WireStep
  PROVE  LinkOK'
<1>1. CASE UNCHANGED wire
  BY <1>1 DEF LinkOK
<1>2. CASE \E text : Says(text)
  BY <1>2 DEF LinkOK, Says
<1>3. CASE \E link \in BOOLEAN : wire' = [wire EXCEPT !.link = link]
  BY <1>3 DEF LinkOK
<1>4. CASE SendsTelemetry
  BY <1>4 DEF LinkOK, SendsTelemetry
<1>5. CASE \E f : TelemetryFrame(f)
  <2>1. PICK f : TelemetryFrame(f)
    BY <1>5
  <2>2. PICK stream : /\ stream \in BOOLEAN
                      /\ wire' = [wire EXCEPT !.link = TRUE, !.out = f.c[1], !.stream = stream]
    BY <2>1 DEF LinkOK, TelemetryFrame
  <2> QED BY <2>2 DEF LinkOK
<1> QED BY <1>1, <1>2, <1>3, <1>4, <1>5 DEF WireStep

LEMMA FlashKept ==
  ASSUME FlashKeeps, FlashStep
  PROVE  FlashKeeps'
BY DEF FlashKeeps, FlashStep, CommitFits

LEMMA LineTouches ==
  ASSUME LineComm \/ LineTask
  PROVE  WireStep /\ FlashStep
<1>1. CASE LineTask
  BY <1>1 DEF LineTask, LineSample, LineCopy, LinePublish, LineConsume, LinePersist,
              WireStep, FlashStep
<1>2. CASE \E f \in This.frames :
             Hears(f) /\ IF f.type = "HOST" THEN LineControlFrame(f) ELSE LineStreamFrame(f)
  <2>1. PICK f : IF f.type = "HOST" THEN LineControlFrame(f) ELSE LineStreamFrame(f)
    BY <1>2
  <2>2. CASE LineCommand(f)
    BY <2>2 DEF LineCommand, Executes, Begins, WireStep, FlashStep
  <2>3. CASE HostFrame(f) \/ OtherFrame(f, IF f.c[1] \in TractionOut THEN "OK" ELSE "ERR")
    BY <2>3 DEF HostFrame, OtherFrame, Unknown, Replies, WireStep, FlashStep, TelemetryFrame
  <2> QED BY <2>1, <2>2, <2>3 DEF LineControlFrame, LineStreamFrame
<1>3. CASE CommSet \/ CommGet \/ CommPut \/ CommSave
  BY <1>3 DEF CommSet, CommGet, CommPut, CommSave, Ends, WireStep, FlashStep
<1>4. CASE LineTelemetry \/ LineLinkTimeout
  BY <1>4 DEF LineTelemetry, LineLinkTimeout, SendsTelemetry, LosesLink, WireStep, FlashStep
<1> QED BY <1>1, <1>2, <1>3, <1>4 DEF LineComm

LEMMA DistanceTouches ==
  ASSUME DistanceComm \/ DistanceTask
  PROVE  WireStep /\ FlashStep
<1>1. CASE DistanceTask
  BY <1>1 DEF DistanceTask, DistanceSnapshot, DistanceApply, DistanceMeasure, DistancePublish,
              WireStep, FlashStep
<1>2. CASE \E f \in This.frames :
             Hears(f) /\ IF f.type = "HOST" THEN DistanceControlFrame(f)
                         ELSE DistanceStreamFrame(f)
  <2>1. PICK f : IF f.type = "HOST" THEN DistanceControlFrame(f) ELSE DistanceStreamFrame(f)
    BY <1>2
  <2>2. CASE DistanceCommand(f)
    BY <2>2 DEF DistanceCommand, Executes, Begins, WireStep, FlashStep
  <2>3. CASE HostFrame(f) \/ OtherFrame(f, "ERR")
    BY <2>3 DEF HostFrame, OtherFrame, Unknown, Replies, WireStep, FlashStep, TelemetryFrame
  <2> QED BY <2>1, <2>2, <2>3 DEF DistanceControlFrame, DistanceStreamFrame
<1>3. CASE CommMax \/ CommCfg \/ CommStore \/ CommSelftest
  BY <1>3 DEF CommMax, CommCfg, CommStore, CommSelftest, Ends, WireStep, FlashStep
<1>4. CASE DistanceTelemetry \/ DistanceLinkTimeout
  BY <1>4 DEF DistanceTelemetry, DistanceLinkTimeout, SendsTelemetry, LosesLink,
              WireStep, FlashStep
<1> QED BY <1>1, <1>2, <1>3, <1>4 DEF DistanceComm

LEMMA ColorTouches ==
  ASSUME ColorComm \/ ColorTask
  PROVE  WireStep /\ FlashStep
<1>1. CASE ColorTask
  BY <1>1 DEF ColorTask, ColorSnap, ColorRead, ColorProcess, ColorAuto, ColorPublish,
              WireStep, FlashStep
<1>2. CASE \E f \in This.frames :
             /\ Hears(f) /\ wire.link
             /\ IF f.type = "HOST" THEN ColorControlFrame(f) ELSE ColorStreamFrame(f)
  <2>1. PICK f : IF f.type = "HOST" THEN ColorControlFrame(f) ELSE ColorStreamFrame(f)
    BY <1>2
  <2>2. CASE ColorCfgCommand(f)
    BY <2>2 DEF ColorCfgCommand, Executes, WireStep, FlashStep
  <2>3. CASE ColorCalCommand(f)
    BY <2>3 DEF ColorCalCommand, Executes, WireStep, FlashStep
  <2>4. CASE ColorCaptureCommand(f) \/ ColorPatchCommand(f)
    BY <2>4 DEF ColorCaptureCommand, ColorPatchCommand, CommitTarget, Executes,
                WireStep, FlashStep
  <2>5. CASE ColorCommand(f) /\ ~(ColorCfgCommand(f) \/ ColorCalCommand(f)
                                  \/ ColorCaptureCommand(f) \/ ColorPatchCommand(f))
    BY <2>5 DEF ColorCommand, Executes, WireStep, FlashStep
  <2>6. CASE HostFrame(f) \/ OtherFrame(f, IF f.c[1] \in TractionOut THEN "OK" ELSE "ERR")
    BY <2>6 DEF HostFrame, OtherFrame, Unknown, Replies, WireStep, FlashStep, TelemetryFrame
  <2> QED BY <2>1, <2>2, <2>3, <2>4, <2>5, <2>6 DEF ColorControlFrame, ColorStreamFrame
<1>3. CASE CommExpose \/ CommTest \/ CommCfgLed
  BY <1>3 DEF CommExpose, CommTest, CommCfgLed, Ends, WireStep, FlashStep
<1>4. CASE ColorLinkActive \/ ColorLinkTimeout \/ ColorTelemetry
  BY <1>4 DEF ColorLinkActive, ColorLinkTimeout, LosesLink, ColorTelemetry, SendsTelemetry,
              WireStep, FlashStep
<1> QED BY <1>1, <1>2, <1>3, <1>4 DEF ColorComm

LEMMA SharedInit == Init => SharedInv
<1> SUFFICES ASSUME Init PROVE SharedInv
  OBVIOUS
<1>1. session \in DOMAIN Sessions /\ nvs = Sessions[session].nvs /\ wire = WireAtStart
      /\ host = [gone |-> FALSE, boots |-> 0]
  BY DEF Init, This
<1>2. DOMAIN nvs = {"cfg", "cal", "works"} /\ nvs.works \in BOOLEAN /\ This.boots \in Nat
  BY <1>1, SessionsAssumption DEF This
<1> QED BY <1>1, <1>2 DEF SharedInv, LinkOK, FlashKeeps, HostOK, WireAtStart

LEMMA SharedNext == SharedInv /\ [Next]_boardVars => SharedInv'
<1> SUFFICES ASSUME SharedInv, [Next]_boardVars PROVE SharedInv'
  OBVIOUS
<1>0. /\ session \in DOMAIN Sessions /\ LinkOK /\ FlashKeeps /\ HostOK
      /\ This.boots \in Nat
  BY SessionsAssumption DEF SharedInv, This
<1>1. CASE CommStep \/ TaskStep
  <2>1. UNCHANGED <<session, host>>
    BY <1>1 DEF CommStep, TaskStep, HostStays
  <2>2. WireStep /\ FlashStep
    BY <1>1, LineTouches, DistanceTouches, ColorTouches DEF CommStep, TaskStep
  <2>3. HostOK'
    BY <1>0, <2>1 DEF HostOK, This
  <2> QED BY <1>0, <2>1, <2>2, <2>3, LinkKept, FlashKept DEF SharedInv
<1>2. CASE HostIsGone
  BY <1>0, <1>2 DEF HostIsGone, SharedInv, LinkOK, FlashKeeps, HostOK, This
<1>3. CASE Restart
  <2>1. /\ host.boots < This.boots /\ host' = [host EXCEPT !.boots = host.boots + 1]
        /\ wire' = WireAtStart /\ UNCHANGED <<session, nvs>>
    BY <1>3 DEF Restart
  <2>2. HostOK'
    BY <1>0, <2>1 DEF HostOK, This
  <2> QED BY <1>0, <2>1, <2>2 DEF SharedInv, LinkOK, FlashKeeps, WireAtStart
<1>4. CASE UNCHANGED boardVars
  BY <1>0, <1>4 DEF boardVars, SharedInv, LinkOK, FlashKeeps, HostOK, This
<1> QED BY <1>1, <1>2, <1>3, <1>4 DEF Next

\* In every reachable state the invariants of the boards hold.
THEOREM BoardInvHolds == Spec => []BoardInv
BY InitInv, NextInv, PTL DEF Spec

\* Types, the ranges the handlers and the drivers keep to, and the bound on boots.
THEOREM TypesHold == Spec => []TypeOK
<1>1. BoardInv /\ SharedInv => TypeOK
  <2> SUFFICES ASSUME BoardInv, SharedInv PROVE TypeOK
    OBVIOUS
  <2>1. ASSUME On("line") PROVE LineTypeOK
    BY <2>1 DEF BoardInv, LineInv, LineCfgOK, LineTypeOK
  <2>2. ASSUME On("distance") PROVE DistanceTypeOK
    <3>1. DistanceAppOK /\ DistanceDevOK /\ RingOK(task.proc)
      BY <2>2 DEF BoardInv, DistanceInv, DistanceTaskOK
    <3>2. /\ task.proc.at \in DOMAIN task.proc.ring
          /\ task.proc.count \in 0 .. task.proc.window
      BY <3>1 DEF RingOK, RingHolds
    <3> QED BY <3>1, <3>2 DEF DistanceAppOK, DistanceDevOK, DistanceCfgOK, Limits,
                              DistanceTypeOK
  <2>3. ASSUME On("color") PROVE ColorTypeOK
    <3>1. ColorAppOK /\ ColorDevOK
      BY <2>3 DEF BoardInv, ColorTypes
    <3>2. app.cfg = ColorSanitized(app.cfg)
      BY <3>1, ColorCfgStays DEF ColorAppOK
    <3> QED BY <3>1, <3>2 DEF ColorAppOK, ColorDevOK, ColorCalOK, CaptureOK, ColorTypeOK
  <2> QED BY <2>1, <2>2, <2>3 DEF SharedInv, LinkOK, FlashKeeps, HostOK, TypeOK
<1>2. Spec => []SharedInv
  BY SharedInit, SharedNext, PTL DEF Spec
<1> QED BY <1>1, <1>2, BoardInvHolds, PTL

\* A filtered distance is the median of the valid readings since the window was set,
\* of the last window of them, for any readings and any order of the commands.
THEOREM MedianIsOfRecent == Spec => []MedianOfRecent
<1>1. BoardInv => MedianOfRecent
  BY DEF BoardInv, DistanceInv, PublishedOK, MedianOfRecent
<1> QED BY <1>1, BoardInvHolds, PTL

\* Outside a capture every channel of the line sensor's driver has its minimum
\* below its maximum, however the capture ended and whatever the flash held.
THEOREM CalibrationStaysUsable == Spec => []CalibrationUsable
<1>1. BoardInv => CalibrationUsable
  BY DEF BoardInv, LineInv, Usable, CalibrationUsable
<1> QED BY <1>1, BoardInvHolds, PTL

\* Between commands the LED of the colour board is lit exactly while a host is
\* heard and its mode is not OFF.
THEOREM LedIsTheLinks == Spec => []LedFollowsHost
<1>1. BoardInv => LedFollowsHost
  BY DEF BoardInv, ColorInv, LedIsRight, LedFor, LedFollowsHost
<1> QED BY <1>1, BoardInvHolds, PTL
=============================================================================
