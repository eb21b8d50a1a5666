----------------------------- MODULE MCTraction -----------------------------
(* Instances of TractionModule: what each of a few host programs sends.    *)
EXTENDS TractionModule

Cmd(S) == {[type |-> "CMD", c |-> x] : x \in S}
Frame(type, text) == [type |-> type, c |-> <<text, 0>>]

\* Drives the motor by speed, by forced output, by position
SpeedSession == Cmd({<<"SET PID RPM SP", 60>>, <<"SET PID RPM SP", 0>>, <<"SAVE PID RPM", 0>>})
OutSession == Cmd({<<"SET OUT", -300>>, <<"SET OUT RAW", 1200>>, <<"CLR OUT", 0>>,
                   <<"SET PID RPM SP", -200>>})
PosSession == Cmd({<<"SET PID POS ANGLE", 90>>, <<"START PID POS", 0>>, <<"STOP PID POS", 0>>,
                   <<"START PID POS SINE", 0>>, <<"STOP PID POS SINE", 0>>,
                   <<"SET PID RPM SP", 0>>})
\* Tunes and saves
RpmTuneSession == Cmd({<<"GET TELEM", 0>>, <<"SET PID RPM KP", "high">>, <<"SAVE PID RPM", 0>>})
PosTuneSession == Cmd({<<"SET PID POS KP", "high">>, <<"SET PID POS IWIN", -1>>, <<"SAVE PID POS", 0>>})
SineTuneSession == Cmd({<<"GET PID POS", 0>>, <<"SET PID POS SINE OFFSET", 400>>})
\* Configures inversion, bridge, curve and the rest
InvertSession == Cmd({<<"SET MOTOR INV", 1>>, <<"SAVE CFG", 0>>})
FreqSession == Cmd({<<"SET CFG PWM_FREQ", -1>>, <<"SET CFG MOTOR_INV", 1>>, <<"SAVE CFG", 0>>})
EncoderSession == Cmd({<<"SET ENCODER INV", 1>>, <<"SET CFG ENCODER_INV", 0>>, <<"START PID POS", 0>>})
BridgeSession == Cmd({<<"GET INVERT", 0>>, <<"SET BRIDGE", 1>>, <<"SET BRIDGE", 2>>,
                      <<"SET CFG BRIDGE", 256>>, <<"SET CFG BRIDGE", 7>>,
                      <<"SET CFG PWM_FREQ", 10>>})
CurveSession == Cmd({<<"SET CFG RPM_MAX", 120>>, <<"SAVE CFG", 0>>})
RestSession == Cmd({<<"GET CURVE", 0>>, <<"SET CURVE", <<100, 150>>>>, <<"SET CURVE", <<45, 52>>>>,
                    <<"SAVE CURVE", 0>>, <<"GET CFG", 0>>, <<"SET CFG REST", "other">>,
                    <<"SET CFG REST", "invalid">>})
\* Identifies the module, streams telemetry, changes the rate
LinkSession == Cmd({<<"GET BAUD", 0>>, <<"SET BAUD", 1000>>, <<"SET BAUD", 115200>>, <<"UNKNOWN", 0>>})
               \cup {Frame("HOST", "HELLO"), Frame("HOST", "MODULE QUERY"), Frame("TEST", "x"),
                     Frame("CONTROL", "CLR OUT"), Frame("CONTROL", "x"), Frame("OTHER", "x"),
                     Frame("TELEMETRY", "TELEMETRY_START"), Frame("TELEMETRY", "TELEMETRY_STOP"),
                     Frame("TELEMETRY", "x")}

\* The same commands as lines, in the build that reads them
LineInvertSession == Cmd({<<"GET TELEM", 0>>, <<"GET INVERT", 0>>, <<"SET MOTOR INV", 2>>})
LineBridgeSession == Cmd({<<"SET BRIDGE", 1>>, <<"SET BRIDGE", 2>>, <<"SET PID RPM KP", "high">>, <<"SET BAUD", 1000>>})
LineCurveSession == Cmd({<<"SET CURVE", <<40, 52>>>>, <<"SAVE CURVE", 0>>, <<"CLR OUT", 0>>})
LineCfgSession == Cmd({<<"SET CFG REST", "other">>, <<"SAVE CFG", 0>>})
LineSaveSession == Cmd({<<"SAVE PID RPM", 0>>, <<"SAVE PID POS", 0>>})
LineEncoderSession == Cmd({<<"SET ENCODER INV", 2>>})

MCSessions ==
    [commands : {SpeedSession, OutSession, PosSession, RpmTuneSession, PosTuneSession,
                 SineTuneSession, InvertSession, FreqSession, EncoderSession, BridgeSession,
                 CurveSession, RestSession, LinkSession},
     lines : {FALSE}]
    \cup [commands : {LineInvertSession, LineBridgeSession, LineCurveSession, LineCfgSession,
                       LineSaveSession, LineEncoderSession}, lines : {TRUE}]
MCOldBlobs == {[ver |-> 0, gains |-> "old", tgt |-> 1, iwin |-> 0]}
MCOutputs == {0, 400}
MCAngles == {0, 90}
=============================================================================
