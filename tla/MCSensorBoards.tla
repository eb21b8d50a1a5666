--------------------------- MODULE MCSensorBoards ---------------------------
(* Instances of SensorBoards: what each of a few host programs sends, on   *)
(* which board, with what in its flash.                                    *)
EXTENDS SensorBoards

Cmd(S) == {[type |-> "CMD", c |-> x] : x \in S}
Line(S) == {[type |-> "LINE", c |-> x] : x \in S}
Frame(type, text) == [type |-> type, c |-> <<text, 0>>]

LinkFrames == {Frame("HOST", "HELLO"), Frame("HOST", "MODULE QUERY"), Frame("TEST", "x"),
               Frame("CONTROL", "CLR OUT"), Frame("CONTROL", "x"), Frame("OTHER", "x"),
               Frame("TELEMETRY", "TELEMETRY_START"), Frame("TELEMETRY", "TELEMETRY_STOP"),
               Frame("TELEMETRY", "TELEMETRY_SYNC"), Frame("CMD", "UNKNOWN")}

Flash(cfg, cal, works) == [cfg |-> cfg, cal |-> cal, works |-> works]
Blank == Flash(NoBlob, NoBlob, TRUE)
Failing == Flash(NoBlob, NoBlob, FALSE)
Session(board, frames, scene, boots, flash) ==
    [board |-> board, frames |-> frames, scene |-> scene, boots |-> boots, nvs |-> flash]

LineSession(frames, boots, flash) == Session("line", frames, {300}, boots, flash)
LineHosts ==
    <<Session("line", Cmd({<<"START CAL", 0>>, <<"STOP CAL", 0>>}), {100, 300}, 0, Blank),
      LineSession(Cmd({<<"START CAL", 0>>, <<"STOP CAL", 0>>}), 1, Failing),
      LineSession(Cmd({<<"START CAL", 0>>, <<"SET CAL", <<"ch0", 100, 900>>>>,
                      <<"SET CAL", <<"ch0", 900, 900>>>>}), 0, Blank),
     LineSession(Cmd({<<"START CAL", 0>>, <<"SAVE CAL", 0>>}), 0, Failing),
     LineSession(Cmd({<<"SET CFG", <<"LEVEL", 99>>>>, <<"SET CFG", <<"TRACK", 2>>>>,
                      <<"SET CFG", <<"CAL_TIME_MS", 500>>>>, <<"SET CFG", <<"NAME", "">>>>,
                      <<"SAVE CFG", 0>>}), 1,
                 Flash(<<[ver |-> 1, track |-> 1, level |-> 50, time |-> 200]>>, NoBlob, FALSE)),
     LineSession(Line({<<"GET CAL", 0>>, <<"UNKNOWN", 0>>}) \cup LinkFrames, 0, Blank)>>

NoFilter == <<[DistanceDefaults EXCEPT !.window = 1]>>
DistanceHosts ==
    <<Session("distance", Cmd({<<"SET CFG", <<"MAX_MM", 500>>>>, <<"SET CFG", <<"MAX_MM", 4000>>>>,
                              <<"SET CFG", <<"MAX_MM", 4001>>>>, <<"RUN SELFTEST", 0>>}),
             {900}, 0, Flash(NoFilter, NoBlob, TRUE)),
     Session("distance", Cmd({<<"SET CFG", <<"FILTER", 1>>>>, <<"SET CFG", <<"FILTER", 3>>>>}),
             {300, 900}, 0, Blank),
     Session("distance", Cmd({<<"SET CFG", <<"MAX_MM", 500>>>>, <<"RESET CFG", 0>>, <<"SAVE CFG", 0>>}),
             {}, 1, Failing),
     Session("distance", Cmd({<<"GET DATA", 0>>, <<"SET CFG", <<"NAME", "">>>>,
                              <<"SET CFG", <<"FILTER", 2>>>>, <<"SET CFG", <<"SAMPLE_MS", 59>>>>}) \cup LinkFrames,
             {10}, 0, Blank)>>

Clear == {TargetClear}
ColorHosts ==
    <<Session("color", Cmd({<<"LED", OFF>>, <<"RESET CFG", 0>>, <<"SAVE CFG", 0>>}), Clear, 1, Failing),
     Session("color", Cmd({<<"SET CFG", <<"GAIN_MODE", "MANUAL">>>>, <<"SET CFG", <<"GAIN", 65552>>>>}),
             Clear, 0, Blank),
     Session("color", {}, {4000, 18000, 40000}, 0, Blank),
     Session("color", Cmd({<<"SET CFG", <<"LED", 3>>>>, <<"SET CFG", <<"PALETTE_MODE", 5>>>>,
                           <<"SET CFG", <<"GAIN_MODE", "BEST">>>>,
                           <<"RUN SELFTEST", 0>>, <<"GET INFO", 0>>}), Clear, 0, Blank),
     Session("color", Cmd({<<"START CAL", 0>>, <<"STOP CAL", 0>>, <<"SET CAL PATCH", DARK>>,
                           <<"SET CAL PATCH", 8>>, <<"COMMIT CAL PATCH", DARK>>}), Clear, 0, Blank),
     Session("color", Cmd({<<"SET CAL", <<8, DARK>>>>, <<"SET CAL", <<8, WHITE>>>>,
                           <<"SET CAL PATCH", 1>>, <<"COMMIT CAL PATCH", 1>>}), Clear, 0, Blank),
     Session("color", Cmd({<<"SET CAL", <<16, WHITE>>>>, <<"SET CAL", <<7, DARK>>>>,
                           <<"RESET CAL", 0>>, <<"RESET CAL", 7>>, <<"SAVE CAL", 0>>}), Clear, 1, Failing),
     Session("color", LinkFrames, Clear, 0, Blank)>>

MCSessions == LineHosts \o DistanceHosts \o ColorHosts
MCChannels == {"ch0"}
=============================================================================
