---------------------------- MODULE MCRoverQueue ----------------------------
(* Instances of RoverQueue for TLC. *)
EXTENDS RoverQueue

CoreBatches == {<<"motion">>, <<"wait">>, <<"run_python">>, <<"unknown">>, <<"malformed">>,
                <<"motion", "stop">>, <<"motion", "rejected">>}
ProgramBatches == {<<"run_python">>}
MotionBatches == {<<"motion">>}
FaultBatches == {<<"motion">>, <<"run_python">>, <<"stop">>, <<"malformed">>}
=============================================================================
