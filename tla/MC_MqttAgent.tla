---------------------------- MODULE MC_MqttAgent ----------------------------
(* MqttAgent with two client tasks.                                        *)
EXTENDS MqttAgent

CONSTANTS t1, t2

TwoTasks == {t1, t2}
=============================================================================
