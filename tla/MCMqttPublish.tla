---------------------------- MODULE MCMqttPublish ----------------------------
(* MqttPublish, with the values of the constants in the .cfg file.           *)
EXTENDS MqttPublish
=============================================================================
