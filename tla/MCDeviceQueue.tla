---------------------------- MODULE MCDeviceQueue ----------------------------
(* The device with the programs of the native API: Submissions is          *)
(* FittingCalls, or MetricsCalls for an operation that is known to race.    *)
EXTENDS DeviceQueue, NativePrograms
=============================================================================
