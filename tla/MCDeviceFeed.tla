---------------------------- MODULE MCDeviceFeed ----------------------------
(* Small instances of DeviceFeed. *)
EXTENDS DeviceFeed

CONSTANTS a, b, c

MCDevices == {a, b, c}
\* one device, and three that are more than the table holds
MCWindows == {<<a>>, <<b, c, a>>}
=============================================================================
