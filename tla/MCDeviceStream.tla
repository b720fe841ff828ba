---------------------------- MODULE MCDeviceStream ----------------------------
(* A TLC instance of DeviceStream with five byte values: 0, the version 1,   *)
(* '\n' = 2, '\r' = 3 and '{' = 4.  Payloads hold the bytes that mean        *)
(* something elsewhere: the version, the line end, the brace.                *)
EXTENDS DeviceStream

MCLines == {<<>>, <<4>>, <<4, 1, 0>>}

MCFrames ==
  {makeFrame(HEARTBEAT, 0, <<>>), makeFrame(3, 1, <<1>>),
   makeFrame(AUTH_REQ, 1, buildAuthPayloadLV(<<1>>, <<>>, <<4, 2>>)),
   makeFrame(AUTH_REQ, 1, buildAuthPayloadLV(<<>>, <<>>, <<>>) \o <<2>>),
   [makeFrame(HEARTBEAT, 0, <<>>) EXCEPT !.version = 0]}
==============================================================================
