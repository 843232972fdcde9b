------------------------- MODULE MCCameraParameters -------------------------
EXTENDS CameraParameters

List(ae, mode, time) ==
  [AeEnable |-> ae, ExposureTimeMode |-> mode, ExposureTime |-> time]

(* Cameras that report no mode, and a default exposure time or none. *)
MCDefaults == {List("on", "auto", "t0"), List(NotSet, NotSet, "t0"), List("on", "auto", NotSet)}

MCOverrides == {List(None, None, None), List(None, None, "t1"), List(None, "manual", None)}

Setting ==
  {List(None, "auto", None), List(None, "manual", None),
   List(None, None, "t1"), List(None, "manual", "t1"), List(None, "auto", "t1"),
   List("on", None, None), List("off", None, None), List("on", None, "t1")}

Unsetting == {List(NotSet, None, None), List(None, None, NotSet)}

Both == Setting \cup Unsetting
=============================================================================
