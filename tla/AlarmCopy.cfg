CONSTANT SensorFails = TRUE
SPECIFICATION FairSpec
INVARIANTS CopyInv
PROPERTIES PanelSafety PanelLiveness RequestBlinks HotRaisesAlarm
CHECK_DEADLOCK FALSE
