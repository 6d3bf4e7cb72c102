CONSTANT SensorFails = FALSE
SPECIFICATION FairSpec
PROPERTY HotRaisesAlarm
CHECK_DEADLOCK FALSE
