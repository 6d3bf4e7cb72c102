CONSTANT SensorFails = TRUE
SPECIFICATION FairSpec
INVARIANTS ArmedTogether AlarmInv
PROPERTIES PanelSafety PanelLiveness RequestHonoured ArmedAlarmBlinks
CHECK_DEADLOCK FALSE
