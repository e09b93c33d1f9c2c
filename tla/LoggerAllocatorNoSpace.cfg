SPECIFICATION Spec
CONSTANT MAX_LOG_ENTRY = 3
PROPERTY NoSpaceMeansBusy
CHECK_DEADLOCK FALSE
