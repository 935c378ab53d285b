CONSTANT Configs <- MCConfigs
SPECIFICATION LauncherSpec
INVARIANT StartsInOrder
INVARIANT EndsAsConfigured
PROPERTY DroppedEndsLauncher
CHECK_DEADLOCK FALSE
