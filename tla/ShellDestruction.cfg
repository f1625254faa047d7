\* One shell, and one message whose handler waits for the platform thread.
CONSTANTS
    ShellIds = {s1}
    Methods = {"kRunInView"}
    MaxEvents = 1
SPECIFICATION ShellFairSpec
CHECK_DEADLOCK FALSE
PROPERTIES
    DestructionIsSynchronous
