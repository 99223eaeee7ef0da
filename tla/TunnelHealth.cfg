CONSTANTS
    Loop = loop
    Reconnect = reconnect
    Healer = healer
    FailureThreshold = 2
    SelfHealingThreshold = 2
    MaxChanges = 1
    MaxFaults = 3
    Ops = {"check", "disable", "enable", "move", "refresh", "restart"}
    Faults = {"probe", "slow", "canary", "attach", "register", "write", "persist"}
    Elsewhere = {}
SPECIFICATION FairHealthSpec
INVARIANTS
    RecoverableWhenDisabled
    DisabledIsDetached
PROPERTIES
    GracePeriod
    FlapDamping
    HealthySettles
CHECK_DEADLOCK FALSE
