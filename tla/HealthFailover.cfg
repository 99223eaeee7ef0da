CONSTANTS
    Loop = loop
    Reconnect = reconnect
    Healer = healer
    FailureThreshold = 1
    SelfHealingThreshold = 1
    MaxChanges = 2
    MaxFaults = 2
    Ops = {"disable", "enable", "move", "restart"}
    Faults = {"probe", "canary"}
    Running = {loop}
    Sessions = {s1, s2}
    FailoverFaults = {"read", "migrate"}
    Elsewhere = {"failing", "listing", "moving", "rechecking"}
SPECIFICATION FairFailoverSpec
INVARIANTS
    StrandedIsOwed
PROPERTIES
    DebtPaid
