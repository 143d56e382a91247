SPECIFICATION FairOutbox
CONSTANTS
    s1 = s1
    Local = {l1}
    Webhooks = {m1}
    Subs = {s1}
    Sub <- MCSub
    Workers = {w1, w2}
    None = None
    MaxRevision = 2
    Operations = {o1}
INVARIANTS RecordedWithMutation NotifiedRecorded DenialsSurvive SubscriptionGoverns DeliveredReceived
PROPERTIES SettledStays DeliverySettles
CHECK_DEADLOCK FALSE
