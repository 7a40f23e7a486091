SPECIFICATION Spec
CONSTANTS
    Messages = {m1}
    Unparseable = {}
    Kinds <- OnlyGcs
    MaxReceives = 1
    MaxFaults = 0
    NoDelivery = NoDelivery
PROPERTY NackedMessageReturns
