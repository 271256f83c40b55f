CONSTANTS
    Sinks = {k1, k2}
    Policies = {"Highest", "Adaptive"}
    Bandwidths = {0, 1}
    Published = {"Low", "High"}
    Cost <- MCCost
    Publisher = pub
    Control = ctl
SPECIFICATION FairSpec
CHECK_DEADLOCK FALSE
INVARIANTS
    SubscriptionsDecide
PROPERTIES
    DemandFollowed
    
