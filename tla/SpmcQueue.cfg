SPECIFICATION Spec
CONSTANTS
    Consumers = {c1, c2}
    Cap = 4
    MaxPushes = 4
INVARIANT NoFunnyBusiness
