SPECIFICATION FairSpec
CONSTANTS
    w1 = w1
    w2 = w2
    Writers = {w1, w2}
    Sizes = {1, 3}
    Timeouts = {"timed"}
    Cap = 4
    MaxBytes <- MCMaxBytes
INVARIANTS SpaceAccounted QuitDrains InOrderUnlessTorn
PROPERTY CallsReturn
