SPECIFICATION Spec
CONSTANTS
    w1 = w1
    w2 = w2
    Writers = {w1}
    Sizes = {1, 2, 3}
    Timeouts = {"timed", "forever"}
    Cap = 4
    MaxBytes <- MCMaxBytesOne
INVARIANT FileInOrder
