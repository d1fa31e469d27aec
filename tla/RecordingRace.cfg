\* Two recordings of one note, two handlers at once, an error between two calls.
CONSTANTS
    r1 = r1
    r2 = r2
    h1 = h1
    h2 = h2
    mic = mic
    call = call
    doc = doc
    user = user
    NoRec = NoRec
    NoChannel = NoChannel
    Recs = {r1, r2}
    DocOf <- MCDocOf
    OwnerOf <- MCOwnerOf
    Channels = {mic, call}
    Handlers = {h1, h2}
    MaxActive = 1
    MaxRequests = 3
    MaxThrows = 1
SPECIFICATION Spec
INVARIANTS TypeOK NoChannelLost AudioKept JobComplete
SYMMETRY MCSymmetry
CHECK_DEADLOCK FALSE
