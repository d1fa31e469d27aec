\* One recording after its users have gone: the finalizer settles it.
CONSTANTS
    r1 = r1
    r2 = r2
    h1 = h1
    h2 = h2
    mic = mic
    call = call
    doc = doc
    user = user
    NoRec = NoRec
    NoChannel = NoChannel
    Recs = {r1}
    DocOf <- MCDocOf
    OwnerOf <- MCOwnerOf
    Channels = {mic}
    Handlers = {h1, h2}
    MaxActive = 1
    MaxRequests = 3
    MaxThrows = 1
SPECIFICATION FairSpec
PROPERTIES Settles
CHECK_DEADLOCK FALSE
