SPECIFICATION FairSpec
CONSTANTS
    u1 = u1
    u2 = u2
    u3 = u3
    a = a
    meta = meta
    alice = alice
    bob = bob
    r1 = r1
    r2 = r2
    MetaName = meta
    Anonymous = Anonymous
    Inline = Inline
    MetaBytes = MetaBytes
    NoBytes = NoBytes
    Users = {alice, bob}
    OwnerOf <- Owner
    CallerOf <- Caller
    Filenames = {a, meta}
    NumSlots = 2
    Ids = {u1, u2, u3}
    NameOf <- OwnNames
    Requests = {r1, r2}
    MaxFaults = 1
INVARIANTS
    InputsAsUploaded
PROPERTIES
    UploadsAreKept
    ExpiredUploadsGo
