SPECIFICATION FairSpec
CONSTANTS
    Addrs = {a}
    Creds = {c}
    Spellings = {x, y}
    Workers = {v}
    Absent = Absent
    MaxVersion = 1
    MaxLive = 1
PROPERTIES
    RequestServed
    Recovers
