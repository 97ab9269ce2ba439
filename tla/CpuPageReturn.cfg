CONSTANTS
    Keys = {k1}
    NoKey = NoKey
    MaxEvents = 3
    MaxFaults = 0
SPECIFICATION FairSpec
PROPERTY DetailsComeBack
