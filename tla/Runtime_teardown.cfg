SPECIFICATION FairSpec
CONSTANTS
    CoCreateInstance = CoCreateInstance
    XAudio2Create = XAudio2Create
    Activate = Activate
    Registrar = CoCreateInstance
    Targets = {CoCreateInstance, XAudio2Create, Activate}
    Exports = {XAudio2Create}
    Above = {}
    Polled <- MCPolled
    Installs <- MCInstalls
    Reach <- MCReach
    Blocks = {CoCreateInstance, XAudio2Create, Activate}
    Slots = {1}
    Threads = {g1, g2}
    Shielded = {}
    MayFail = {"threads"}
    MaxPolls = 1
    Requesters = {r1}
INVARIANTS HookedCallsSafe LossesWereInside RegistrationOwned FlagsTruthful
PROPERTY RequestServed
CHECK_DEADLOCK FALSE
