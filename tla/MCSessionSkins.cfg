CONSTANTS
    MaxClients = 3
    AllGuids <- MCThreeGuids
    ProfileFields <- MCNoProfile
    Values = {username, alice}
    DefaultValue = username
    EmptyValue = empty
    Skins = {s1}
    NoSkin = NoSkin
    Players = {p1, p2}
    p1 = p1
    p2 = p2
    s1 = s1
    NoPlayer = NoPlayer
    NoSlot = NoSlot
    LocalSkin <- MCEverybody
    Allowances <- MCConnects

SPECIFICATION Spec

INVARIANTS
    CachedSkinsOwned
    SkinsAgree

CHECK_DEADLOCK FALSE
