CONSTANTS
    MaxClients = 2
    AllGuids <- MCTwoGuids
    ProfileFields <- MCNoProfile
    Values = {username, alice}
    DefaultValue = username
    EmptyValue = empty
    Skins = {s1}
    NoSkin = NoSkin
    Players = {p1, p2}
    p1 = p1
    p2 = p2
    s1 = s1
    NoPlayer = NoPlayer
    NoSlot = NoSlot
    LocalSkin <- MCNobody
    Allowances <- MCOneRing

SPECIFICATION Spec

INVARIANT
    RingsAgree

CHECK_DEADLOCK FALSE
