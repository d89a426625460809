CONSTANTS
    MaxClients = 3
    AllGuids <- MCTwoGuids
    ProfileFields <- MCNickname
    Values = {username, alice, empty}
    DefaultValue = username
    EmptyValue = empty
    Skins = {s1}
    NoSkin = NoSkin
    Players = {p1, p2}
    p1 = p1
    p2 = p2
    s1 = s1
    NoPlayer = NoPlayer
    NoSlot = NoSlot
    LocalSkin <- MCNobody
    Allowances <- MCRenames

SPECIFICATION Spec

INVARIANTS
    TypeOK
    GuidsInOnePlace
    ConnectedHasGuid
    OwnGuid
    ClaimsAreOwn
    ProfilesAgree
PROPERTY
    UsesAllocator

CHECK_DEADLOCK FALSE
