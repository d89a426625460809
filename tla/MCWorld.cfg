CONSTANTS
    p1 = p1
    p2 = p2
    Players = {p1, p2}
    ring = ring
    chest = chest
    lever = lever
    wall = wall
    button = button
    plate = plate
    lock = lock
    crate = crate
    barrel = barrel
    block = block
    wheel = wheel
    opening = opening
    finale = finale
    prop = prop
    blast = blast
    stone = stone
    warg = warg
    troll = troll
    bard = bard
    Levels <- OneOfEach
    Pickups = {ring}
    Chests = {chest}
    Switches = {lever}
    Walls = {wall}
    NoWall = NoWall
    Triggers = {button}
    Rearming = {button}
    Lock = lock
    Required = {a, b}
    MaxItems = 1
    Placers = {p1, p2}
    MaxChanges = 1
    Pressers = {p1, p2}
    MaxPresses = 2
    Hoistables = {crate, barrel}
    Nothing = Nothing
    MaxHoists = 1
    Blocks = {block}
    NoBlock = NoBlock
    AtStart = AtStart
    Pushers = {p1, p2}
    MaxPushes = 1
    Loops = {wheel}
    Hosts = {p1, p2}
    Callers = {p1, p2}
    NoFrames = NoFrames
    Period = 2
    MaxLoads = 1
    Cinemas = {opening, finale}
    Repeatable = {finale}
    Props = {prop}
    Effects = {blast}
    Stones = {stone}
    MaxShows = 1
    Npcs = {warg, troll, bard}
    Fighters = {warg, bard}
    Forced = {troll}
    LocalAI = {bard}
    KeepsAI = {}
    KeepsGoals = {}
    Commanders = {p1, p2}
    NoUpdate = NoUpdate
    MaxMoves = 1
    MaxScripts = 0
    MaxSnapshots = 1

SPECIFICATION Spec

SYMMETRY Symmetry

INVARIANTS
    TypeOK
    NothingLeftOver
    GrantedOnce
    AnnouncedOnce
    OpenedOnce
    OnlyOwnOpens
    OnlyChangesTold
    
    MarksOfThisVisit
    CacheNotAhead
PROPERTY
    NoEchoAfterSnapshot

CHECK_DEADLOCK FALSE
