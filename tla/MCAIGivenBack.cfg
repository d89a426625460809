CONSTANTS
    p1 = p1
    p2 = p2
    Players = {p1, p2, p3}
    ring = ring
    chest = chest
    lever = lever
    wall = wall
    button = button
    plate = plate
    lock = lock
    crate = crate
    barrel = barrel
    block = block
    wheel = wheel
    opening = opening
    finale = finale
    prop = prop
    blast = blast
    stone = stone
    warg = warg
    troll = troll
    bard = bard
    Levels <- WargLate
    Pickups = {ring}
    Chests = {chest}
    Switches = {lever}
    Walls = {wall}
    NoWall = NoWall
    Triggers = {plate, button}
    Rearming = {button}
    Lock = lock
    Required = {a, b, c}
    MaxItems = 4
    Placers = {p1}
    MaxChanges = 1
    Pressers = {p1, p2}
    MaxPresses = 2
    Hoistables = {crate, barrel}
    Nothing = Nothing
    MaxHoists = 2
    Blocks = {block}
    NoBlock = NoBlock
    AtStart = AtStart
    Pushers = {p1}
    MaxPushes = 0
    Loops = {wheel}
    Hosts = {p1}
    Callers = {p1}
    NoFrames = NoFrames
    Period = 1
    MaxLoads = 3
    Cinemas = {opening, finale}
    Repeatable = {finale}
    Props = {prop}
    Effects = {blast}
    Stones = {stone}
    MaxShows = 1
    Npcs = {warg, troll, bard}
    Fighters = {warg, bard}
    Forced = {troll}
    LocalAI = {bard}
    KeepsAI = {}
    KeepsGoals = {}
    Commanders = {}
    NoUpdate = NoUpdate
    MaxMoves = 0
    MaxScripts = 1
    MaxSnapshots = 1

SPECIFICATION FairSpec

PROPERTY
    AIGivenBack

CHECK_DEADLOCK FALSE
