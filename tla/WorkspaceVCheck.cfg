SPECIFICATION Spec
CHECK_DEADLOCK FALSE
CONSTANTS
    Identifiers <- MCIdentifiers
    ReservedNames <- MCReserved
    MaxDefinitions = 4
    MaxAliases = 2
    LowerCase <- MCLower
    Normalized <- MCSame
    MaxFiles = 4
    Suffixed <- MCSuffixed
    Mangled <- MCMangled
    Dotted <- MCDotted
    Words <- MCWords
    TermKey <- MCSame
    Addressable <- MCAddressable
    Mountable <- MCMountable
    Projects <- MCProjects
    Files <- MCFiles
    FileOf <- MCFileOf
    FirstFiles <- MCFirst
    Edits <- MCEdits
    Profiles <- MCProfiles
    Worlds <- MCWorlds
    WorldOf <- MCWorldOf
    Moves <- MCMoves
    MaxMoves = 4
INVARIANT NoOldCheckRidesAlong
