SPECIFICATION Spec
CHECK_DEADLOCK FALSE
CONSTANTS
    Identifiers <- MCIdentifiers
    ReservedNames <- MCReserved
    MaxDefinitions = 4
    MaxAliases = 2
    LowerCase <- MCLower
    Normalized <- MCSame
    MaxFiles = 4
    Suffixed <- MCSuffixed
    Mangled <- MCMangled
    Dotted <- MCDotted
    Words <- MCWords
    TermKey <- MCSame
    Addressable <- MCAddressable
    Mountable <- MCMountable
    Projects <- MCProjects
    Files <- MCFiles
    FileOf <- MCFileOf
    FirstFiles <- MCFirst
    Edits <- MCEdits
    Profiles <- MCProfiles
    Worlds <- MCWorlds
    WorldOf <- MCWorldOf
    Moves <- MCMoves
    MaxMoves = 4
INVARIANT TypeOK
INVARIANT CheckFitsTheInterface
INVARIANT PrivateStaysPrivate
INVARIANT SurfacesAgree
INVARIANT WhatIsListedIsAnswered
INVARIANT ETagTellsTheContent
INVARIANT KeyedGrainNeverFails
INVARIANT ImportedTypesHold
INVARIANT DiscoveredViewsExist
INVARIANT ReleaseIsReproducible
INVARIANT SnapshotIsOfItsSource
INVARIANT StatusPointsTheWay
INVARIANT NoDataShowsNoValues
PROPERTY RatchetHolds
