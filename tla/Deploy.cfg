SPECIFICATION DeploySpec
CHECK_DEADLOCK FALSE
CONSTANTS
    Identifiers <- MCIdentifiers
    ReservedNames <- MCReserved
    MaxDefinitions = 4
    MaxAliases = 2
    LowerCase <- MCLower
    Normalized <- MCSame
    MaxFiles = 4
    Suffixed <- MCSuffixed
    Mangled <- MCMangled
    Dotted <- MCDotted
    Words <- MCWords
    TermKey <- MCSame
    Addressable <- MCAddressable
    Mountable <- MCMountable
    Projects <- MCProjects
    Files <- DFiles
    FileOf <- DFileOf
    FirstFiles <- DFirst
    Edits <- DEdits
    Profiles <- DProfiles
    Worlds <- DWorlds
    WorldOf <- DWorldOf
    Moves <- DMoves
    MaxMoves = 2
    MapKey <- DMapKey
    OwnImage = "v1"
    Digest <- DDigest
    Overlays <- DOverlays
    OverlayOf <- DOverlayOf
    FirstDeploys <- DFirstDeploys
    Secrets <- DSecrets
    SecretsOf <- DSecretsOf
    Deployed1 = "prod"
    MaxDeploys = 2
    MaxTicks = 1
INVARIANT ServerHasBeenBuilt
INVARIANT DoneMeansApplied
INVARIANT DeployedShowsWhatTheDirectoryShows
