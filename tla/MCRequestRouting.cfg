\* Navigation through every layer.
SPECIFICATION Spec
CONSTANTS
    Pages <- MCPages
    Home = ""
    Aliases <- MCAliases
    OtherNames = {"main.css", "css", "files"}
    AssetPaths <- MCAssetPaths
    DirectoryPaths <- MCDirectoryPaths
    ArchivePaths <- MCArchivePaths
    Links <- MCLinks
    Names = {"crackstation.net", "other.org", "localhost", "user"}
    NoName = "-"
    Master = "crackstation.net"
    Ports = {"3000"}
    NoPort = "-"
    DevHosts <- MCDevHosts
    HostHeaders <- MCHostHeaders
    Sites = {"crackstation.net", "other.org", "localhost"}
    Absent = "absent"
    MaxHops = 5
INVARIANTS
    TypeOK
    RedirectsSettle
    DispatcherAssertionsHold
    PagesOnlyOnSite
    RedirectsKeepWhatWasAsked
    CountedOnlyIfServed
    AllowTellsTheTruth
    PagesAreHardened
