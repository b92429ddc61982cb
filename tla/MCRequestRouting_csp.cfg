\* An answer without Content-Security-Policy.
SPECIFICATION Spec
CONSTANTS
    Pages <- MCPages
    Home = ""
    Aliases <- MCAliases
    OtherNames = {"main.css", "css", "files"}
    AssetPaths <- MCAssetPaths
    DirectoryPaths <- MCDirectoryPaths
    ArchivePaths <- MCArchivePaths
    Links <- MCLinks
    Names = {"crackstation.net", "other.org", "localhost", "user"}
    NoName = "-"
    Master = "crackstation.net"
    Ports = {"3000"}
    NoPort = "-"
    DevHosts <- MCDevHosts
    HostHeaders <- MCHostHeaders
    Sites = {"crackstation.net", "other.org", "localhost"}
    Absent = "absent"
    MaxHops = 5
INVARIANT
    EveryResponseHasCSP
