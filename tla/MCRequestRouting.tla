--------------------------- MODULE MCRequestRouting ---------------------------
(* An instance of RequestRouting for TLC: three pages and an alias of each     *)
(* kind, every spelling of a path, and hosts that look like the master host.   *)
EXTENDS RequestRouting

MCPages   == {"", "about-us", "404"}
MCAliases == [slug \in {"index", "buy"} |-> IF slug = "index" THEN "" ELSE "about-us"]

PathTo(name, ext) == [name |-> name, ext |-> ext, exact |-> TRUE, slash |-> FALSE]

MCAssetPaths     == {PathTo("main.css", "none")}
MCDirectoryPaths == {PathTo("css", "none")}
MCArchivePaths   == {PathTo("files", "none")}

MCLinks ==
    MCAssetPaths \cup MCDirectoryPaths \cup MCArchivePaths \cup
    {PathTo("", "none"), PathTo("", ".htm"), PathTo("index", ".php"),
     PathTo("about-us", ".htm"), PathTo("buy", ".htm"), PathTo("404", ".htm"),
     [name |-> "about-us", ext |-> ".html", exact |-> FALSE, slash |-> FALSE],
     [name |-> "about-us", ext |-> "none", exact |-> TRUE, slash |-> TRUE]}

Host(user, name, port) == [user |-> user, name |-> name, port |-> port]

MCDevHosts == {Host("-", "localhost", "3000")}

MCHostHeaders ==
    {Host("-", "-", "-"),
     Host("-", "crackstation.net", "-"),
     Host("crackstation.net", "other.org", "-"),
     Host("user", "crackstation.net", "3000"),
     Host("-", "localhost", "3000"),
     Host("-", "localhost", "-")}
===============================================================================
