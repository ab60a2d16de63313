\* Stores whose suffixes spell reserved words or differ in case, three files.
CONSTANTS
    Suffixes <- MCSuffixes
    Tags = {7, 8}
    Versions = {0, 1, 2}
    Hashes <- MCHashes
    Ids <- MCHashes
    HexLen = 2
    MaxSuffixLen = 4
    MaxFiles = 3
SPECIFICATION Spec
PROPERTIES
    StoresKeepApart
