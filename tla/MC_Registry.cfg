CONSTANTS
    BuiltInName <- MC_BuiltInName
    BuiltInDefault <- MC_BuiltInDefault
    EnumKeyToValue <- MC_KeysRegistry
    RegNames <- MC_RegNamesRegistry
    EmptyName = ""
    Values <- MC_Values
    Null = Null
    Absent = Absent
    Urls <- MC_UrlsRegistry
    EmptyUrl = EmptyUrl
    Star = "*"
    LocalHost = "localhost"
SPECIFICATION Spec
INVARIANTS RegistryConsistent ReportDescribesOptions
