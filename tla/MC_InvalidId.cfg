CONSTANTS
    BuiltInName <- MC_BuiltInName
    BuiltInDefault <- MC_BuiltInDefault
    EnumKeyToValue <- MC_KeysResolve
    RegNames <- MC_RegNamesResolve
    EmptyName = ""
    Values <- MC_Values
    Null = Null
    Absent = Absent
    Urls <- MC_UrlsResolve
    EmptyUrl = EmptyUrl
    Star = "*"
    LocalHost = "localhost"
SPECIFICATION SpecWithInvalidId
PROPERTIES InvalidIdIsNoOp
