CONSTANTS
    Languages <- MC_Languages
    AddonOrder <- MC_AddonOrder
    UserScriptsPage = UserScriptsPage
    NoPage = NoPage
    MaxTimerId = 2
SPECIFICATION Spec
INVARIANTS
    TypeOK
    TabsTranslated
    ListFilledOnce
    SaveReflectsEdits
PROPERTIES
    LoadingFinishes
    LoadingRefined
