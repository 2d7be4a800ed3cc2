SPECIFICATION RegistrySpec
CONSTANTS
    Digits <- MCDigits
    IdLen = 4
    MinLen = 2
    Targets <- MCTargets
INVARIANTS
    RegistryTypeOK
    MapsInverse
    SelectedRegistered
PROPERTIES
    ShortIdStable
