SPECIFICATION Spec
CONSTANTS
    Contents <- Files
    Debounce = 1
    MaxEvents = 2
    Styles = {"once", "truncate", "move", "replace"}
    StartFiles = {"broken"}
    Half = 16
    Skew = 2
    Tier <- Tiers
    Jitter <- Jitters
    Target <- Targets
    DefaultReplay = 2
    StartNow = 6
    MaxNow = 7
INVARIANTS
    TypeOK
    SignatureFresh
    OneTier
    TargetKnown
PROPERTY QuietWriteLoaded
