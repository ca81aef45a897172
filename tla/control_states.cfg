SPECIFICATION FairSpec
CONSTANTS
    light = light
    dark = dark
    contrast = contrast
    Palettes = {light, dark, contrast}
    HighContrast = {contrast}
    Kinds <- AllKinds
    Frames = 1
INVARIANTS
    TransientsEnd
    FadeIsDriven
    ShownIsCurrent
PROPERTIES
    ComesToRest
