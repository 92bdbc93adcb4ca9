SPECIFICATION Spec
CONSTANTS
    ann = ann
    bob = bob
    olga = olga
    brake = brake
    horn = horn
    v1 = v1
    v2 = v2
    None = None
    Admins = {ann, bob}
    Shifts <- TwoAdminsOrOneAndAPhone
    Phones = {olga}
    Keys = {brake, horn}
    Texts = {v1, v2}
    OptionalTexts = {v2}
    Lists <- ThreeLists
    MaxPublishes = 2
    MaxInspections = 1
INVARIANTS
    AnsweredAsPinned
CHECK_DEADLOCK FALSE
