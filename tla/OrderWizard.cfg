\* Two names, one of them reserved and on the menu; two slices.
CONSTANTS
    Names = {"imported-app", "app"}
    Reserved = {"app"}
    Menu = {"app"}
    ImportedName = "imported-app"
    MaxSlices = 2
SPECIFICATION Spec
INVARIANT ReviewIsTrue
PROPERTIES NoNeedIsLost PickIsTaken
