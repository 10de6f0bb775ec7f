\* An object put together with nson_obj_put: its keys are strings.
SPECIFICATION Spec
CONSTANTS
    Keys = {1, 2, 3}
    Strings = {1, 2, 3}
    MaxSize = 4
    Parsed = FALSE
PROPERTIES
    GetFindsKey
