\* Texts of any kind up to five characters; templates with any of the keys that
\* two parts of get_template_node look at.  A text ends.
SPECIFICATION Spec
CONSTANTS
    Chars <- AllChars
    MaxText = 5
    Keys = {"is_value", "tag", "multi", "type", "help", "syntax", "allowed", "other"}
CHECK_DEADLOCK FALSE
INVARIANTS
    FieldsKept
    LinesKept
    ArgumentsArrive
    
    EnumRight
    OrderFree
    EndIsLeaf
