SPECIFICATION AppSpec
CONSTANTS
    Details = {blank, odd, good, other}
    Unusable = {blank}
    Unparsable = {odd}
    NoDetails = NoDetails
    MaxAttempts = 2
CHECK_DEADLOCK FALSE
INVARIANT ShownIsTried
PROPERTY ResultShown
