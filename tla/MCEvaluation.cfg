SPECIFICATION Spec
CONSTANTS
    f1 = f1
    f2 = f2
    Flag = {f1, f2, empty}
    EmptyKey = empty
    NoFlag = none
    MaxSize = 2
    Goroutine = {g1}
    Kind = {"bool", "string"}
    Legacy <- MCLegacy
    Signed <- MCSigned
    Verification <- MCVerification
    APIKey = "key"
    Now = 15
    FiveMinutes = 3
    Unparsable = unparsable
    MaxComponent = 1
    Field = {"userId", "email"}
    UserId = "userId"
    Name = {"userId", "email", "plan"}
    AttributeValue = {1}
    Empty = 0
    NoContext = nil
INVARIANT ServedIfCached
INVARIANT FoundIfListed
INVARIANT ZeroOnlyUnchecked
INVARIANT RefusedNotServed
