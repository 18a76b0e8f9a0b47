SPECIFICATION Spec
CONSTANTS
    buffer_length = 3
    Beyond = 2
    FileMax = 7
    CountMax = 5
INVARIANTS StreamInOrder DeliveredInOrder OverrunOnlyAfterError
