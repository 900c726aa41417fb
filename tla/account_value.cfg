\* Every stored account record serializes into exactly getSize bytes and
\* deserializes back to itself.
CONSTANTS
    KEY_LENGTH = 1
    VIEW_KEY_LENGTH = 2
    PUBLIC_ADDRESS_LENGTH = 1
    HEAD_VALUE_SIZE = 2
    Null = Null
    Undefined = Undefined
    Throw = Throw
    AccountValues <- MCAccountValues
SPECIFICATION Spec
INVARIANTS SerializeFits RoundTrip
