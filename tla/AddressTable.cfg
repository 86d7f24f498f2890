CONSTANTS
    Addresses <- MCAddresses
    MaxMsg = 3
SPECIFICATION Spec
CHECK_DEADLOCK FALSE
INVARIANTS
    TypeOK
    LookupsAgree
    DecodesWhatWasCompressed
PROPERTY
    AddressRegistrySpec
