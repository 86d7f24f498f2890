--------------------------- MODULE MCAddressTable ---------------------------
EXTENDS AddressTable

\* The zero address, which register accepts, and three others.
MCAddresses == {0, 1, 2, 3}
=============================================================================
