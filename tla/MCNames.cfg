\* Every page of up to two orders, every answer of the peers.
SPECIFICATION NamesSpec
CONSTANTS
  Pages <- MCPages
  MaxDigits = 3
INVARIANTS
  NamelessIsExplained
  DetailsAreNamed
