\* Openings of some twenty contents, with up to three extra devices; a codec's frame;
\* an LZ4 block.
CONSTANTS
  Content <- MCContent
  Garbage <- MCGarbage
  Extras <- MCExtras
  NULL = NULL
SPECIFICATION OpenedSpec
INVARIANTS
  HeldWasVerified
  VerdictIsTheImages
  CfgsFromOwnRecord
  TagsLeadToDevices
  HeldIsServed
  PrefixOfBlock
CHECK_DEADLOCK FALSE
