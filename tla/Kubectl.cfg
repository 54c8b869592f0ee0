SPECIFICATION FairSpec
CONSTANTS
  Calls = {c1, c2}
  Text <- MCText
  Trim <- MCTrim
  Lower <- MCLower
  FlagShaped <- MCFlagShaped
  DnsLabels <- MCDnsLabels
  Requests <- MCRequests
  AllowLists <- MCAllowLists
  KubeConfigs <- MCKubeConfigs
  MaxEdits = 1
  None = None
INVARIANTS TypeOK ClusterOnlyAfterChecks NoOrphans
PROPERTIES EveryCallIsAnswered
