SPECIFICATION Spec
CONSTANTS
  Text <- MCText
  Trim <- MCTrim
  Upper <- MCUpper
  Lower <- MCLower
  fqdn <- MCfqdn
  GITHUB_PAGES_IPS <- MCPagesIps
  FIDUCIA_PAGES_CNAME = "pages-host"
  FIDUCIA_EDGE_IP = "edge-ip"
  CloudflareNames <- MCCloudflareNames
  Inputs <- PresetOnly
  Questions <- MCQuestions
  Contents <- MCContents
  MaxChanges = 0
  None = None
INVARIANTS PendingMeansNoRecord
