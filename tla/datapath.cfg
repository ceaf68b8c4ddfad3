SPECIFICATION Spec
CONSTANTS
  client = client
  peer = peer
  host = host
  alias = alias
  target = target
  host6 = host6
  target6 = target6
  eth0 = eth0
  eth1 = eth1
  NoPlan = NoPlan
  Addresses <- MCAddresses
  FamilyOf <- MCFamilyOf
  Networks <- MCNetworks
  Interfaces = {eth0, eth1}
  MaxPort = 6
  Configs <- MCConfigs
  Packets <- MCPackets
  SshFiles <- MCSshFiles
  SshPort = 1
  MaxFlows = 1
INVARIANTS
  TypeOK
  Unambiguous
  SshReachable
  PortsMapped
  CountedForItsRule
  ForwardingRequired
  FreshTableMatches
PROPERTY
  RewrittenForItsTarget
