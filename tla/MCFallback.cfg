CONSTANTS
  Gateways = {"gw"}
  NoAddress = "none"
  Fallback = "fallback"
  Hosts = {"lanName", "wanName", "lanAddress"}
  HostIp <- MCHostIp
  HostNames = {"lanName", "wanName"}
  Lan = {"lan"}
  DelayWrap = 2
  DnsTids = 2
SPECIFICATION ResolverSpec
INVARIANTS
  FallbackUsed
