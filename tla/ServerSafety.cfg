SPECIFICATION Spec
CONSTANTS
  Clients <- MCClients
  Probers <- MCProbers
  Probes <- MCProbes
  Disturbed <- MCDisturbed
  Interfaces = {"v0", "v1"}
  Nonblocking = {TRUE, FALSE}
  Splits = {"ascii", "bin"}
  NetCap = 5
  ChunkSize = 3
  MemFaults = 1
  Loops = 2
  Runs = 1
INVARIANTS TypeOK Conforms TailKept OutputIntact OneEntryPerKey RequestsLegal
