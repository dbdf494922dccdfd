SPECIFICATION Spec
CONSTANTS
  Cwd <- CwdMC
  Words <- WordsMC
  PathOf <- PathOfMC
  DirsOf <- DirsOfMC
  Disks <- DisksMC
  Homes <- HomesMC
  NibiFiles = {"main.nibi", "t1.nibi", "t2.nibi", "mod.nibi", "run.nibi", "lib.nibi", "config.nibi"}
  Wanted <- WantedMC
  ExitCodes = {0, 3}
  MaxWords = 4
  MaxOpen = 2
INVARIANTS
  TypeOK
  PassMeansAllRan
  TargetSeesItsDirectories
  NeverTheWrongFile
