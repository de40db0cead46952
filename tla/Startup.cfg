SPECIFICATION Spec
CONSTANTS
  InstallRoots <- MCInstallRoots
  ReplayCandidates <- MCReplayCandidates
  CACandidates <- MCCACandidates
  CommandLines <- MCCommandLines
  Files <- MCFiles
  Bursts <- MCBursts
  Second = 4
  NumCPU = 2
  MaxReplicas = 2
  MaxMethodLen = 3
  ParityMaxMethodLen = 2
  MaxPayloadLen = 4
  PerRecordOverhead = 1
  MaxTotalReplayBytes = 13
CHECK_DEADLOCK FALSE
INVARIANTS
  StartedRunnable
  Precedence
  OutputsTouchedLast
  LoaderSound
  LoadersAgree
