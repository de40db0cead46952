------------------------------ MODULE Startup ------------------------------
(***************************************************************************)
(* main.go from flag.Parse to the first call of the scheduler: takeover    *)
(* discovery, the checks of the flags in their order, loading, dialling    *)
(* and opening the outputs.  Each step either lets the run go on or ends   *)
(* the process.                                                            *)
(*                                                                         *)
(* A path is known by where it comes from: the flag, the takeover          *)
(* override, or its candidate.  What the file system says of a path is     *)
(* chosen when it is asked, and so is a flag that only one step reads; the *)
(* other flags are in flags, which takeover overwrites.                    *)
(***************************************************************************)
EXTENDS ReplayFile

CONSTANTS
  InstallRoots, ReplayCandidates, CACandidates,  \* the takeover candidates, in order
  CommandLines,       \* the flags as they may be given
  Files,              \* the replay files that may be there
  Bursts,             \* the burst configurations that may be asked for
  Second,             \* ticks of a burst period in a second
  NumCPU,
  MaxReplicas

\* The flags that takeover may overwrite, and --qps and --target.
CommandLine == [target : {"", "host:port"}, file : {"", "flag"},
                cert : {"", "flag"}, key : {"", "flag"}, ca : {"", "flag"},
                tls : BOOLEAN, qps : Int, connections : Int, workers : Int, queue : Int]

ASSUME StartupAssumption ==
  /\ CommandLines \subseteq CommandLine
  /\ Files \subseteq Seq(Record)
  /\ Bursts \subseteq [Size : Int, Window : Int, Period : Int, Mode : {"additive", "absorbing"}]
  /\ {Second, NumCPU, MaxReplicas} \subseteq Nat \ {0}

Unset == ""
PathFlags == {"file", "cert", "key", "ca"}

\* The artifacts of takeover, in the order in which they are resolved.
Artifacts  == <<"root", "file", "cert", "key", "ca">>
Candidates == [root |-> InstallRoots, file |-> ReplayCandidates,
               cert |-> <<"var/identity.cert">>, key |-> <<"var/identity.key">>,
               ca |-> CACandidates]

VARIABLES
  pc,          \* the step to come: "takeover", an artifact, ..., "running", "exited"
  failedAt,    \* the step that ended the process
  takeOver,
  flags,       \* the values behind the flag pointers
  given,       \* history: the paths and numbers as they were given
  artifacts,
  asked,       \* history: the paths for which an override was given
  burst,       \* burstCfg
  loading,     \* what loadRequests returned
  file,        \* history: the replay file it read
  outputs      \* the output files that were created, and so emptied

runVars == <<burst, loading, file, outputs>>
vars == <<pc, failedAt, takeOver, flags, given, artifacts, asked, runVars>>

NoBurst == [Size |-> 0, Window |-> 0, Period |-> 0, Mode |-> "additive"]

NoArtifacts == [a \in PathFlags \cup {"root"} |-> Unset]

Init ==
  /\ takeOver \in BOOLEAN
  /\ pc = IF takeOver THEN "takeover" ELSE "required"
  /\ failedAt = Unset
  /\ flags \in CommandLines
  /\ given = flags
  /\ artifacts = NoArtifacts /\ asked = {}
  /\ burst = NoBurst
  /\ loading = NothingLoaded /\ file = <<>>
  /\ outputs = {}

\* A step passes and the next one follows, or it prints an error and exits.
Check(step, passes, next) ==
  /\ pc = step
  /\ pc' = IF passes THEN next ELSE "exited"
  /\ failedAt' = IF passes THEN failedAt ELSE step

----------------------------------------------------------------------------
(* Takeover. *)

RequireTakeoverTarget ==
  /\ Check("takeover", flags.target # Unset, "root")
  /\ UNCHANGED <<takeOver, flags, given, artifacts, asked, runVars>>

FirstExisting(paths, there) ==
  LET i == SelectInSeq(paths, LAMBDA p : p \in there)
  IN  IF i = 0 THEN Unset ELSE paths[i]

\* choosePath, resolveTakeoverInstallRoot and the CA: an override is taken or
\* is an error, the candidates are tried only without one.
ChoosePath(override, candidates, there) ==
  IF override = Unset THEN FirstExisting(candidates, there)
  ELSE IF override \in there THEN override ELSE Unset

\* Mutant: an override that does not exist falls back to the candidates.
ResolvesTo_FallsBack(a, override, there) ==
  FirstExisting(<<override>> \o Candidates[a], there)

ResolvesTo(a, override, there) == ChoosePath(override, Candidates[a], there)

\* Only the CA may be missing, as long as no override names one.
ResolveArtifact(i) ==
  LET a == Artifacts[i] IN
  \E override \in {Unset, "override"}, there \in SUBSET ({"override"} \cup Range(Candidates[a])) :
    LET path == ResolvesTo(a, override, there) IN
    /\ Check(a, path # Unset \/ (a = "ca" /\ override = Unset),
             IF i = Len(Artifacts) THEN "fill" ELSE Artifacts[i + 1])
    /\ artifacts' = [artifacts EXCEPT ![a] = path]
    /\ asked' = IF override = Unset THEN asked ELSE asked \cup ({a} \cap PathFlags)
    /\ UNCHANGED <<takeOver, flags, given, runVars>>

\* An explicit flag wins over the artifact.
Filled(f) == IF flags[f] = Unset THEN artifacts[f] ELSE flags[f]

MaxInt(a, b) == IF a > b THEN a ELSE b

\* --connections has the default 4; 0 workers and a queue of 0 mean auto.
\* The artifacts go out of scope.
FillFlags ==
  LET connections == IF flags.connections = 4 THEN MaxInt(32, NumCPU * 4) ELSE flags.connections
      workers     == IF flags.workers = 0 THEN MaxInt(128, connections * 4) ELSE flags.workers
      queue       == IF flags.queue = 0 THEN MaxInt(4096, workers * 32) ELSE flags.queue
  IN  /\ Check("fill", TRUE, "required")
      /\ flags' = [target |-> flags.target, tls |-> TRUE, qps |-> flags.qps,
                   file |-> Filled("file"), cert |-> Filled("cert"),
                   key |-> Filled("key"), ca |-> Filled("ca"),
                   connections |-> connections, workers |-> workers, queue |-> queue]
      /\ artifacts' = NoArtifacts
      /\ UNCHANGED <<takeOver, given, asked, runVars>>

----------------------------------------------------------------------------
(* The checks. *)

RequireFileAndTarget ==
  /\ Check("required", flags.file # Unset /\ flags.target # Unset, "target")
  /\ UNCHANGED <<takeOver, flags, given, artifacts, asked, runVars>>

\* normalizeTargetArg: the form of the target is not kept.
NormalizeTarget ==
  /\ \E wellFormed \in BOOLEAN : Check("target", wellFormed, "numbers")
  /\ UNCHANGED <<takeOver, flags, given, artifacts, asked, runVars>>

\* Mutant: a number of workers that is given is taken as it is.
DerivedWorkers_OnlyZero(connections, workers) ==
  IF workers = 0 THEN MaxInt(8, connections * 2) ELSE workers

DerivedWorkers(connections, workers) ==
  IF workers <= 0 THEN MaxInt(8, connections * 2) ELSE workers

\* The flags that must be positive, then the derived sizes.
CheckNumbers ==
  LET workers == DerivedWorkers(flags.connections, flags.workers)
      queue   == IF flags.queue <= 0 THEN MaxInt(512, workers * 16) ELSE flags.queue
  IN  /\ \E replicas \in {0, 1, MaxReplicas, MaxReplicas + 1}, duration, requestTimeout \in {0, 1} :
           Check("numbers",
                 /\ flags.qps > 0 /\ replicas \in 1..MaxReplicas /\ duration > 0
                 /\ flags.connections > 0 /\ requestTimeout > 0,
                 "credentials")
      /\ flags' = IF pc' = "exited" THEN flags
                  ELSE [flags EXCEPT !.workers = workers, !.queue = queue]
      /\ UNCHANGED <<takeOver, given, artifacts, asked, runVars>>

Paired == (flags.cert = Unset) = (flags.key = Unset)

PairCredentials ==
  /\ Check("credentials", Paired, "burst")
  /\ UNCHANGED <<takeOver, flags, given, artifacts, asked, runVars>>

\* BurstConfig.Validate, but for the names, which are parsed before.
Valid(b) == b.Size >= 0 /\ (b.Size > 0 => b.Window > 0 /\ b.Period > 0)

\* AvgQPS() > qps for a valid configuration, without the division.
ExceedsQPS(b) == b.Size > 0 /\ b.Size * Second > flags.qps * b.Period

Fits(b) == b.Mode = "absorbing" => ~ExceedsQPS(b)

CheckBurst ==
  \E b \in Bursts, namesKnown \in BOOLEAN :
    /\ Check("burst", namesKnown /\ Valid(b) /\ Fits(b), "load")
    /\ burst' = b
    /\ UNCHANGED <<takeOver, flags, given, artifacts, asked, loading, file, outputs>>

----------------------------------------------------------------------------
(* From here on the run touches files and the network. *)

Load ==
  /\ \/ \E f \in Files :
          LET end == LoadRequests(f) IN
          /\ Check("load", ~end.err /\ end.reqs # <<>>, "dialOptions")
          /\ file' = f /\ loading' = end
     \/ Check("load", FALSE, "dialOptions") /\ UNCHANGED <<file, loading>>    \* os.Open fails
  /\ UNCHANGED <<takeOver, flags, given, artifacts, asked, burst, outputs>>

\* buildDialOptions reads the certificate, the key and the CA only for TLS.
BuildDialOptions ==
  /\ \E readable \in BOOLEAN :
       Check("dialOptions", flags.tls /\ {flags.cert, flags.ca} # {Unset} => readable,
             "connections")
  /\ UNCHANGED <<takeOver, flags, given, artifacts, asked, runVars>>

\* Mutant: the CSV file is created along with the connections.
OpenConnections_WithCSV ==
  /\ \E accepted \in BOOLEAN : Check("connections", accepted, "csv")
  /\ outputs' = outputs \cup {"csv"}
  /\ UNCHANGED <<takeOver, flags, given, artifacts, asked, burst, loading, file>>

OpenConnections ==
  /\ \E accepted \in BOOLEAN : Check("connections", accepted, "csv")
  /\ UNCHANGED <<takeOver, flags, given, artifacts, asked, runVars>>

\* --output and --metrics-jsonl: os.Create empties a file that is there.
OpenOutput(step, next) ==
  /\ \E wanted, creatable \in BOOLEAN :
       /\ Check(step, wanted => creatable, next)
       /\ outputs' = IF wanted /\ creatable THEN outputs \cup {step} ELSE outputs
  /\ UNCHANGED <<takeOver, flags, given, artifacts, asked, burst, loading, file>>

OpenCSV   == OpenOutput("csv", "jsonl")
OpenJSONL == OpenOutput("jsonl", "running")

Next ==
  \/ RequireTakeoverTarget
  \/ \E i \in 1..Len(Artifacts) : ResolveArtifact(i)
  \/ FillFlags
  \/ RequireFileAndTarget
  \/ NormalizeTarget
  \/ CheckNumbers
  \/ PairCredentials
  \/ CheckBurst
  \/ Load
  \/ BuildDialOptions
  \/ OpenConnections
  \/ OpenCSV
  \/ OpenJSONL

Spec == Init /\ [][Next]_vars

=============================================================================
