---------------------------- MODULE StartupProps ----------------------------
(* The properties of start-up and of the two loaders of a replay file. *)
EXTENDS Startup

TypeOK ==
  /\ pc \in Range(Artifacts) \cup
            {"takeover", "fill", "required", "target", "numbers", "credentials", "burst", "load",
             "dialOptions", "connections", "csv", "jsonl", "running", "exited"}
  /\ failedAt # Unset <=> pc = "exited"
  /\ takeOver \in BOOLEAN /\ flags.tls \in BOOLEAN
  /\ {flags.qps, flags.queue, flags.connections, flags.workers} \subseteq Int
  /\ asked \subseteq PathFlags /\ outputs \subseteq {"csv", "jsonl"}
  /\ burst \in Bursts \cup {NoBurst}
  /\ loading \in Loading

Running == pc = "running"

\* The sizes of a run are usable, by whatever way they came about: it sends
\* at some rate, over some connections, with workers that take from a queue
\* that holds something, and has something to send.  Sizes that takeover
\* leaves alone, such as a negative number of workers, are no exception.
SizesUsable ==
  Running => /\ flags.qps > 0 /\ flags.connections > 0
             /\ flags.workers > 0 /\ flags.queue > 0
             /\ loading.reqs # <<>>

\* The credentials of a run come in pairs whatever mix of flags, overrides
\* and discovered files they are, and a takeover run never goes without them.
CredentialsPaired ==
  Running => /\ flags.cert = Unset <=> flags.key = Unset
             /\ takeOver => flags.tls /\ flags.cert # Unset

\* The bursts of an absorbing run leave a base rate of at least zero, so that
\* the scheduler never has to cut it off and the mean stays at --qps; and no
\* burst is enabled without a window and a period.
BurstsFitRate ==
  Running => /\ burst.Size > 0 => burst.Window > 0 /\ burst.Period > 0
             /\ burst.Size > 0 /\ burst.Mode = "absorbing" =>
                  flags.qps * burst.Period - burst.Size * Second >= 0

\* A run that starts can run: no check that the steps after it rely on is
\* missing from any way through takeover and the flags.
StartedRunnable == TypeOK /\ SizesUsable /\ CredentialsPaired /\ BurstsFitRate

\* A path that was given as a flag is the one that is used, in takeover too;
\* without the flag an override is; neither is ever replaced by a candidate
\* that happens to exist.
Precedence ==
  Running =>
    \A f \in PathFlags :
      /\ given[f] # Unset => flags[f] = given[f]
      /\ given[f] = Unset /\ f \in asked => flags[f] = "override"
      /\ ~takeOver => flags[f] = given[f]

\* The results of an earlier run survive a start that is refused: an output
\* is emptied only once nothing can fail but the outputs themselves, and a
\* JSONL file only by a run that starts.
OutputsTouchedLast ==
  pc = "exited" => /\ outputs # {} => failedAt = "jsonl"
                   /\ "jsonl" \notin outputs

Loaded == pc = "dialOptions" \/ (failedAt = "load" /\ file # <<>>)

BytesOf(records) == FoldLeft(LAMBDA sum, r : sum + Bytes(r), 0, records)

\* The positions, up to n, of the records of f that have a payload; reqs is
\* the sequence of exactly these records.
WithPayload(f, n) == {i \in 1..n : f[i].payloadLen > 0}

IsSelection(reqs, f) ==
  /\ Len(reqs) = Cardinality(WithPayload(f, Len(f)))
  /\ \A i \in WithPayload(f, Len(f)) : reqs[Cardinality(WithPayload(f, i))] = f[i]

\* Every job goes to the method that its record names: the method of the flag
\* --method never takes its place, as no record without a method is loaded.
JobsFaithful ==
  \A i \in 1..Len(loading.reqs) :
    Job(loading.reqs[i], "--method").method = loading.reqs[i].name

\* loadRequests is all or nothing: it fails if any record is malformed or cut
\* off, or if all of them (the skipped ones too) are more than the cap, and
\* otherwise has every record with a payload, in the order of the file.
LoaderSound ==
  Loaded =>
    /\ loading.err <=> \/ \E i \in 1..Len(file) : \/ file[i].cut
                                                  \/ file[i].methodLen \notin 1..MaxMethodLen
                                                  \/ file[i].payloadLen > MaxPayloadLen
                       \/ BytesOf(file) > MaxTotalReplayBytes
    /\ ~loading.err => IsSelection(loading.reqs, file) /\ JobsFaithful

\* The two loaders read one format: a file that the parity check accepts is
\* loaded by the replayer, as the same requests but for those without a
\* payload.  (If that leaves none, main refuses to run, see Startup!Load.)
LoadersAgree ==
  Loaded =>
    LET parity == ParityLoadRequests(file)
    IN  ~parity.err =>
          /\ ~loading.err
          /\ IsSelection(loading.reqs, parity.reqs)

=============================================================================
