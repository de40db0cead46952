----------------------------- MODULE ReplayFile -----------------------------
(***************************************************************************)
(* The replay file and its two loaders: loadRequests of main.go and that   *)
(* of grpc-parity-check.  A file is a sequence of records; a record has a  *)
(* name, the two length prefixes that were written, and says whether the   *)
(* file ends inside of it.  Sizes are scaled down with the limits.         *)
(***************************************************************************)
EXTENDS Integers, SequencesExt

CONSTANTS
  MaxMethodLen,          \* of the replayer
  ParityMaxMethodLen,
  MaxPayloadLen,
  PerRecordOverhead,
  MaxTotalReplayBytes

ASSUME ReplayFileAssumption ==
  /\ {MaxMethodLen, ParityMaxMethodLen, MaxPayloadLen, MaxTotalReplayBytes} \subseteq Nat \ {0}
  /\ ParityMaxMethodLen <= MaxMethodLen
  /\ PerRecordOverhead \in Nat

Record == [name : STRING, methodLen : Nat, payloadLen : Nat, cut : BOOLEAN]

\* What a loader has after some records, or that it has given up.
Loading == [reqs : Seq(Record), totalBytes : Nat, err : BOOLEAN]
NothingLoaded == [reqs |-> <<>>, totalBytes |-> 0, err |-> FALSE]

\* A record that the checks of a loader with this limit refuse.
Refused(r, maxMethodLen) ==
  r.cut \/ r.methodLen \notin 1..maxMethodLen \/ r.payloadLen > MaxPayloadLen

Bytes(r) == r.methodLen + r.payloadLen + PerRecordOverhead

\* Mutant: a skipped record does not count towards the cap.
LoadTurn_FreeSkips(st, r) ==
  LET total == st.totalBytes + (IF r.payloadLen = 0 THEN 0 ELSE Bytes(r))
  IN  IF st.err \/ Refused(r, MaxMethodLen) \/ total > MaxTotalReplayBytes
      THEN [st EXCEPT !.err = TRUE]
      ELSE [st EXCEPT !.totalBytes = total,
                      !.reqs = IF r.payloadLen = 0 THEN @ ELSE Append(@, r)]

\* One turn of the replayer's loop: a record without a payload is counted and
\* skipped (validateLoadedRequest).
LoadTurn(st, r) ==
  LET total == st.totalBytes + Bytes(r)
  IN  IF st.err \/ Refused(r, MaxMethodLen) \/ total > MaxTotalReplayBytes
      THEN [st EXCEPT !.err = TRUE]
      ELSE [st EXCEPT !.totalBytes = total,
                      !.reqs = IF r.payloadLen = 0 THEN @ ELSE Append(@, r)]

LoadRequests(file) == FoldLeft(LoadTurn, NothingLoaded, file)

\* Mutant: the parity check's cap leaves out the overhead.
ParityLoadTurn_NoOverhead(st, r) ==
  LET total == st.totalBytes + r.methodLen + r.payloadLen
  IN  IF st.err \/ Refused(r, ParityMaxMethodLen) \/ total > MaxTotalReplayBytes
      THEN [st EXCEPT !.err = TRUE]
      ELSE [st EXCEPT !.totalBytes = total, !.reqs = Append(@, r)]

\* One turn of the parity check's loop.
ParityLoadTurn(st, r) ==
  LET total == st.totalBytes + Bytes(r)
  IN  IF st.err \/ Refused(r, ParityMaxMethodLen) \/ total > MaxTotalReplayBytes
      THEN [st EXCEPT !.err = TRUE]
      ELSE [st EXCEPT !.totalBytes = total, !.reqs = Append(@, r)]

\* An empty file is an error here; in the replayer, main rejects it.
ParityLoadRequests(file) ==
  LET end == FoldLeft(ParityLoadTurn, NothingLoaded, file)
  IN  [end EXCEPT !.err = @ \/ end.reqs = <<>>]

\* makeDispatchJob: a record without a method is sent with the one of --method.
Job(r, fallback) == [method  |-> IF r.methodLen > 0 THEN r.name ELSE fallback,
                     payload |-> r.payloadLen]

=============================================================================
