-------------------------- MODULE ParityCheckProps --------------------------
(* The properties of the parity check. *)
EXTENDS ParityCheck

MainPCs  == {"loop", "acquire", "drain", "report", "judge", "exited"}
CheckPCs == {"idle", "sending", "counted", "identical", "comparing", "recording",
             "release", "gone"}

MainType ==
  /\ flags \in [looping : BOOLEAN, allowErrors : BOOLEAN]
  /\ mainPC \in MainPCs /\ reqIdx \in Nat /\ drained \in 0..Slots /\ sem \in 0..Slots
  /\ total \in [Totals -> Nat] /\ report \in [Totals -> Nat]
  /\ verdict \in {"none", "passed", "failed"} /\ warned \in BOOLEAN
  /\ diffs \in Nat /\ csv \in [rows : Nat, err : BOOLEAN]

CheckType ==
  /\ checkPC \in [Checks -> CheckPCs]
  /\ answer \in [Checks -> [Targets -> {"none", "ok", "error"}]]
  /\ relation \in [Checks -> Relations \cup {"none"}]

TypeOK == MainType /\ CheckType

At(pcs) == {i \in Checks : checkPC[i] \in pcs}
Running == At(CheckPCs \ {"idle", "gone"})

\* Every slot is held by a running check or by main's drain, so no more than
\* Slots checks ever run and, the slots drained, none does.
SlotsHeld ==
  /\ sem = Cardinality(Running) + drained
  /\ mainPC \in {"report", "judge", "exited"} => Running = {}

\* The eight counters are bumped one by one; at any moment each request that was
\* answered is in exactly one category, but for those in between two adds.
Categories ==
  /\ total["sent"] = TotalErrors(total) + total["identical"] + total["byteDiff"]
                     + Cardinality(At({"counted", "identical"}))
  /\ total["byteDiff"] = diffs + Cardinality(At({"comparing", "recording"}))
  /\ total["match"] + total["mismatch"] + Cardinality(At({"comparing"}))
       = total["identical"] + total["byteDiff"] + Cardinality(At({"identical"}))

\* Slots and counters together, with the types: however the checks interleave,
\* the semaphore and the categories say which of them are where.
CountersSound == TypeOK /\ SlotsHeld /\ Categories

\* What a request says by itself about parity: an error unless errors are
\* allowed, or answers that are not within the tolerance.
Bad(i) == IF Errors(i) # {} THEN ~flags.allowErrors ELSE relation[i] = "far"

\* The numbers that are printed are final and complete: they are those of all
\* requests that were sent, and in a single pass of all requests of the file.
ReportFinal ==
  mainPC \in {"judge", "exited"} =>
    /\ report = total
    /\ report["sent"] = reqIdx
    /\ ~flags.looping => reqIdx = NumReqs
    /\ report["match"] = Cardinality({i \in At({"gone"}) : Errors(i) = {} /\ relation[i] # "far"})
    /\ diffs = report["byteDiff"]

\* The verdict, which is taken from counters, is what the answers say.
VerdictRight ==
  verdict # "none" =>
    (verdict = "passed" <=> \A i \in 0..(reqIdx - 1) : ~Bad(i))

\* What is printed and what the process exits with are both about all of the
\* requests and final.
OutcomeRight == ReportFinal /\ VerdictRight

\* A difference that is missing from the output has been warned about.
RowsComplete == (mainPC = "exited" /\ Output /\ ~warned) => csv.rows = total["byteDiff"]

\* The check comes to its verdict: every slot is given back.
VerdictGiven == <>(verdict # "none")

----------------------------------------------------------------------------
(* Refinement *)

Judged == At({"identical", "recording", "release", "gone"})

Abstract == INSTANCE Parity WITH
              open <- At({"sending", "counted", "comparing"}),
              judged <- Judged,
              bad <- {i \in Judged : Bad(i)}

ParitySpec == Abstract!Spec

\* The safety part of ParitySpec.
ParitySafety == Abstract!Init /\ [][Abstract!Next]_(Abstract!vars)

=============================================================================
