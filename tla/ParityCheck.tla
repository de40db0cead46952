----------------------------- MODULE ParityCheck -----------------------------
(***************************************************************************)
(* cmd/grpc-parity-check/main.go: main starts one goroutine per request,   *)
(* as many at a time as a semaphore has slots; each sends the request to   *)
(* both targets, compares the answers and counts; main then takes every    *)
(* slot itself, reads the counters and gives the verdict.                  *)
(*                                                                         *)
(* One action is one atomic add, one critical section of mu, one operation *)
(* of the semaphore, or one answer.  What two answers have to do with each *)
(* other is chosen when both are there; module ProtoCompare computes it.   *)
(***************************************************************************)
EXTENDS Integers, FiniteSets

CONSTANTS
  Slots,        \* cap(sem)
  NumReqs,      \* requests loaded, at most -n of them
  Output,       \* -output is given
  WritesFail,   \* writes to the output may fail
  MaxChecks     \* bound: checks that a looping run starts before its deadline

ASSUME ParityCheckAssumption ==
  /\ {Slots, NumReqs} \subseteq Nat \ {0}
  /\ MaxChecks \in Nat /\ NumReqs <= MaxChecks
  /\ {Output, WritesFail} \subseteq BOOLEAN

\* The requests that may be sent, by reqIdx.
Checks == 0..(MaxChecks - 1)
Targets == {"A", "B"}
\* Equal bytes, floats within the tolerance, or anything else.
Relations == {"identical", "close", "far"}
Totals == {"sent", "match", "mismatch", "errA", "errB", "bothErr", "byteDiff", "identical"}

VARIABLES
  flags,        \* -duration is given (loop until the deadline), -allow-errors
  mainPC, reqIdx, drained,
  sem,          \* slots taken
  checkPC,      \* of each goroutine
  answer,       \* of each target to each request
  relation,     \* of the two answers, if both targets gave one
  total,        \* the atomic counters
  diffs, csv,   \* guarded by mu: the sampler's count, the rows written and csvErr
  report, verdict, warned

mainVars  == <<flags, mainPC, reqIdx, drained>>
checkVars == <<checkPC, answer, relation>>
muVars    == <<diffs, csv>>
endVars   == <<report, verdict, warned>>
vars == <<mainVars, sem, checkVars, total, muVars, endVars>>

Zeros == [t \in Totals |-> 0]

\* The header of the CSV may already fail.
Init ==
  /\ flags \in [looping : BOOLEAN, allowErrors : BOOLEAN]
  /\ mainPC = "loop" /\ reqIdx = 0 /\ drained = 0 /\ sem = 0
  /\ checkPC = [i \in Checks |-> "idle"]
  /\ answer = [i \in Checks |-> [t \in Targets |-> "none"]]
  /\ relation = [i \in Checks |-> "none"]
  /\ total = Zeros
  /\ diffs = 0
  /\ \E fails \in IF Output /\ WritesFail THEN BOOLEAN ELSE {FALSE} :
       csv = [rows |-> 0, err |-> fails]
  /\ report = Zeros /\ verdict = "none" /\ warned = FALSE

----------------------------------------------------------------------------
(* Main *)

\* The next request is picked, by index modulo the number of requests.
Pick ==
  /\ mainPC = "loop"
  /\ reqIdx < (IF flags.looping THEN MaxChecks ELSE NumReqs)
  /\ reqIdx' = reqIdx + 1
  /\ mainPC' = "acquire"
  /\ UNCHANGED <<flags, drained, sem, checkVars, total, muVars, endVars>>

\* sem <- struct{}{} blocks while every slot is taken; then the goroutine starts.
Start ==
  /\ mainPC = "acquire"
  /\ sem < Slots
  /\ sem' = sem + 1
  /\ checkPC' = [checkPC EXCEPT ![reqIdx - 1] = "sending"]
  /\ mainPC' = "loop"
  /\ UNCHANGED <<flags, reqIdx, drained, answer, relation, total, muVars, endVars>>

\* The deadline has passed, or every request has been sent.
LeaveLoop ==
  /\ mainPC = "loop"
  /\ flags.looping \/ reqIdx >= NumReqs
  /\ mainPC' = "drain"
  /\ UNCHANGED <<flags, reqIdx, drained, sem, checkVars, total, muVars, endVars>>

\* Mutant: main takes one slot too few.
DrainSlot_OneLess ==
  /\ mainPC = "drain"
  /\ IF drained + 1 < Slots
     THEN /\ sem < Slots
          /\ sem' = sem + 1
          /\ drained' = drained + 1
          /\ UNCHANGED mainPC
     ELSE mainPC' = "report" /\ UNCHANGED <<sem, drained>>
  /\ UNCHANGED <<flags, reqIdx, checkVars, total, muVars, endVars>>

\* Main takes every slot, one after the other.
DrainSlot ==
  /\ mainPC = "drain"
  /\ IF drained < Slots
     THEN /\ sem < Slots
          /\ sem' = sem + 1
          /\ drained' = drained + 1
          /\ UNCHANGED mainPC
     ELSE mainPC' = "report" /\ UNCHANGED <<sem, drained>>
  /\ UNCHANGED <<flags, reqIdx, checkVars, total, muVars, endVars>>

\* The counters are read without atomics and printed; the CSV is closed.
Report ==
  /\ mainPC = "report"
  /\ report' = total
  /\ \E fails \in IF Output /\ WritesFail THEN BOOLEAN ELSE {FALSE} :
       /\ csv' = [csv EXCEPT !.err = @ \/ fails]
       /\ warned' = (csv.err \/ fails)
  /\ mainPC' = "judge"
  /\ UNCHANGED <<flags, reqIdx, drained, sem, checkVars, total, diffs, verdict>>

\* Mutant: errors of both targets at once are forgotten.
TotalErrors_OneSided(t) == t["errA"] + t["errB"]

TotalErrors(t) == t["errA"] + t["errB"] + t["bothErr"]

\* The exit code.
Judge ==
  /\ mainPC = "judge"
  /\ verdict' = IF total["mismatch"] > 0 \/ (TotalErrors(total) > 0 /\ ~flags.allowErrors)
                THEN "failed" ELSE "passed"
  /\ mainPC' = "exited"
  /\ UNCHANGED <<flags, reqIdx, drained, sem, checkVars, total, muVars, report, warned>>

Main == Pick \/ Start \/ LeaveLoop \/ DrainSlot \/ Report \/ Judge

----------------------------------------------------------------------------
(* One check *)

Goto(i, from, to) == /\ checkPC[i] = from
                     /\ checkPC' = [checkPC EXCEPT ![i] = to]

Bump(t) == total' = [total EXCEPT ![t] = @ + 1]

\* Invoke of one target returns, at the latest with the error of the timeout.
Answer(i, t) ==
  /\ checkPC[i] = "sending"
  /\ answer[i][t] = "none"
  /\ \E result \in {"ok", "error"} : answer' = [answer EXCEPT ![i][t] = result]
  /\ UNCHANGED <<checkPC, relation, mainVars, sem, total, muVars, endVars>>

Errors(i) == {t \in Targets : answer[i][t] = "error"}

\* wg.Wait returns.
Join(i) ==
  /\ Goto(i, "sending", "counted")
  /\ \A t \in Targets : answer[i][t] # "none"
  /\ \E r \in IF Errors(i) = {} THEN Relations ELSE {"none"} :
       relation' = [relation EXCEPT ![i] = r]
  /\ Bump("sent")
  /\ UNCHANGED <<answer, mainVars, sem, muVars, endVars>>

\* Mutant: one test per target after the other, where the code has one switch.
ClassifyErrors_Cascade(i) ==
  /\ Errors(i) # {}
  /\ total' = [t \in Totals |->
                 IF \/ t = "errA" /\ "A" \in Errors(i)
                    \/ t = "errB" /\ "B" \in Errors(i)
                    \/ t = "bothErr" /\ Errors(i) = Targets
                 THEN total[t] + 1 ELSE total[t]]
  /\ Goto(i, "counted", "release")
  /\ UNCHANGED <<answer, relation, mainVars, sem, muVars, endVars>>

\* An RPC error of one target or of both.
ClassifyErrors(i) ==
  /\ Errors(i) # {}
  /\ Bump(CASE Errors(i) = Targets -> "bothErr"
            [] Errors(i) = {"A"}   -> "errA"
            [] OTHER               -> "errB")
  /\ Goto(i, "counted", "release")
  /\ UNCHANGED <<answer, relation, mainVars, sem, muVars, endVars>>

\* Equal bytes are counted twice, by two atomic adds.
ClassifyIdentical(i) ==
  /\ Errors(i) = {} /\ relation[i] = "identical"
  /\ Bump("match")
  /\ Goto(i, "counted", "identical")
  /\ UNCHANGED <<answer, relation, mainVars, sem, muVars, endVars>>

CountIdentical(i) ==
  /\ Goto(i, "identical", "release")
  /\ Bump("identical")
  /\ UNCHANGED <<answer, relation, mainVars, sem, muVars, endVars>>

ClassifyByteDiff(i) ==
  /\ Errors(i) = {} /\ relation[i] # "identical"
  /\ Bump("byteDiff")
  /\ Goto(i, "counted", "comparing")
  /\ UNCHANGED <<answer, relation, mainVars, sem, muVars, endVars>>

\* compareProtoFloats decides.
CompareFloats(i) ==
  /\ Goto(i, "comparing", "recording")
  /\ Bump(IF relation[i] = "close" THEN "match" ELSE "mismatch")
  /\ UNCHANGED <<answer, relation, mainVars, sem, muVars, endVars>>

\* Mutant: the row of a failed write is counted as written.
RecordDiff_NoError(i) ==
  /\ Goto(i, "recording", "release")
  /\ diffs' = diffs + 1
  /\ IF Output
     THEN \E fails \in IF WritesFail THEN BOOLEAN ELSE {FALSE} :
            csv' = [rows |-> csv.rows + (IF fails THEN 0 ELSE 1), err |-> csv.err]
     ELSE UNCHANGED csv
  /\ UNCHANGED <<answer, relation, mainVars, sem, total, endVars>>

\* The critical section of mu: the sampler and, with an output, a row.
RecordDiff(i) ==
  /\ Goto(i, "recording", "release")
  /\ diffs' = diffs + 1
  /\ IF Output
     THEN \E fails \in IF WritesFail THEN BOOLEAN ELSE {FALSE} :
            csv' = [rows |-> csv.rows + (IF fails THEN 0 ELSE 1), err |-> csv.err \/ fails]
     ELSE UNCHANGED csv
  /\ UNCHANGED <<answer, relation, mainVars, sem, total, endVars>>

\* Mutant: the slot is given back only by a check without an error.
Release_NotOnError(i) ==
  /\ Goto(i, "release", "gone")
  /\ sem' = IF Errors(i) = {} THEN sem - 1 ELSE sem
  /\ UNCHANGED <<answer, relation, mainVars, total, muVars, endVars>>

\* The deferred <-sem.
Release(i) ==
  /\ Goto(i, "release", "gone")
  /\ sem' = sem - 1
  /\ UNCHANGED <<answer, relation, mainVars, total, muVars, endVars>>

Check(i) == (\E t \in Targets : Answer(i, t)) \/ Join(i)
            \/ ClassifyErrors(i) \/ ClassifyIdentical(i) \/ CountIdentical(i)
            \/ ClassifyByteDiff(i) \/ CompareFloats(i) \/ RecordDiff(i) \/ Release(i)

\* The process has ended.
Exited == mainPC = "exited" /\ UNCHANGED vars

Next == Main \/ (\E i \in Checks : Check(i)) \/ Exited

\* Every goroutine that can run does; the deadline of a looping run comes.
Spec == /\ Init /\ [][Next]_vars
        /\ WF_vars(Main)
        /\ \A i \in Checks : WF_vars(Check(i))

=============================================================================
