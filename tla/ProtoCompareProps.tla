------------------------- MODULE ProtoCompareProps -------------------------
(* The properties of the comparison, against a definition without loops. *)
EXTENDS ProtoCompare

\* The fields before the first broken one.
Readable(m) ==
  SubSeq(m, 1, CHOOSE n \in 0..Len(m) :
                 /\ \A k \in 1..n : m[k].kind # "broken"
                 /\ n < Len(m) => m[n + 1].kind = "broken")

\* All floats of a response in the order of its bytes, two levels deep.
FloatsOf(m) ==
  LET own(f) == IF f.kind = "float" THEN <<f.v>> ELSE <<>>
      flat(s) == FlattenSeq([k \in 1..Len(s) |-> own(s[k])])
  IN  FlattenSeq([k \in 1..Len(Readable(m)) |->
                    IF m[k].kind = "message" THEN flat(Readable(m[k].fields)) ELSE own(m[k])])

\* Two responses match exactly if they have equally many floats, at least one,
\* and the floats at equal places are within the tolerance; this is so however
\* the responses are cut off and wherever in them the floats are.
MatchExact ==
  compared =>
    (result.match <=>
       /\ Len(FloatsOf(a)) = Len(FloatsOf(b)) /\ FloatsOf(a) # <<>>
       /\ \A k \in 1..Len(FloatsOf(a)) : Distance(FloatsOf(a)[k], FloatsOf(b)[k]) <= Tolerance)

\* Which target is called A does not matter, and the counts agree with the
\* verdict: a match has no mismatch, and a mismatch is never reported with none.
VerdictConsistent ==
  compared =>
    /\ CompareProtoFloats(b, a) = result
    /\ result.match <=> result.mismatches = 0
    /\ result.match => result.maxDiff <= Tolerance
    /\ result.mismatches <= IF Len(FloatsOf(a)) + Len(FloatsOf(b)) = 0 THEN 1
                            ELSE Len(FloatsOf(a)) + Len(FloatsOf(b)) - result.total

\* The two together: the loops decide what the definition says, and count it.
ComparisonExact == MatchExact /\ VerdictConsistent

=============================================================================
