------------------------------ MODULE MergeType ------------------------------
(***************************************************************************)
(* Merge.merge of result/mergetype.py: the statistic a table cell or a     *)
(* graph bar reports for the values one stats key takes over the trials.   *)
(* The caller has already looked the key up (d.get(key) for each d of     *)
(* rs), so the operators take the sequence of those values.                *)
(*                                                                         *)
(* A statistic is a real number, and the geometric mean is not rational,   *)
(* so a result is kept exactly as [num, den, root], standing for           *)
(* (num / den) ^ (1 / root); exc names the exception raised instead.      *)
(***************************************************************************)
EXTENDS Integers, Sequences, TLC
LOCAL INSTANCE SequencesExt

MergeTypes == {"MERGE_MAX", "MERGE_MIN", "MERGE_AVG", "MERGE_MED",
               "MERGE_GEOMEAN"}

\* A number as the code's float
Real(n, d, r) == [exc |-> "none", num |-> n, den |-> d, root |-> r]

\* An exception leaving the merge instead of a value
Raise(e) == [exc |-> e, num |-> 0, den |-> 1, root |-> 1]

\* numpy and scipy of an empty array give nan, not an exception
NaN == [exc |-> "none", num |-> 0, den |-> 0, root |-> 1]
ZeroDivision == Raise("SystemExit")   \* raiseError after ZeroDivisionError
EmptyMinMax == Raise("ValueError")    \* min([]) and max([]), not caught

Plus(a, b) == a + b
Times(a, b) == a * b

\* __mergeAverage: fl_sum over the list, divided by len(rs); an empty list
\* divides by zero, which raiseError turns into sys.exit
mergeAverage(vals) ==
    IF Len(vals) = 0 THEN ZeroDivision
    ELSE Real(FoldLeft(Plus, 0, vals), Len(vals), 1)

\* __mergeMedian: numpy.median sorts and takes the middle element, or the
\* mean of the two middle elements of an even-length list
mergeMedian(vals) ==
    LET s == SortSeq(vals, <)
        n == Len(vals)
    IN  IF n = 0 THEN NaN
        ELSE IF n % 2 = 1 THEN Real(s[(n + 1) \div 2], 1, 1)
        ELSE Real(s[n \div 2] + s[n \div 2 + 1], 2, 1)

\* __mergeGeoMean: the scan stops at the first 0.0 and reports 0.0;
\* otherwise scipy.stats.gmean, the len-th root of the product
mergeGeoMean(vals) ==
    IF \E i \in 1..Len(vals) : vals[i] = 0 THEN Real(0, 1, 1)
    ELSE IF Len(vals) = 0 THEN NaN
    ELSE Real(FoldLeft(Times, 1, vals), 1, Len(vals))

\* __mergeMin and __mergeMax: the builtins raise on an empty list
mergeMin(vals) ==
    IF Len(vals) = 0 THEN EmptyMinMax
    ELSE Real(FoldLeft(LAMBDA a, b : IF b < a THEN b ELSE a, vals[1], vals), 1, 1)

mergeMax(vals) ==
    IF Len(vals) = 0 THEN EmptyMinMax
    ELSE Real(FoldLeft(LAMBDA a, b : IF b > a THEN b ELSE a, vals[1], vals), 1, 1)

\* Merge.merge: dispatch on the merge type
merge(vals, mergeType) ==
    CASE mergeType = "MERGE_AVG"     -> mergeAverage(vals)
      [] mergeType = "MERGE_MED"     -> mergeMedian(vals)
      [] mergeType = "MERGE_GEOMEAN" -> mergeGeoMean(vals)
      [] mergeType = "MERGE_MIN"     -> mergeMin(vals)
      [] mergeType = "MERGE_MAX"     -> mergeMax(vals)

-----------------------------------------------------------------------------
(***************************************************************************)
(* The mean by what it is, for the result task's properties to compare a  *)
(* table cell with.                                                        *)
(***************************************************************************)

\* Exact equality of two results: an exception only equals itself, and
\* (a.num / a.den) ^ (1 / a.root) = (b.num / b.den) ^ (1 / b.root)
SameValue(a, b) ==
    /\ a.exc = b.exc
    /\ a.num ^ b.root * b.den ^ a.root = b.num ^ a.root * a.den ^ b.root

RECURSIVE SumOf(_)
SumOf(vals) == IF vals = <<>> THEN 0 ELSE Head(vals) + SumOf(Tail(vals))

\* The arithmetic mean of a non-empty list of values
MeanOf(vals) == Real(SumOf(vals), Len(vals), 1)

=============================================================================
