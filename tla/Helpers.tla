------------------------------- MODULE Helpers -------------------------------
(***************************************************************************)
(* The helpers of src/utils.c that compute what the window shows of a song,  *)
(* over their inputs: the time label from a number of seconds, the columns   *)
(* from the tags of a file.  The state lets the inputs grow one at a time.   *)
(***************************************************************************)
EXTENDS Integers, Sequences, FiniteSetsExt

CONSTANTS
    Fields,                 \* the tags the list shows
    Keys, Lower, Size,      \* names of tags; each in lower case; its characters
    Values, NULL,
    Undefined,              \* what a call gives that wrote past an array
    MaxSeconds, MaxTags     \* bounds of the inputs

ASSUME HelpersAssumption ==
    /\ Lower \in [Keys -> Keys] /\ Size \in [Keys -> Nat] /\ Fields \subseteq Keys /\ NULL \notin Values
    /\ {MaxSeconds, MaxTags} \subseteq Nat

VARIABLES seconds, tags, opened     \* opened: the file could be

vars == <<seconds, tags, opened>>

-----------------------------------------------------------------------------
\* The remainder of C has the sign of the dividend.
Remainder(a, b) == IF a < 0 THEN -((-a) % b) ELSE a % b

Mod(a, b) ==
    LET Positive(x, y) == LET r == Remainder(x, y) IN IF r < 0 THEN r + y ELSE r
    IN  IF b < 0 THEN Positive(-a, -b) ELSE Positive(a, b)

Time(t) == <<t \div 60, Mod(t, 60)>>
Digits(n) == IF n < 10 THEN 1 ELSE IF n < 100 THEN 2 ELSE IF n < 1000 THEN 3 ELSE 4

Padded(n, to) == IF Digits(n) < to THEN to ELSE Digits(n)

\* Mutant of LabelLength: the minutes are padded to three digits.
LabelLengthPadded(total, pos) == Padded(Time(pos)[1], 3) + 9 + Padded(Time(total)[1], 3)

\* "%.2d:%.2d / %.2d:%.2d", the seconds taking two digits.
LabelLength(total, pos) == Padded(Time(pos)[1], 2) + 9 + Padded(Time(total)[1], 2)

-----------------------------------------------------------------------------
\* Mutant of Columns: the names are compared as they are.
ColumnsCased(ts) ==
    LET info[i \in 0 .. Len(ts)] ==
            [f \in Fields |-> IF i = 0 THEN NULL
                              ELSE IF ts[i].key = f THEN ts[i].value ELSE info[i - 1][f]]
    IN  info[Len(ts)]

\* A tag takes the place of an earlier one of the same name.
Columns(ts) ==
    LET info[i \in 0 .. Len(ts)] ==
            [f \in Fields |-> IF i = 0 THEN NULL
                              ELSE IF Lower[ts[i].key] = f THEN ts[i].value ELSE info[i - 1][f]]
    IN  info[Len(ts)]

\* The copy of the name, with its terminator, fits into key[50].
KeysFit(ts) == \A i \in 1 .. Len(ts) : Size[ts[i].key] + 1 <= 50

\* A file that cannot be opened gives a song without any of the columns.
ExtractMetaData(ok, ts) ==
    CASE ~ok -> [f \in Fields |-> NULL]
      [] ok /\ KeysFit(ts) -> Columns(ts)
      [] OTHER -> Undefined

-----------------------------------------------------------------------------
Init == seconds = 0 /\ tags = <<>> /\ opened \in BOOLEAN

Next ==
    \/ /\ tags = <<>> /\ seconds < MaxSeconds
       /\ seconds' = seconds + 1 /\ UNCHANGED <<tags, opened>>
    \/ /\ seconds = 0 /\ Len(tags) < MaxTags
       /\ \E k \in Keys, v \in Values : tags' = Append(tags, [key |-> k, value |-> v])
       /\ UNCHANGED <<seconds, opened>>

Spec == Init /\ [][Next]_vars

-----------------------------------------------------------------------------
\* The label of a song shorter than 100 minutes fits into the 14 bytes that hold
\* it, with its terminator.
LabelFits ==
    seconds < 6000 => \A p \in {0, seconds \div 2, seconds} : LabelLength(seconds, p) + 1 <= 14

\* Each column has the value of the last tag with its name, in whatever case, and is
\* null if there is none or the file cannot be opened; so it is for every file whose
\* tags all have names of less than 50 characters.
LastTagWins ==
    (opened => KeysFit(tags)) =>
        \A f \in Fields :
            LET named == {i \in 1 .. Len(tags) : Lower[tags[i].key] = f}
            IN  ExtractMetaData(opened, tags)[f] =
                    IF opened /\ named # {} THEN tags[Max(named)].value ELSE NULL
=============================================================================
