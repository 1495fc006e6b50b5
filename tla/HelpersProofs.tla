---------------------------- MODULE HelpersProofs ----------------------------
(* Proofs about the helpers: the arithmetic of the label for every argument, *)
(* the columns for every file's tags.                                       *)
EXTENDS Helpers, Induction, SequenceTheorems, TLAPS

LEMMA PositiveRemainder ==
    ASSUME NEW x \in Nat, NEW y \in Nat \ {0}
    PROVE  x % y \in 0 .. y - 1
  BY SMT

\* mod (utils.c:100) gives a residue of the divisor for every sign of both.
THEOREM ModInRange ==
    ASSUME NEW a \in Int, NEW b \in Int \ {0}
    PROVE  Mod(a, b) \in 0 .. (IF b < 0 THEN -b ELSE b) - 1
<1>1. ASSUME NEW x \in Int, NEW y \in Nat \ {0}
      PROVE  LET r == Remainder(x, y) IN (IF r < 0 THEN r + y ELSE r) \in 0 .. y - 1
  <2>1. CASE x < 0
    <3>1. (-x) % y \in 0 .. y - 1
      BY <2>1, PositiveRemainder
    <3> QED
      BY <2>1, <3>1 DEF Remainder
  <2>2. CASE x >= 0
    <3>1. x % y \in 0 .. y - 1
      BY <2>2, PositiveRemainder
    <3> QED
      BY <2>2, <3>1 DEF Remainder
  <2> QED
    BY <2>1, <2>2
<1>2. CASE b < 0
  BY <1>1, <1>2 DEF Mod
<1>3. CASE b > 0
  BY <1>1, <1>3 DEF Mod
<1> QED
  BY <1>2, <1>3

\* The label splits every time into its minutes and seconds (utils.c, song_time_to_str).
THEOREM TimeIsExact ==
    ASSUME NEW t \in Nat
    PROVE  /\ 60 * Time(t)[1] + Time(t)[2] = t
           /\ Time(t)[2] \in 0 .. 59
<1>1. Mod(t, 60) = t % 60
  <2>1. t % 60 \in 0 .. 59
    BY SMT
  <2> QED
    BY <2>1 DEF Mod, Remainder
<1> QED
  BY <1>1 DEF Time

\* The input that counts seconds is a natural number.
LEMMA SecondsInv == Spec => [](seconds \in Nat)
<1>1. Init => seconds \in Nat
  BY DEF Init
<1>2. seconds \in Nat /\ [Next]_vars => (seconds \in Nat)'
  BY DEF Next, vars
<1> QED
  BY <1>1, <1>2, PTL DEF Spec

\* The label of a song shorter than 100 minutes, at a position within it, has 13
\* characters.
LEMMA LabelHas13 ==
    ASSUME NEW total \in Nat, total <= 5999, NEW pos \in Nat, pos <= total
    PROVE  LabelLength(total, pos) = 13
<1>1. \A t \in Nat : t <= 5999 => t \div 60 \in 0 .. 99
  BY SMT
<1>2. \A n \in 0 .. 99 : Padded(n, 2) = 2
  BY DEF Padded, Digits
<1>3. pos <= 5999
  OBVIOUS
<1>4. Time(total)[1] = total \div 60 /\ Time(pos)[1] = pos \div 60
  BY DEF Time
<1>5. Padded(Time(total)[1], 2) = 2 /\ Padded(Time(pos)[1], 2) = 2
  BY <1>1, <1>2, <1>3, <1>4
<1> QED
  BY <1>5 DEF LabelLength

\* It fits into its 14 bytes (utils.c:111).
THEOREM LabelOfSongFits == Spec => []LabelFits
<1>1. seconds \in Nat => LabelFits
  <2> SUFFICES ASSUME seconds \in Nat, seconds < 6000,
                      NEW p \in {0, seconds \div 2, seconds}
               PROVE  LabelLength(seconds, p) + 1 <= 14
    BY DEF LabelFits
  <2>1. \A n \in Nat : n \div 2 \in Nat /\ n \div 2 <= n
    BY SMT
  <2>2. p \in Nat /\ p <= seconds
    BY <2>1
  <2>3. LabelLength(seconds, p) = 13
    BY <2>2, LabelHas13
  <2> QED
    BY <2>3
<1> QED
  BY <1>1, SecondsInv, PTL

-----------------------------------------------------------------------------
(* The tags                                                                 *)

Tags == Seq([key : Keys, value : Values])

\* g satisfies the recursive definition in Columns.
IsInfo(g, ts) ==
    g = [i \in 0 .. Len(ts) |->
          [f \in Fields |-> IF i = 0 THEN NULL
                            ELSE IF Lower[ts[i].key] = f THEN ts[i].value ELSE g[i - 1][f]]]

\* Its step.
Storing(ts) ==
    [n \in Nat |-> [info \in [Fields -> Values \cup {NULL}] |->
        [f \in Fields |-> IF n \in 1 .. Len(ts) /\ Lower[ts[n].key] = f THEN ts[n].value
                                                                      ELSE info[f]]]]

\* The recursive definition has a solution, so that it defines what it says.
LEMMA InfoIsDefined ==
    ASSUME NEW ts \in Tags
    PROVE  \E g : IsInfo(g, ts) /\ Columns(ts) = g[Len(ts)]
<1> DEFINE Info == [Fields -> Values \cup {NULL}]
           none == [f \in Fields |-> NULL]
<1>1. Len(ts) \in Nat /\ \A n \in 1 .. Len(ts) : ts[n].value \in Values
  <2>1. Len(ts) \in Nat
    BY DEF Tags
  <2>2. ASSUME NEW n \in 1 .. Len(ts) PROVE ts[n] \in [key : Keys, value : Values]
    BY ElementOfSeq DEF Tags
  <2> QED
    BY <2>1, <2>2
<1>2. none \in Info /\ Storing(ts) \in [Nat -> [Info -> Info]]
  BY <1>1 DEF Storing
<1>3. PICK g \in [0 .. Len(ts) -> Info] : IsRun(g, Len(ts), none, Storing(ts))
  <2> HIDE DEF none, Info
  <2> QED
    BY <1>1, <1>2, RunExists
<1>4. g[0] = none /\ \A n \in 1 .. Len(ts) : g[n] = Storing(ts)[n][g[n - 1]]
  <2> HIDE DEF none
  <2> QED
    BY <1>1, <1>3, RunValues
<1>5. \A n \in 1 .. Len(ts) :
        g[n] = [f \in Fields |-> IF Lower[ts[n].key] = f THEN ts[n].value ELSE g[n - 1][f]]
  <2> TAKE n \in 1 .. Len(ts)
  <2>1. n \in Nat /\ g[n - 1] \in Info
    BY <1>1, <1>3
  <2>2. Storing(ts)[n][g[n - 1]] =
          [f \in Fields |-> IF Lower[ts[n].key] = f THEN ts[n].value ELSE g[n - 1][f]]
    BY <2>1 DEF Storing
  <2> QED
    BY <1>4, <2>2
<1>6. IsInfo(g, ts)
  <2>1. \A i \in 0 .. Len(ts) :
          g[i] = [f \in Fields |-> IF i = 0 THEN NULL
                                   ELSE IF Lower[ts[i].key] = f THEN ts[i].value ELSE g[i - 1][f]]
    <3> TAKE i \in 0 .. Len(ts)
    <3>1. CASE i = 0
      BY <1>4, <3>1
    <3>2. CASE i # 0
      <4>1. i \in 1 .. Len(ts)
        BY <1>1, <3>2
      <4> QED
        BY <1>5, <3>2, <4>1
    <3> QED
      BY <3>1, <3>2
  <2> QED
    BY <1>3, <2>1 DEF IsInfo
<1>7. IsInfo(CHOOSE info : IsInfo(info, ts), ts)
  BY <1>6
<1>8. Columns(ts) = (CHOOSE info : IsInfo(info, ts))[Len(ts)]
  BY DEF Columns, IsInfo
<1> QED
  BY <1>7, <1>8

\* After n tags a field has the value of the last of them with its name.
LastOf(ts, n, f, v) ==
    \/ v = NULL /\ \A i \in 1 .. n : Lower[ts[i].key] # f
    \/ \E i \in 1 .. n :
         /\ Lower[ts[i].key] = f /\ v = ts[i].value
         /\ \A j \in i + 1 .. n : Lower[ts[j].key] # f

\* So it is for every list of tags (utils.c:120).
LEMMA LastIsTaken ==
    ASSUME NEW ts \in Tags
    PROVE  \A f \in Fields : LastOf(ts, Len(ts), f, Columns(ts)[f])
<1>1. PICK g : IsInfo(g, ts) /\ Columns(ts) = g[Len(ts)]
  BY InfoIsDefined
<1>2. Len(ts) \in Nat
  BY DEF Tags
<1>3. /\ \A f \in Fields : g[0][f] = NULL
      /\ \A n \in 1 .. Len(ts), f \in Fields :
           g[n][f] = IF Lower[ts[n].key] = f THEN ts[n].value ELSE g[n - 1][f]
  BY <1>1, <1>2 DEF IsInfo
<1> DEFINE S == {n \in 0 .. Len(ts) : \A f \in Fields : LastOf(ts, n, f, g[n][f])}
<1>4. 0 \in S
  BY <1>2, <1>3 DEF LastOf
<1>5. ASSUME NEW n \in 0 .. Len(ts), n < Len(ts) /\ n \in S PROVE n + 1 \in S
  <2>1. n + 1 \in 1 .. Len(ts) /\ n + 1 \in 0 .. Len(ts) /\ (n + 1) - 1 = n
    BY <1>2, <1>5
  <2>2. ASSUME NEW f \in Fields PROVE LastOf(ts, n + 1, f, g[n + 1][f])
    <3>1. LastOf(ts, n, f, g[n][f])
      BY <1>5
    <3>2. CASE Lower[ts[n + 1].key] = f
      <4>1. g[n + 1][f] = ts[n + 1].value
        BY <1>3, <2>1, <3>2
      <4>2. n + 1 \in 1 .. n + 1 /\ (n + 1) + 1 .. n + 1 = {}
        BY <2>1
      <4> QED
        BY <3>2, <4>1, <4>2 DEF LastOf
    <3>3. CASE Lower[ts[n + 1].key] # f
      <4>1. g[n + 1][f] = g[n][f]
        BY <1>3, <2>1, <3>3
      <4>2. /\ \A i \in 1 .. n + 1 : i \in 1 .. n \/ i = n + 1
            /\ \A i \in 1 .. n : i \in 1 .. n + 1
            /\ \A i \in 1 .. n : \A j \in i + 1 .. n + 1 : j \in i + 1 .. n \/ j = n + 1
        BY <2>1
      <4> QED
        BY <3>1, <3>3, <4>1, <4>2 DEF LastOf
    <3> QED
      BY <3>2, <3>3
  <2> QED
    BY <2>1, <2>2
<1>6. 0 .. Len(ts) \subseteq S
  <2> HIDE DEF S
  <2> QED
    BY <1>2, <1>4, <1>5, SetInductionUpTo
<1>7. Len(ts) \in S
  BY <1>2, <1>6
<1> QED
  BY <1>1, <1>7

LEMMA TagsInv == Spec => [](tags \in Tags)
<1>1. Init => tags \in Tags
  BY DEF Init, Tags
<1>2. tags \in Tags /\ [Next]_vars => (tags \in Tags)'
  <2> SUFFICES ASSUME tags \in Tags, [Next]_vars PROVE tags' \in Tags
    OBVIOUS
  <2>1. ASSUME NEW k \in Keys, NEW v \in Values,
               tags' = Append(tags, [key |-> k, value |-> v])
        PROVE  tags' \in Tags
    BY <2>1, AppendProperties DEF Tags
  <2>2. CASE UNCHANGED tags
    BY <2>2
  <2> QED
    BY <2>1, <2>2 DEF Next, vars
<1> QED
  BY <1>1, <1>2, PTL DEF Spec

\* The tags with the name of a field.
Named(f) == {i \in 1 .. Len(tags) : Lower[tags[i].key] = f}

\* The last tag of a name is the one with the greatest index.
LEMMA LastIsGreatest ==
    ASSUME tags \in Tags, NEW f \in Fields
    PROVE  Columns(tags)[f] =
             IF Named(f) = {} THEN NULL ELSE tags[Max(Named(f))].value
<1> DEFINE v == Columns(tags)[f]
<1>1. Len(tags) \in Nat
  BY DEF Tags
<1>2. LastOf(tags, Len(tags), f, v)
  BY LastIsTaken
<1> HIDE DEF v
<1>3. CASE Named(f) = {}
  BY <1>2, <1>3 DEF LastOf, Named, v
<1>4. CASE Named(f) # {}
  <2>1. PICK i \in 1 .. Len(tags) :
          /\ Lower[tags[i].key] = f /\ v = tags[i].value
          /\ \A j \in i + 1 .. Len(tags) : Lower[tags[j].key] # f
    BY <1>2, <1>4 DEF LastOf, Named
  <2>2. i \in Named(f) /\ \A j \in Named(f) : i >= j
    BY <1>1, <2>1 DEF Named
  <2>3. \A k \in Named(f) : (\A j \in Named(f) : k >= j) => k = i
    BY <1>1, <2>1, <2>2 DEF Named
  <2>4. Max(Named(f)) = i
    BY <2>2, <2>3 DEF Max
  <2> QED
    BY <1>4, <2>1, <2>4 DEF v
<1> QED
  BY <1>3, <1>4

\* For every list of tags, of any length, with names that fit key[50], each column has
\* the value of its last tag, in whatever case it is written; that of a file that cannot
\* be opened has none (utils.c:120).
THEOREM LastTagIsTaken == Spec => []LastTagWins
<1>1. tags \in Tags => LastTagWins
  <2> SUFFICES ASSUME tags \in Tags, opened => KeysFit(tags), NEW f \in Fields
               PROVE  ExtractMetaData(opened, tags)[f] =
                        IF opened /\ Named(f) # {} THEN tags[Max(Named(f))].value ELSE NULL
    BY DEF LastTagWins, Named
  <2>1. CASE opened
    <3>1. ExtractMetaData(opened, tags) = Columns(tags)
      BY <2>1 DEF ExtractMetaData
    <3> QED
      BY <2>1, <3>1, LastIsGreatest
  <2>2. CASE ~opened
    BY <2>2 DEF ExtractMetaData
  <2> QED
    BY <2>1, <2>2
<1> QED
  BY <1>1, TagsInv, PTL
=============================================================================
