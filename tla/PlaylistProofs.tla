---------------------------- MODULE PlaylistProofs ----------------------------
(***************************************************************************)
(* What holds of the song list for any files and any number of songs: an    *)
(* inductive invariant of Playlist, and the properties it gives.            *)
(***************************************************************************)
EXTENDS Playlist, TLAPS, FiniteSetTheorems, FunctionTheorems, SequenceTheorems

\* The next id is larger than every id given; rows about to leave the list are of
\* songs that left the table; a row being added is the last, and empty.
TableInv ==
    /\ last_rowid <= last_id
    /\ \A k \in 1 .. Len(list) : list[k].id <= last_id
    /\ \A i \in DOMAIN db : \E k \in 1 .. Len(list) : list[k].id = i
    /\ \A p \in refs : list[p].id \notin DOMAIN db
    /\ pc["gtk"] \notin {"remove_db", "remove_row"} => refs = {}
    /\ pc["gtk"] # "remove_db" => todo = {}
    /\ pc["gtk"] = "remove_db" => todo # {}
    /\ pc["gtk"] = "set" => list # <<>> /\ row["gtk"].file \in Files /\ list[Len(list)] = NoRow
                              /\ row["gtk"].index = Len(list)

\* Rows that are complete and not about to leave.
Whole(k) == k \notin refs /\ (pc["gtk"] = "set" => k < Len(list))

\* Unless an insert failed, they are the songs of the table, in order.
RowsInv ==
    ~failed =>
        /\ \A k \in 1 .. Len(list) : Whole(k) =>
              list[k].id \in DOMAIN db /\ db[list[k].id] = list[k].file
        /\ \A j, k \in 1 .. Len(list) :
              j < k /\ (pc["gtk"] = "set" => k < Len(list)) => list[j].id < list[k].id

\* Rows are numbered, but while some are taken out.
IndexInv ==
    pc["gtk"] # "remove_row" =>
        \A k \in 1 .. Len(list) : (pc["gtk"] = "set" => k < Len(list)) => list[k].index = k

\* A scroll stays on the list, unless rows left it while the watchdog was at work.
Undisturbed(t) == t = "gtk" \/ ~shrunk
PathInv ==
    \A t \in Threads :
        /\ pc[t] = "move" => path[t] <= MaxRows
        /\ pc[t] = "row" => path[t] >= 1
        /\ Undisturbed(t) =>
              /\ pc[t] \in {"move", "row"} => path[t] <= Len(list)
              /\ pc[t] = "place" => list # <<>>
              /\ pc[t] # "undefined"
    /\ pc["gtk"] \notin {"woken", "undefined"}
    /\ pc["dog"] \in {"idle", "woken", "undefined"} \cup ScrollPcs

\* Two handlers under way have met.
RaceInv == (\A t \in Threads : pc[t] # "idle") => raced = Threads

\* What a handler that has met no other knows.
LoneInv ==
    \A t \in Threads \ raced :
        /\ pc[t] = "move" => path[t] = cursor
        /\ pc[t] = "place" => path[t] = Target(dir[t], cursor, Len(list))
        /\ pc[t] = "load" /\ ~failed => row[t].id \in DOMAIN db /\ db[row[t].id] = row[t].file
        /\ t = "dog" /\ pc[t] # "idle" => ~shrunk

\* The labels are right, or a handler is about to set them.
Labelling(t) == pc[t] \in {"status", "button", "title"}
TitleRight(f) == f = IF playing_status = "STOP" THEN NoFile ELSE loaded
ButtonRight == button = IF playing_status = "PLAYING" THEN "pause" ELSE "play"
LabelInv ==
    ~failed =>
        /\ settled /\ (\A t \in Threads : ~Labelling(t)) =>
              TitleRight(title) /\ (pc["gtk"] # "pause_label" => ButtonRight)
        /\ \A t \in Threads \ raced :
              /\ pc[t] = "status" => row[t].file = loaded
              /\ pc[t] = "button" => TitleRight(row[t].file)
              /\ pc[t] = "title" => TitleRight(row[t].file) /\ ButtonRight

LInv ==
    /\ TypeOK
    /\ TableInv
    /\ RowsInv
    /\ IndexInv
    /\ PathInv
    /\ RaceInv
    /\ LoneInv
    /\ LabelInv

-------------------------------------------------------------------------------
(* The operators the list is built with.                                     *)

\* The ranks of a finite set of numbers number it: Nth(S, k) exists, grows with k,
\* and reaches every element.
LEMMA NthFacts ==
    ASSUME NEW S, NEW n \in Nat, S \subseteq 1 .. n
    PROVE  /\ IsFiniteSet(S) /\ Cardinality(S) \in Nat
           /\ \A k \in 1 .. Cardinality(S) : Nth(S, k) \in S
           /\ \A j, k \in 1 .. Cardinality(S) : j < k => Nth(S, j) < Nth(S, k)
           /\ \A i \in S : \E k \in 1 .. Cardinality(S) : Nth(S, k) = i
<1> DEFINE c == Cardinality(S)
           Below(i) == {j \in S : j <= i}
           rank == [i \in S |-> Cardinality(Below(i))]
<1>1. IsFiniteSet(S) /\ c \in Nat
  <2>1. IsFiniteSet(1 .. n)
    BY FS_Interval
  <2>2. IsFiniteSet(S)
    BY <2>1, FS_Subset
  <2> QED
    BY <2>2, FS_CardinalityType
<1>2. ASSUME NEW i \in S
      PROVE  IsFiniteSet(Below(i)) /\ Cardinality(Below(i)) \in 1 .. c
  <2>1. Below(i) \in SUBSET S /\ i \in Below(i)
    OBVIOUS
  <2>2. IsFiniteSet(Below(i)) /\ Cardinality(Below(i)) <= c /\ Cardinality(Below(i)) \in Nat
    BY <1>1, <2>1, FS_Subset, FS_CardinalityType
  <2>3. Cardinality(Below(i)) # 0
    BY <2>1, <2>2, FS_EmptySet
  <2> QED
    BY <1>1, <2>2, <2>3
<1>3. ASSUME NEW i \in S, NEW j \in S, i < j
      PROVE  rank[i] < rank[j]
  <2>0. S \subseteq Int
    OBVIOUS
  <2>1. Below(i) \in SUBSET Below(j)
    <3>1. ASSUME NEW m \in S, m <= i
          PROVE  m <= j
      BY <1>3, <2>0, <3>1
    <3> QED
      BY <3>1
  <2>2. j \in Below(j) /\ j \notin Below(i)
    BY <1>3
  <2>3. Cardinality(Below(i)) <= Cardinality(Below(j))
        /\ Cardinality(Below(i)) # Cardinality(Below(j))
    BY <1>2, <2>1, <2>2, FS_Subset
  <2> QED
    BY <1>2, <2>3
<1>4. rank \in Injection(S, 1 .. c)
  <2>1. rank \in [S -> 1 .. c]
    BY <1>2
  <2>2. \A i, j \in S : rank[i] = rank[j] => i = j
    BY <1>2, <1>3
  <2> QED
    BY <2>1, <2>2 DEF Injection, IsInjective
<1>5. rank \in Surjection(S, 1 .. c)
  <2>1. IsFiniteSet(1 .. c) /\ Cardinality(1 .. c) = c
    BY <1>1, FS_Interval
  <2> QED
    BY <1>4, <2>1, FS_Injection
<1>6. ASSUME NEW k \in 1 .. c
      PROVE  Nth(S, k) \in S /\ rank[Nth(S, k)] = k
  <2>1. PICK i \in S : rank[i] = k
    BY <1>5 DEF Surjection
  <2> QED
    BY <2>1 DEF Nth
<1>7. \A k \in 1 .. c : Nth(S, k) \in S /\ rank[Nth(S, k)] = k
  BY <1>6
<1>8. /\ \A i, j \in S : i < j => rank[i] < rank[j]
      /\ \A i \in S : rank[i] \in 1 .. c
  BY <1>2, <1>3
<1>9. S \subseteq Int /\ c \in Int
  BY <1>1
<1> HIDE DEF rank, Below, c
<1>10. ASSUME NEW j \in 1 .. c, NEW k \in 1 .. c, j < k
       PROVE  Nth(S, j) < Nth(S, k)
  <2> DEFINE x == Nth(S, j)  y == Nth(S, k)
  <2>1. x \in S /\ y \in S /\ rank[x] = j /\ rank[y] = k
    BY <1>7
  <2> HIDE DEF x, y
  <2>2. ~(y < x) /\ x # y
    BY <1>8, <1>9, <1>10, <2>1
  <2>3. x < y
    BY <1>9, <2>1, <2>2
  <2> QED
    BY <2>3 DEF x, y
<1>11. ASSUME NEW i \in S
       PROVE  \E k \in 1 .. c : Nth(S, k) = i
  <2> DEFINE y == Nth(S, rank[i])
  <2>1. rank[i] \in 1 .. c /\ y \in S /\ rank[y] = rank[i]
    BY <1>7, <1>8
  <2>2. y = i
    <3> HIDE DEF y
    <3>1. ~(y < i) /\ ~(i < y)
      BY <1>8, <1>9, <2>1
    <3> QED
      BY <1>9, <2>1, <3>1
  <2> QED
    BY <2>1, <2>2
<1> QED
  BY <1>1, <1>7, <1>10, <1>11 DEF c

\* A sequence without its p-th element.
LEMMA RemoveAtFacts ==
    ASSUME NEW S, NEW s \in Seq(S), NEW p \in 1 .. Len(s)
    PROVE  /\ RemoveAt(s, p) \in Seq(S) /\ Len(RemoveAt(s, p)) = Len(s) - 1
           /\ \A k \in 1 .. Len(s) - 1 : RemoveAt(s, p)[k] = IF k < p THEN s[k] ELSE s[k + 1]
<1> DEFINE a == SubSeq(s, 1, p - 1)
           b == SubSeq(s, p + 1, Len(s))
<1>1. Len(s) \in Nat /\ p \in Int /\ 1 <= p /\ p <= Len(s)
  OBVIOUS
<1>2. a \in Seq(S) /\ Len(a) = p - 1 /\ \A k \in 1 .. p - 1 : a[k] = s[k]
  BY <1>1
<1>3. b \in Seq(S) /\ Len(b) = Len(s) - p /\ \A k \in 1 .. Len(s) - p : b[k] = s[p + k]
  BY <1>1
<1>4. RemoveAt(s, p) = a \o b
  BY DEF RemoveAt
<1> HIDE DEF a, b
<1>5. /\ a \o b \in Seq(S)
      /\ Len(a \o b) = Len(a) + Len(b)
      /\ \A k \in 1 .. Len(a) + Len(b) : (a \o b)[k] = IF k <= Len(a) THEN a[k] ELSE b[k - Len(a)]
  BY <1>2, <1>3, ConcatProperties
<1>6. Len(a) + Len(b) = Len(s) - 1
  BY <1>1, <1>2, <1>3
<1>7. ASSUME NEW k \in 1 .. Len(s) - 1
      PROVE  (a \o b)[k] = IF k < p THEN s[k] ELSE s[k + 1]
  <2>1. CASE k < p
    <3>1. (a \o b)[k] = a[k] /\ k \in 1 .. p - 1
      BY <1>1, <1>2, <1>5, <1>6, <2>1
    <3> QED
      BY <1>2, <2>1, <3>1
  <2>2. CASE ~(k < p)
    <3>1. (a \o b)[k] = b[k - (p - 1)]
      BY <1>1, <1>2, <1>5, <1>6, <2>2
    <3>2. k - (p - 1) \in 1 .. Len(s) - p /\ p + (k - (p - 1)) = k + 1
      BY <1>1, <2>2
    <3>3. b[k - (p - 1)] = s[p + (k - (p - 1))]
      BY <1>3, <3>2
    <3> QED
      BY <2>2, <3>1, <3>2, <3>3
  <2> QED
    BY <2>1, <2>2
<1> QED
  BY <1>4, <1>5, <1>6, <1>7

\* What the operations make of the list.
LEMMA AddSongFacts ==
    ASSUME TypeOK, NEW f, AddSong(f)
    PROVE  /\ list' \in Seq(Row) /\ Len(list') = Len(list) + 1 /\ Len(list') <= MaxRows
           /\ \A k \in 1 .. Len(list) : list'[k] = list[k]
           /\ list'[Len(list) + 1] = NoRow
<1>1. NoRow \in Row /\ Len(list) \in Nat /\ Len(list) < MaxRows /\ list \in Seq(Row)
  BY ListAssumption DEF TypeOK, ListTypeOK, NoRow, Row, Ids, AddSong
<1>2. list' = Append(list, NoRow)
  BY DEF AddSong
<1> QED
  BY <1>1, <1>2, AppendProperties, ListAssumption

LEMMA SetRowFacts ==
    ASSUME TypeOK, TableInv, NEW id \in Ids, SetRow(id)
    PROVE  /\ list' \in Seq(Row) /\ Len(list') = Len(list) /\ Len(list) \in Nat /\ Len(list) >= 1
           /\ \A k \in 1 .. Len(list) - 1 : list'[k] = list[k]
           /\ list'[Len(list)] = [id |-> id, file |-> row["gtk"].file, index |-> Len(list)]
           /\ row["gtk"].file \in Files /\ list[Len(list)] = NoRow
<1>1. /\ list \in Seq(Row) /\ list # <<>> /\ row["gtk"] \in Row /\ Len(list) <= MaxRows
      /\ row["gtk"].index = Len(list) /\ row["gtk"].file \in Files /\ list[Len(list)] = NoRow
  BY DEF TypeOK, ListTypeOK, ThreadTypeOK, TableInv, SetRow, Goto, Threads
<1>2. list' = [list EXCEPT ![Len(list)] = [row["gtk"] EXCEPT !.id = id]]
  BY DEF SetRow
<1>3. [row["gtk"] EXCEPT !.id = id] = [id |-> id, file |-> row["gtk"].file, index |-> Len(list)]
      /\ [row["gtk"] EXCEPT !.id = id] \in Row
  BY <1>1 DEF Row
<1>4. Len(list) \in Nat /\ Len(list) >= 1
  BY <1>1, EmptySeq
<1> QED
  BY <1>1, <1>2, <1>3, <1>4, ExceptSeq

LEMMA RemoveFacts ==
    ASSUME TypeOK, RemoveRow
    PROVE  \E p \in refs :
             /\ p \in 1 .. Len(list) /\ Len(list) \in Nat
             /\ list' \in Seq(Row) /\ Len(list') = Len(list) - 1
             /\ \A k \in 1 .. Len(list) - 1 : list'[k] = IF k < p THEN list[k] ELSE list[k + 1]
             /\ \A q \in refs : p <= q
             /\ refs' = {q - 1 : q \in refs \ {p}}
             /\ cursor' \in CursorAfter(cursor, p, Len(list) - 1)
<1>1. PICK p \in refs : /\ IsFirst(p, refs)
                        /\ list' = RemoveAt(list, p)
                        /\ refs' = {q - 1 : q \in refs \ {p}}
                        /\ cursor' \in CursorAfter(cursor, p, Len(list) - 1)
  BY DEF RemoveRow
<1>2. list \in Seq(Row) /\ p \in 1 .. Len(list)
  BY DEF TypeOK, ListTypeOK
<1>3. /\ RemoveAt(list, p) \in Seq(Row) /\ Len(RemoveAt(list, p)) = Len(list) - 1
      /\ \A k \in 1 .. Len(list) - 1 :
            RemoveAt(list, p)[k] = IF k < p THEN list[k] ELSE list[k + 1]
  BY <1>2, RemoveAtFacts
<1>4. Len(list) \in Nat /\ \A q \in refs : p <= q
  BY <1>1, <1>2, LenProperties DEF IsFirst
<1> QED
  BY <1>1, <1>2, <1>3, <1>4

LEMMA ReIndexFacts ==
    ASSUME TypeOK, ReIndex
    PROVE  /\ list' \in Seq(Row) /\ Len(list') = Len(list) /\ Len(list) \in Nat
           /\ \A k \in 1 .. Len(list) :
                list'[k] = [id |-> list[k].id, file |-> list[k].file, index |-> k]
<1>1. list \in Seq(Row) /\ Len(list) \in Nat /\ Len(list) <= MaxRows
  BY DEF TypeOK, ListTypeOK
<1>2. list' = [k \in 1 .. Len(list) |-> [list[k] EXCEPT !.index = k]]
  BY DEF ReIndex
<1>3. ASSUME NEW k \in 1 .. Len(list)
      PROVE  /\ [list[k] EXCEPT !.index = k]
                  = [id |-> list[k].id, file |-> list[k].file, index |-> k]
             /\ [list[k] EXCEPT !.index = k] \in Row
  <2>1. list[k] \in Row /\ k \in 0 .. MaxRows
    BY <1>1, ListAssumption
  <2> QED
    BY <2>1 DEF Row
<1>4. list' \in [1 .. Len(list) -> Row]
  BY <1>2, <1>3
<1>5. list' \in Seq(Row) /\ Len(list') = Len(list)
  BY <1>1, <1>4, SeqDef, LenProperties
<1> QED
  BY <1>1, <1>2, <1>3, <1>5

-------------------------------------------------------------------------------
(* The invariant is inductive: one lemma for each of its parts.              *)

\* A step that is not a restart; t scrolls.
Step(t) == ListStep \/ ButtonPressed \/ WakeUp \/ Stopping \/ ScrollStep(t)

\* A row that is being added disturbs neither the others nor their numbers.
LEMMA AddedRow ==
    ASSUME LInv, NEW f \in Files, AddSong(f)
    PROVE  IndexInv' /\ RowsInv'
<1> USE ListAssumption
        DEF LInv, TypeOK, Threads, Directions, Ids, Positions, Busy, Goto, Scroll,
            ScrollPcs, Pcs, REPEAT_ALL, REPEAT_SINGLE, NORMAL, dbVars, listVars,
            playVars, labelVars, localVars, removeVars, Whole
<1>1. /\ Len(list) \in Nat /\ Len(list') = Len(list) + 1
      /\ \A k \in 1 .. Len(list) : list'[k] = list[k]
  BY AddSongFacts, LenProperties DEF ListTypeOK
<1>2. pc["gtk"] = "idle" /\ pc'["gtk"] = "set" /\ refs = {} /\ refs' = refs
      /\ db' = db /\ failed' = failed
  BY DEF AddSong, ThreadTypeOK, TableInv
<1>3. IndexInv'
  BY <1>1, <1>2 DEF IndexInv
<1>4. RowsInv'
  BY <1>1, <1>2 DEF RowsInv
<1> QED
  BY <1>3, <1>4

\* The row gets the song's id and number.
LEMMA SetRowKeeps ==
    ASSUME LInv, NEW id \in Ids, SetRow(id),
           failed' \/ /\ failed' = failed /\ id = last_id + 1
                      /\ db' = [i \in DOMAIN db \cup {id} |->
                                   IF i = id THEN row["gtk"].file ELSE db[i]]
    PROVE  IndexInv' /\ RowsInv'
<1> USE ListAssumption
        DEF LInv, TypeOK, Threads, Directions, Ids, Positions, Busy, Goto, Scroll,
            ScrollPcs, Pcs, REPEAT_ALL, REPEAT_SINGLE, NORMAL, dbVars, listVars,
            playVars, labelVars, localVars, removeVars, Whole
<1>1. /\ Len(list') = Len(list) /\ Len(list) \in Nat /\ Len(list) >= 1
      /\ \A k \in 1 .. Len(list) - 1 : list'[k] = list[k]
      /\ list'[Len(list)] = [id |-> id, file |-> row["gtk"].file, index |-> Len(list)]
  BY SetRowFacts
<1>2. /\ list'[Len(list)].id = id /\ list'[Len(list)].file = row["gtk"].file
      /\ list'[Len(list)].index = Len(list)
  BY <1>1
<1>3. pc["gtk"] = "set" /\ pc'["gtk"] = "idle" /\ refs = {} /\ refs' = refs
  BY DEF SetRow, ThreadTypeOK, TableInv
<1>4. IndexInv'
  BY <1>1, <1>2, <1>3 DEF IndexInv
<1>5. RowsInv'
  <2>1. CASE ~failed'
    <3>1. ~failed /\ id = last_id + 1 /\ last_id \in Nat
          /\ db' = [i \in DOMAIN db \cup {id} |-> IF i = id THEN row["gtk"].file ELSE db[i]]
      BY <2>1 DEF DbTypeOK, PlayTypeOK
    <3>2. ASSUME NEW k \in 1 .. Len(list), k < Len(list)
          PROVE  list[k].id \in DOMAIN db /\ db[list[k].id] = list[k].file
                 /\ list[k].id \in 1 .. last_id
      BY <1>3, <3>1, <3>2 DEF RowsInv, DbTypeOK
    <3>3. \A k \in 1 .. Len(list') :
            list'[k].id \in DOMAIN db' /\ db'[list'[k].id] = list'[k].file
      BY <1>1, <1>2, <3>1, <3>2
    <3>4. \A j, k \in 1 .. Len(list') : j < k => list'[j].id < list'[k].id
      BY <1>1, <1>2, <1>3, <3>1, <3>2 DEF RowsInv
    <3> QED
      BY <3>3, <3>4 DEF RowsInv
  <2> QED
    BY <2>1 DEF RowsInv
<1> QED
  BY <1>4, <1>5

LEMMA InsertedRow ==
    ASSUME LInv, Insert \/ InsertFails
    PROVE  IndexInv' /\ RowsInv'
<1> USE ListAssumption DEF LInv, TypeOK, Ids
<1>1. CASE Insert
  <2>1. /\ SetRow(last_id') /\ last_id' \in Ids /\ failed' = failed /\ last_id' = last_id + 1
        /\ db' = [i \in DOMAIN db \cup {last_id'} |->
                      IF i = last_id' THEN row["gtk"].file ELSE db[i]]
    BY <1>1 DEF Insert, DbTypeOK
  <2> QED
    BY SetRowKeeps, <2>1
<1>2. CASE InsertFails
  <2>1. SetRow(last_rowid) /\ last_rowid \in Ids /\ failed'
    BY <1>2 DEF InsertFails, DbTypeOK
  <2> QED
    BY SetRowKeeps, <2>1
<1> QED
  BY <1>1, <1>2

\* The table keeps its type.
LEMMA DbTypeOKKept ==
    ASSUME LInv, NEW t \in Threads, Step(t)
    PROVE  DbTypeOK'
<1> USE ListAssumption
        DEF LInv, TypeOK, Threads, Directions, Ids, Positions, Busy, Goto, Scroll,
            ScrollPcs, Pcs, REPEAT_ALL, REPEAT_SINGLE, NORMAL, dbVars, listVars,
            playVars, labelVars, localVars, removeVars
<1>1. CASE \E f \in Files : AddSong(f)
  BY <1>1 DEF DbTypeOK, ListTypeOK, ThreadTypeOK, TableInv, AddSong, Row, NoRow
<1>2. CASE Insert
  BY <1>2 DEF DbTypeOK, ListTypeOK, ThreadTypeOK, TableInv, Insert, SetRow, Row, NoRow
<1>3. CASE InsertFails
  BY <1>3 DEF DbTypeOK, ListTypeOK, ThreadTypeOK, TableInv, InsertFails, SetRow, Row, NoRow
<1>4. CASE \E selected \in SUBSET (1 .. Len(list)) : RemoveFiles(selected)
  BY <1>4 DEF DbTypeOK, ListTypeOK, ThreadTypeOK, TableInv, RemoveFiles, Row, NoRow
<1>5. CASE RemoveFromDb
  <2>1. PICK p \in todo : db' = [k \in DOMAIN db \ {list[p].id} |-> db[k]]
    BY <1>5 DEF RemoveFromDb
  <2> QED
    BY <1>5, <2>1 DEF RemoveFromDb, DbTypeOK
<1>6. CASE RemoveRow
  BY <1>6 DEF DbTypeOK, ListTypeOK, ThreadTypeOK, TableInv, RemoveRow, Row, NoRow
<1>7. CASE ReIndex
  BY <1>7 DEF DbTypeOK, ListTypeOK, ThreadTypeOK, TableInv, ReIndex, Row, NoRow
<1>8. CASE \/ (\E k \in 1 .. Len(list) : SelectRow(k))
          \/ RowActivated
          \/ NextButton
          \/ PreviousButton
          \/ PlayButton
          \/ Stopping
  BY <1>8 DEF DbTypeOK, ListTypeOK, ThreadTypeOK, TableInv, SelectRow, RowActivated,
              NextButton, PreviousButton, PlayButton, Stopping, Row, NoRow
<1>9. CASE PauseButton \/ StopButton \/ LoopButton \/ WakeUp
  BY <1>9 DEF DbTypeOK, ListTypeOK, ThreadTypeOK, TableInv, PauseButton, StopButton,
              LoopButton, WakeUp, Row, NoRow
<1>10. CASE Move(t) \/ MoveNowhere(t) \/ Place(t)
  BY <1>10 DEF DbTypeOK, ListTypeOK, ThreadTypeOK, TableInv, Move, MoveNowhere, Place, Row,
               NoRow
<1>11. CASE OffTheList(t) \/ ReadRow(t)
  BY <1>11 DEF DbTypeOK, ListTypeOK, ThreadTypeOK, TableInv, OffTheList, ReadRow, Row, NoRow
<1>12. CASE Load(t) \/ StatusPlaying(t) \/ ButtonLabel(t) \/ StateLabel(t)
  BY <1>12 DEF DbTypeOK, ListTypeOK, ThreadTypeOK, TableInv, Load, StatusPlaying,
               ButtonLabel, StateLabel, Row, NoRow
<1> QED
  BY <1>1, <1>2, <1>3, <1>4, <1>5, <1>6, <1>7, <1>8, <1>9, <1>10, <1>11, <1>12
  DEF Step, ListStep, ButtonPressed, ScrollStep

\* The list, its cursor and the rows to remove keep theirs.
LEMMA ListTypeOKKept ==
    ASSUME LInv, NEW t \in Threads, Step(t)
    PROVE  ListTypeOK'
<1> USE ListAssumption
        DEF LInv, TypeOK, Threads, Directions, Ids, Positions, Busy, Goto, Scroll,
            ScrollPcs, Pcs, REPEAT_ALL, REPEAT_SINGLE, NORMAL, dbVars, listVars,
            playVars, labelVars, localVars, removeVars
<1>1. CASE \E f \in Files : AddSong(f)
  BY <1>1 DEF DbTypeOK, ListTypeOK, ThreadTypeOK, TableInv, PathInv, AddSong, Row, NoRow
<1>2. CASE Insert
  <2>1. SetRow(last_id') /\ last_id' \in Ids
    BY <1>2 DEF Insert, DbTypeOK
  <2> QED
    BY <2>1, SetRowFacts DEF SetRow, ListTypeOK
<1>3. CASE InsertFails
  <2>1. SetRow(last_rowid) /\ last_rowid \in Ids
    BY <1>3 DEF InsertFails, DbTypeOK
  <2> QED
    BY <2>1, SetRowFacts DEF SetRow, ListTypeOK
<1>4. CASE \E selected \in SUBSET (1 .. Len(list)) : RemoveFiles(selected)
  BY <1>4 DEF DbTypeOK, ListTypeOK, ThreadTypeOK, TableInv, PathInv, RemoveFiles, Row, NoRow
<1>5. CASE RemoveFromDb
  BY <1>5 DEF DbTypeOK, ListTypeOK, ThreadTypeOK, TableInv, PathInv, RemoveFromDb, Row,
              NoRow
<1>6. CASE RemoveRow
  <2>1. PICK p \in refs :
             /\ p \in 1 .. Len(list) /\ Len(list) \in Nat
             /\ list' \in Seq(Row) /\ Len(list') = Len(list) - 1
             /\ \A q \in refs : p <= q
             /\ refs' = {q - 1 : q \in refs \ {p}}
             /\ cursor' \in CursorAfter(cursor, p, Len(list) - 1)
    BY <1>6, RemoveFacts
  <2>2. cursor' \in 0 .. Len(list')
    BY <2>1 DEF ListTypeOK, CursorAfter
  <2>3. refs' \subseteq 1 .. Len(list')
    BY <2>1 DEF ListTypeOK
  <2>4. todo' = {}
    BY <1>6 DEF RemoveRow, TableInv, ThreadTypeOK
  <2> QED
    BY <2>1, <2>2, <2>3, <2>4 DEF ListTypeOK
<1>7. CASE ReIndex
  BY <1>7, ReIndexFacts DEF ReIndex, ListTypeOK
<1>8. CASE \E k \in 1 .. Len(list) : SelectRow(k)
  <2>1. PICK k \in 1 .. Len(list) : cursor' = k
    BY <1>8 DEF SelectRow
  <2> QED
    BY <1>8, <2>1 DEF SelectRow, ListTypeOK
<1>9. CASE RowActivated
  BY <1>9 DEF DbTypeOK, ListTypeOK, ThreadTypeOK, TableInv, PathInv, RowActivated, Row,
              NoRow
<1>10. CASE NextButton
  BY <1>10 DEF DbTypeOK, ListTypeOK, ThreadTypeOK, TableInv, PathInv, NextButton, Row, NoRow
<1>11. CASE PreviousButton
  BY <1>11 DEF DbTypeOK, ListTypeOK, ThreadTypeOK, TableInv, PathInv, PreviousButton, Row,
               NoRow
<1>12. CASE PlayButton
  BY <1>12 DEF DbTypeOK, ListTypeOK, ThreadTypeOK, TableInv, PathInv, PlayButton, Row, NoRow
<1>13. CASE Stopping
  BY <1>13 DEF DbTypeOK, ListTypeOK, ThreadTypeOK, TableInv, PathInv, Stopping, Row, NoRow
<1>14. CASE PauseButton \/ StopButton \/ LoopButton \/ WakeUp
  BY <1>14 DEF DbTypeOK, ListTypeOK, ThreadTypeOK, TableInv, PathInv, PauseButton,
               StopButton, LoopButton, WakeUp, Row, NoRow
<1>15. CASE Move(t)
  BY <1>15 DEF DbTypeOK, ListTypeOK, ThreadTypeOK, TableInv, PathInv, Move, Row, NoRow
<1>16. CASE MoveNowhere(t)
  BY <1>16 DEF DbTypeOK, ListTypeOK, ThreadTypeOK, TableInv, PathInv, MoveNowhere, Row,
               NoRow
<1>17. CASE Place(t)
  <2>1. cursor' \in 1 .. Len(list)
    BY <1>17, LenProperties, EmptySeq DEF Place, ListTypeOK
  <2> QED
    BY <1>17, <2>1 DEF Place, ListTypeOK
<1>18. CASE OffTheList(t) \/ ReadRow(t)
  BY <1>18 DEF DbTypeOK, ListTypeOK, ThreadTypeOK, TableInv, PathInv, OffTheList, ReadRow,
               Row, NoRow
<1>19. CASE Load(t) \/ StatusPlaying(t) \/ ButtonLabel(t) \/ StateLabel(t)
  BY <1>19 DEF DbTypeOK, ListTypeOK, ThreadTypeOK, TableInv, PathInv, Load, StatusPlaying,
               ButtonLabel, StateLabel, Row, NoRow
<1> QED
  BY <1>1, <1>2, <1>3, <1>4, <1>5, <1>6, <1>7, <1>8, <1>9, <1>10, <1>11, <1>12, <1>13,
     <1>14, <1>15, <1>16, <1>17, <1>18, <1>19
  DEF Step, ListStep, ButtonPressed, ScrollStep

\* What plays and what is shown keeps its type.
LEMMA PlayTypeOKKept ==
    ASSUME LInv, NEW t \in Threads, Step(t)
    PROVE  PlayTypeOK'
<1> USE ListAssumption
        DEF LInv, TypeOK, Threads, Directions, Ids, Positions, Busy, Goto, Scroll,
            ScrollPcs, Pcs, REPEAT_ALL, REPEAT_SINGLE, NORMAL, dbVars, listVars,
            playVars, labelVars, localVars, removeVars
<1>1. CASE \/ (\E f \in Files : AddSong(f))
          \/ Insert
          \/ InsertFails
          \/ (\E selected \in SUBSET (1 .. Len(list)) : RemoveFiles(selected))
          \/ RemoveFromDb
          \/ RemoveRow
          \/ ReIndex
  BY <1>1 DEF PlayTypeOK, ThreadTypeOK, DbTypeOK, AddSong, Insert, SetRow, InsertFails,
              RemoveFiles, RemoveFromDb, RemoveRow, ReIndex, Row, NoRow
<1>2. CASE \/ (\E k \in 1 .. Len(list) : SelectRow(k))
          \/ RowActivated
          \/ NextButton
          \/ PreviousButton
          \/ PlayButton
          \/ Stopping
  BY <1>2 DEF PlayTypeOK, ThreadTypeOK, DbTypeOK, SelectRow, RowActivated, NextButton,
              PreviousButton, PlayButton, Stopping, Row, NoRow
<1>3. CASE PauseButton
  BY <1>3 DEF PlayTypeOK, ThreadTypeOK, DbTypeOK, PauseButton, Row, NoRow
<1>4. CASE StopButton
  BY <1>4 DEF PlayTypeOK, ThreadTypeOK, DbTypeOK, StopButton, Row, NoRow
<1>5. CASE LoopButton
  BY <1>5 DEF PlayTypeOK, ThreadTypeOK, DbTypeOK, LoopButton, Row, NoRow
<1>6. CASE WakeUp
  BY <1>6 DEF PlayTypeOK, ThreadTypeOK, DbTypeOK, WakeUp, Row, NoRow
<1>7. CASE Move(t) \/ MoveNowhere(t) \/ Place(t)
  BY <1>7 DEF PlayTypeOK, ThreadTypeOK, DbTypeOK, Move, MoveNowhere, Place, Row, NoRow
<1>8. CASE OffTheList(t) \/ ReadRow(t)
  BY <1>8 DEF PlayTypeOK, ThreadTypeOK, DbTypeOK, OffTheList, ReadRow, Row, NoRow
<1>9. CASE Load(t)
  BY <1>9 DEF PlayTypeOK, ThreadTypeOK, DbTypeOK, Load, Row, NoRow
<1>10. CASE StatusPlaying(t)
  BY <1>10 DEF PlayTypeOK, ThreadTypeOK, DbTypeOK, StatusPlaying, Row, NoRow
<1>11. CASE ButtonLabel(t)
  BY <1>11 DEF PlayTypeOK, ThreadTypeOK, DbTypeOK, ButtonLabel, Row, NoRow
<1>12. CASE StateLabel(t)
  BY <1>12 DEF PlayTypeOK, ThreadTypeOK, DbTypeOK, StateLabel, Row, NoRow
<1> QED
  BY <1>1, <1>2, <1>3, <1>4, <1>5, <1>6, <1>7, <1>8, <1>9, <1>10, <1>11, <1>12
  DEF Step, ListStep, ButtonPressed, ScrollStep

\* The threads' locals keep their types.
LEMMA ThreadTypeOKKept ==
    ASSUME LInv, NEW t \in Threads, Step(t)
    PROVE  ThreadTypeOK'
<1> USE ListAssumption
        DEF LInv, TypeOK, Threads, Directions, Ids, Positions, Busy, Goto, Scroll,
            ScrollPcs, Pcs, REPEAT_ALL, REPEAT_SINGLE, NORMAL, dbVars, listVars,
            playVars, labelVars, localVars, removeVars
<1>1. CASE \E f \in Files : AddSong(f)
  BY <1>1 DEF ThreadTypeOK, ListTypeOK, PathInv, AddSong, Row, NoRow
<1>2. CASE Insert
  BY <1>2 DEF ThreadTypeOK, ListTypeOK, PathInv, Insert, SetRow, Row, NoRow
<1>3. CASE InsertFails
  BY <1>3 DEF ThreadTypeOK, ListTypeOK, PathInv, InsertFails, SetRow, Row, NoRow
<1>4. CASE \E selected \in SUBSET (1 .. Len(list)) : RemoveFiles(selected)
  BY <1>4 DEF ThreadTypeOK, ListTypeOK, PathInv, RemoveFiles, Row, NoRow
<1>5. CASE RemoveFromDb
  BY <1>5 DEF ThreadTypeOK, ListTypeOK, PathInv, RemoveFromDb, Row, NoRow
<1>6. CASE RemoveRow
  BY <1>6 DEF ThreadTypeOK, ListTypeOK, PathInv, RemoveRow, Row, NoRow
<1>7. CASE ReIndex
  BY <1>7 DEF ThreadTypeOK, ListTypeOK, PathInv, ReIndex, Row, NoRow
<1>8. CASE \E k \in 1 .. Len(list) : SelectRow(k)
  BY <1>8 DEF ThreadTypeOK, ListTypeOK, PathInv, SelectRow, Row, NoRow
<1>9. CASE RowActivated
  BY <1>9 DEF ThreadTypeOK, ListTypeOK, PathInv, RowActivated, Row, NoRow
<1>10. CASE NextButton
  BY <1>10 DEF ThreadTypeOK, ListTypeOK, PathInv, NextButton, Row, NoRow
<1>11. CASE PreviousButton
  BY <1>11 DEF ThreadTypeOK, ListTypeOK, PathInv, PreviousButton, Row, NoRow
<1>12. CASE PlayButton
  BY <1>12 DEF ThreadTypeOK, ListTypeOK, PathInv, PlayButton, Row, NoRow
<1>13. CASE Stopping
  BY <1>13 DEF ThreadTypeOK, ListTypeOK, PathInv, Stopping, Row, NoRow
<1>14. CASE PauseButton
  BY <1>14 DEF ThreadTypeOK, ListTypeOK, PathInv, PauseButton, Row, NoRow
<1>15. CASE StopButton
  BY <1>15 DEF ThreadTypeOK, ListTypeOK, PathInv, StopButton, Row, NoRow
<1>16. CASE LoopButton
  BY <1>16 DEF ThreadTypeOK, ListTypeOK, PathInv, LoopButton, Row, NoRow
<1>17. CASE WakeUp
  BY <1>17 DEF ThreadTypeOK, ListTypeOK, PathInv, WakeUp, Row, NoRow
<1>18. CASE Move(t)
  <2>1. Target(dir[t], path[t], Len(list)) \in Positions
    BY <1>18 DEF Move, Target, ListTypeOK, ThreadTypeOK, PathInv
  <2> QED
    BY <1>18, <2>1 DEF Move, ThreadTypeOK
<1>19. CASE MoveNowhere(t)
  BY <1>19 DEF ThreadTypeOK, ListTypeOK, PathInv, MoveNowhere, Row, NoRow
<1>20. CASE Place(t)
  BY <1>20 DEF ThreadTypeOK, ListTypeOK, PathInv, Place, Row, NoRow
<1>21. CASE OffTheList(t)
  <2>1. CASE Goto(t, "place", "undefined")
    BY <1>21, <2>1 DEF OffTheList, ThreadTypeOK
  <2>2. CASE Goto(t, "row", "undefined")
    BY <1>21, <2>2 DEF OffTheList, ThreadTypeOK
  <2> QED
    BY <1>21, <2>1, <2>2 DEF OffTheList
<1>22. CASE ReadRow(t)
  <2>1. list[path[t]] \in Row
    BY <1>22 DEF ReadRow, ListTypeOK, ThreadTypeOK, PathInv
  <2> QED
    BY <1>22, <2>1 DEF ReadRow, ThreadTypeOK
<1>23. CASE Load(t)
  BY <1>23 DEF ThreadTypeOK, ListTypeOK, PathInv, Load, Row, NoRow
<1>24. CASE StatusPlaying(t)
  BY <1>24 DEF ThreadTypeOK, ListTypeOK, PathInv, StatusPlaying, Row, NoRow
<1>25. CASE ButtonLabel(t)
  <2>1. CASE Goto(t, "button", "title")
    BY <1>25, <2>1 DEF ButtonLabel, ThreadTypeOK
  <2>2. CASE Goto(t, "pause_label", "idle")
    BY <1>25, <2>2 DEF ButtonLabel, ThreadTypeOK
  <2> QED
    BY <1>25, <2>1, <2>2 DEF ButtonLabel
<1>26. CASE StateLabel(t)
  BY <1>26 DEF ThreadTypeOK, ListTypeOK, PathInv, StateLabel, Row, NoRow
<1> QED
  BY <1>1, <1>2, <1>3, <1>4, <1>5, <1>6, <1>7, <1>8, <1>9, <1>10, <1>11, <1>12, <1>13,
     <1>14, <1>15, <1>16, <1>17, <1>18, <1>19, <1>20, <1>21, <1>22, <1>23, <1>24, <1>25,
     <1>26
  DEF Step, ListStep, ButtonPressed, ScrollStep

\* Every song of the table keeps a row, and a row on its way in or out is known.
LEMMA TableInvKept ==
    ASSUME LInv, NEW t \in Threads, Step(t)
    PROVE  TableInv'
<1> USE ListAssumption
        DEF LInv, TypeOK, Threads, Directions, Ids, Positions, Busy, Goto, Scroll,
            ScrollPcs, Pcs, REPEAT_ALL, REPEAT_SINGLE, NORMAL, dbVars, listVars,
            playVars, labelVars, localVars, removeVars
<1>1. CASE \E f \in Files : AddSong(f)
  <2>0. PICK f \in Files : AddSong(f)
    BY <1>1
  <2>1. /\ list \in Seq(Row) /\ Len(list) \in Nat /\ refs = {} /\ todo = {} /\ pc'["gtk"] = "set"
        /\ last_id \in Nat /\ NoRow.id = 0 /\ DOMAIN db \subseteq 1 .. last_id
    BY <2>0 DEF AddSong, TableInv, ThreadTypeOK, ListTypeOK, DbTypeOK, NoRow
  <2>2. \A k \in 1 .. Len(list') : list'[k].id <= last_id
    BY <2>0, <2>1, AddSongFacts DEF TableInv
  <2>3. \A i \in DOMAIN db : \E k \in 1 .. Len(list') : list'[k].id = i
    BY <2>0, <2>1, AddSongFacts DEF TableInv
  <2>4. /\ list' # <<>> /\ list'[Len(list')] = NoRow
        /\ row'["gtk"] = [id |-> 0, file |-> f, index |-> Len(list')]
    BY <2>0, <2>1, AddSongFacts, EmptySeq DEF AddSong, ThreadTypeOK
  <2> QED
    BY <2>0, <2>1, <2>2, <2>3, <2>4 DEF TableInv, AddSong
<1>2. CASE Insert
  <2>1. SetRow(last_id') /\ last_id' \in Ids /\ last_id' = last_id + 1 /\ last_rowid' = last_id'
        /\ DOMAIN db' = DOMAIN db \cup {last_id'} /\ last_id \in Nat
    BY <1>2 DEF Insert, DbTypeOK
  <2>5. /\ Len(list') = Len(list) /\ Len(list) \in Nat /\ Len(list) >= 1 /\ list \in Seq(Row)
        /\ \A k \in 1 .. Len(list) - 1 : list'[k] = list[k]
        /\ list'[Len(list)].id = last_id' /\ list[Len(list)].id = 0
    <3>1. /\ Len(list') = Len(list) /\ Len(list) \in Nat /\ Len(list) >= 1
          /\ \A k \in 1 .. Len(list) - 1 : list'[k] = list[k]
          /\ list'[Len(list)] = [id |-> last_id', file |-> row["gtk"].file, index |-> Len(list)]
          /\ list[Len(list)] = NoRow
      BY <2>1, SetRowFacts
    <3> QED
      BY <3>1 DEF NoRow, ListTypeOK
  <2>2. ASSUME NEW k \in 1 .. Len(list')
        PROVE  list'[k].id <= last_id'
    <3>1. k \in 1 .. Len(list) /\ list[k] \in Row
      BY <2>5
    <3>2. list[k].id \in 0 .. MaxId /\ list[k].id <= last_id
      BY <3>1 DEF TableInv, Row
    <3> QED
      BY <2>1, <2>5, <3>1, <3>2 DEF TableInv
  <2>3. \A i \in DOMAIN db' : \E k \in 1 .. Len(list') : list'[k].id = i
    <3>1. ASSUME NEW i \in DOMAIN db PROVE \E k \in 1 .. Len(list') : list'[k].id = i
      <4>1. PICK k \in 1 .. Len(list) : list[k].id = i
        BY DEF TableInv
      <4>2. k # Len(list)
        BY <2>1, <4>1, <2>5 DEF DbTypeOK
      <4> QED
        BY <2>1, <4>1, <4>2, <2>5
    <3>2. list'[Len(list)].id = last_id' /\ Len(list) \in 1 .. Len(list')
      BY <2>1, <2>5
    <3> QED
      BY <2>1, <3>1, <3>2
  <2>4. pc["gtk"] = "set" /\ pc'["gtk"] = "idle" /\ refs' = {} /\ todo' = {}
    BY <2>1 DEF SetRow, TableInv, ThreadTypeOK
  <2> QED
    BY <2>1, <2>2, <2>3, <2>4 DEF TableInv
<1>3. CASE InsertFails
  <2>1. SetRow(last_rowid) /\ last_rowid \in Ids /\ last_rowid' = last_rowid /\ last_id' = last_id
        /\ db' = db /\ last_id \in Nat
    BY <1>3 DEF InsertFails, DbTypeOK
  <2>5. /\ Len(list') = Len(list) /\ Len(list) \in Nat /\ Len(list) >= 1 /\ list \in Seq(Row)
        /\ \A k \in 1 .. Len(list) - 1 : list'[k] = list[k]
        /\ list'[Len(list)].id = last_rowid /\ list[Len(list)].id = 0
    <3>1. /\ Len(list') = Len(list) /\ Len(list) \in Nat /\ Len(list) >= 1
          /\ \A k \in 1 .. Len(list) - 1 : list'[k] = list[k]
          /\ list'[Len(list)] = [id |-> last_rowid, file |-> row["gtk"].file, index |-> Len(list)]
          /\ list[Len(list)] = NoRow
      BY <2>1, SetRowFacts
    <3> QED
      BY <3>1 DEF NoRow, ListTypeOK
  <2>2. ASSUME NEW k \in 1 .. Len(list')
        PROVE  list'[k].id <= last_id'
    <3>1. k \in 1 .. Len(list) /\ list[k] \in Row
      BY <2>5
    <3>2. list[k].id \in 0 .. MaxId /\ list[k].id <= last_id
      BY <3>1 DEF TableInv, Row
    <3> QED
      BY <2>1, <2>5, <3>1, <3>2 DEF TableInv
  <2>3. ASSUME NEW i \in DOMAIN db PROVE \E k \in 1 .. Len(list') : list'[k].id = i
    <3>1. PICK k \in 1 .. Len(list) : list[k].id = i
      BY DEF TableInv
    <3>2. k # Len(list)
      BY <2>1, <3>1, <2>5 DEF DbTypeOK
    <3> QED
      BY <2>1, <3>1, <3>2, <2>5
  <2>4. pc["gtk"] = "set" /\ pc'["gtk"] = "idle" /\ refs' = {} /\ todo' = {}
    BY <2>1 DEF SetRow, TableInv, ThreadTypeOK
  <2> QED
    BY <2>1, <2>2, <2>3, <2>4 DEF TableInv
<1>4. CASE \E selected \in SUBSET (1 .. Len(list)) : RemoveFiles(selected)
  BY <1>4 DEF DbTypeOK, ListTypeOK, ThreadTypeOK, TableInv, RemoveFiles, Row, NoRow
<1>5. CASE RemoveFromDb
  <2>1. PICK p \in todo : /\ todo' = todo \ {p}
                          /\ refs' = IF list[p].id # 0 THEN refs \cup {p} ELSE refs
                          /\ db' = [k \in DOMAIN db \ {list[p].id} |-> db[k]]
    BY <1>5 DEF RemoveFromDb
  <2>2. pc["gtk"] = "remove_db"
        /\ pc'["gtk"] = IF Cardinality(todo) = 1 THEN "remove_row" ELSE "remove_db"
    BY <1>5 DEF RemoveFromDb, ThreadTypeOK
  <2>3. todo' = {} <=> Cardinality(todo) = 1
    <3>1. IsFiniteSet(todo)
      <4>1. Len(list) \in Nat /\ todo \subseteq 1 .. Len(list)
        BY LenProperties DEF ListTypeOK
      <4>2. IsFiniteSet(1 .. Len(list))
        BY <4>1, FS_Interval
      <4> QED
        BY <4>1, <4>2, FS_Subset
    <3>2. Cardinality(todo) = 1 <=> \E x : todo = {x}
      BY <3>1, FS_Singleton
    <3> QED
      BY <2>1, <3>2
  <2>4. list' = list /\ last_id' = last_id /\ last_rowid' = last_rowid
    BY <1>5 DEF RemoveFromDb
  <2>5. DOMAIN db' = DOMAIN db \ {list[p].id}
    BY <2>1
  <2> QED
    BY <2>1, <2>2, <2>3, <2>4, <2>5 DEF TableInv
<1>6. CASE RemoveRow
  <2>1. PICK p \in refs :
             /\ p \in 1 .. Len(list) /\ Len(list) \in Nat
             /\ list' \in Seq(Row) /\ Len(list') = Len(list) - 1
             /\ \A k \in 1 .. Len(list) - 1 : list'[k] = IF k < p THEN list[k] ELSE list[k + 1]
             /\ \A q \in refs : p <= q
             /\ refs' = {q - 1 : q \in refs \ {p}}
    BY <1>6, RemoveFacts
  <2>2. /\ pc'["gtk"] = "remove_row" /\ todo' = todo /\ todo = {} /\ refs \subseteq 1 .. Len(list)
        /\ last_id' = last_id /\ last_rowid' = last_rowid /\ db' = db
    BY <1>6 DEF RemoveRow, TableInv, ThreadTypeOK, ListTypeOK
  <2>3. \A k \in 1 .. Len(list') : list'[k].id <= last_id
    BY <2>1 DEF TableInv
  <2>4. ASSUME NEW i \in DOMAIN db PROVE \E k \in 1 .. Len(list') : list'[k].id = i
    <3>1. PICK k \in 1 .. Len(list) : list[k].id = i
      BY DEF TableInv
    <3>2. k # p
      BY <3>1 DEF TableInv
    <3>3. CASE k < p
      BY <2>1, <3>1, <3>3
    <3>4. CASE k > p
      <4>1. k - 1 \in 1 .. Len(list') /\ list'[k - 1] = list[k]
        BY <2>1, <3>4
      <4> QED
        BY <3>1, <4>1
    <3> QED
      BY <2>1, <3>2, <3>3, <3>4
  <2>5. ASSUME NEW q \in refs' PROVE list'[q].id \notin DOMAIN db
    <3>1. PICK r \in refs : r # p /\ q = r - 1
      BY <2>1
    <3>2. r > p /\ q \in 1 .. Len(list) - 1 /\ list'[q] = list[r]
      BY <2>1, <2>2, <3>1
    <3> QED
      BY <3>2 DEF TableInv
  <2> QED
    BY <2>2, <2>3, <2>4, <2>5 DEF TableInv
<1>7. CASE ReIndex
  BY <1>7 DEF DbTypeOK, ListTypeOK, ThreadTypeOK, TableInv, ReIndex, Row, NoRow
<1>8. CASE \E k \in 1 .. Len(list) : SelectRow(k)
  BY <1>8 DEF DbTypeOK, ListTypeOK, ThreadTypeOK, TableInv, SelectRow, Row, NoRow
<1>9. CASE RowActivated
  BY <1>9 DEF DbTypeOK, ListTypeOK, ThreadTypeOK, TableInv, RowActivated, Row, NoRow
<1>10. CASE NextButton
  BY <1>10 DEF DbTypeOK, ListTypeOK, ThreadTypeOK, TableInv, NextButton, Row, NoRow
<1>11. CASE PreviousButton
  BY <1>11 DEF DbTypeOK, ListTypeOK, ThreadTypeOK, TableInv, PreviousButton, Row, NoRow
<1>12. CASE PlayButton
  BY <1>12 DEF DbTypeOK, ListTypeOK, ThreadTypeOK, TableInv, PlayButton, Row, NoRow
<1>13. CASE Stopping
  BY <1>13 DEF DbTypeOK, ListTypeOK, ThreadTypeOK, TableInv, Stopping, Row, NoRow
<1>14. CASE PauseButton
  BY <1>14 DEF DbTypeOK, ListTypeOK, ThreadTypeOK, TableInv, PauseButton, Row, NoRow
<1>15. CASE StopButton
  BY <1>15 DEF DbTypeOK, ListTypeOK, ThreadTypeOK, TableInv, StopButton, Row, NoRow
<1>16. CASE LoopButton
  BY <1>16 DEF DbTypeOK, ListTypeOK, ThreadTypeOK, TableInv, LoopButton, Row, NoRow
<1>17. CASE WakeUp
  BY <1>17 DEF DbTypeOK, ListTypeOK, ThreadTypeOK, TableInv, WakeUp, Row, NoRow
<1>18. CASE Move(t)
  BY <1>18 DEF DbTypeOK, ListTypeOK, ThreadTypeOK, TableInv, Move, Row, NoRow
<1>19. CASE MoveNowhere(t)
  BY <1>19 DEF DbTypeOK, ListTypeOK, ThreadTypeOK, TableInv, MoveNowhere, Row, NoRow
<1>20. CASE Place(t)
  BY <1>20 DEF DbTypeOK, ListTypeOK, ThreadTypeOK, TableInv, Place, Row, NoRow
<1>21. CASE OffTheList(t)
  BY <1>21 DEF DbTypeOK, ListTypeOK, ThreadTypeOK, TableInv, OffTheList, Row, NoRow
<1>22. CASE ReadRow(t)
  BY <1>22 DEF DbTypeOK, ListTypeOK, ThreadTypeOK, TableInv, ReadRow, Row, NoRow
<1>23. CASE Load(t)
  BY <1>23 DEF DbTypeOK, ListTypeOK, ThreadTypeOK, TableInv, Load, Row, NoRow
<1>24. CASE StatusPlaying(t)
  BY <1>24 DEF DbTypeOK, ListTypeOK, ThreadTypeOK, TableInv, StatusPlaying, Row, NoRow
<1>25. CASE ButtonLabel(t)
  BY <1>25 DEF DbTypeOK, ListTypeOK, ThreadTypeOK, TableInv, ButtonLabel, Row, NoRow
<1>26. CASE StateLabel(t)
  BY <1>26 DEF DbTypeOK, ListTypeOK, ThreadTypeOK, TableInv, StateLabel, Row, NoRow
<1> QED
  BY <1>1, <1>2, <1>3, <1>4, <1>5, <1>6, <1>7, <1>8, <1>9, <1>10, <1>11, <1>12, <1>13,
     <1>14, <1>15, <1>16, <1>17, <1>18, <1>19, <1>20, <1>21, <1>22, <1>23, <1>24, <1>25,
     <1>26
  DEF Step, ListStep, ButtonPressed, ScrollStep

\* The complete rows stay the songs of the table, in order.
LEMMA RowsInvKept ==
    ASSUME LInv, NEW t \in Threads, Step(t)
    PROVE  RowsInv'
<1> USE ListAssumption
        DEF LInv, TypeOK, Threads, Directions, Ids, Positions, Busy, Goto, Scroll,
            ScrollPcs, Pcs, REPEAT_ALL, REPEAT_SINGLE, NORMAL, dbVars, listVars,
            playVars, labelVars, localVars, removeVars, Whole
<1>1. CASE \E f \in Files : AddSong(f)
  BY <1>1, AddedRow
<1>2. CASE Insert
  BY <1>2, InsertedRow
<1>3. CASE InsertFails
  BY <1>3, InsertedRow
<1>4. CASE \E selected \in SUBSET (1 .. Len(list)) : RemoveFiles(selected)
  BY <1>4 DEF DbTypeOK, ListTypeOK, ThreadTypeOK, TableInv, RowsInv, RemoveFiles, Row, NoRow
<1>5. CASE RemoveFromDb
  <2>1. PICK p \in todo : /\ todo' = todo \ {p}
                          /\ refs' = IF list[p].id # 0 THEN refs \cup {p} ELSE refs
                          /\ db' = [k \in DOMAIN db \ {list[p].id} |-> db[k]]
    BY <1>5 DEF RemoveFromDb
  <2>2. pc["gtk"] = "remove_db" /\ pc'["gtk"] # "set" /\ list' = list /\ failed' = failed
        /\ p \in 1 .. Len(list) /\ Len(list) \in Nat
    BY <1>5, LenProperties DEF RemoveFromDb, ThreadTypeOK, ListTypeOK
  <2>3. CASE ~failed
    <3>1. \A j, k \in 1 .. Len(list) : j < k => list[j].id < list[k].id
      BY <2>2, <2>3 DEF RowsInv
    <3>2. \A k \in 1 .. Len(list) : list[k] \in Row
      BY DEF ListTypeOK
    <3>3. \A k \in 1 .. Len(list) : list[k].id \in Int
      BY <3>2 DEF Row
    <3>4. \A k \in 1 .. Len(list) : k # p => list[k].id # list[p].id
      BY <2>2, <3>1, <3>3
    <3>5. ASSUME NEW k \in 1 .. Len(list), k \notin refs'
          PROVE  list[k].id \in DOMAIN db' /\ db'[list[k].id] = list[k].file
      <4>1. list[k].id \in DOMAIN db /\ db[list[k].id] = list[k].file
        BY <2>1, <2>2, <2>3, <3>5 DEF RowsInv
      <4>2. k # p
        BY <2>1, <3>5, <4>1 DEF DbTypeOK
      <4> QED
        BY <2>1, <3>4, <4>1, <4>2
    <3> QED
      BY <2>2, <3>1, <3>5 DEF RowsInv
  <2> QED
    BY <2>2, <2>3 DEF RowsInv
<1>6. CASE RemoveRow
  <2>1. PICK p \in refs :
             /\ p \in 1 .. Len(list) /\ Len(list) \in Nat
             /\ list' \in Seq(Row) /\ Len(list') = Len(list) - 1
             /\ \A k \in 1 .. Len(list) - 1 : list'[k] = IF k < p THEN list[k] ELSE list[k + 1]
             /\ \A q \in refs : p <= q
             /\ refs' = {q - 1 : q \in refs \ {p}}
    BY <1>6, RemoveFacts
  <2>2. pc["gtk"] = "remove_row" /\ pc'["gtk"] = "remove_row" /\ failed' = failed /\ db' = db
        /\ refs \subseteq 1 .. Len(list)
    BY <1>6 DEF RemoveRow, ThreadTypeOK, ListTypeOK
  <2> DEFINE old(k) == IF k < p THEN k ELSE k + 1
  <2>3. \A k \in 1 .. Len(list') : /\ old(k) \in 1 .. Len(list) /\ list'[k] = list[old(k)]
                                   /\ k \notin refs' => old(k) \notin refs
    <3>1. ASSUME NEW k \in 1 .. Len(list'), old(k) \in refs
          PROVE  k \in refs'
      <4>1. k >= p /\ old(k) = k + 1 /\ (k + 1) - 1 = k /\ k + 1 # p
        BY <2>1, <2>2, <3>1
      <4> QED
        BY <2>1, <3>1, <4>1
    <3>2. \A k \in 1 .. Len(list') : old(k) \in 1 .. Len(list) /\ list'[k] = list[old(k)]
      BY <2>1
    <3> QED
      BY <3>1, <3>2
  <2>4. \A j, k \in 1 .. Len(list') : j < k => old(j) < old(k)
    BY <2>1
  <2> HIDE DEF old
  <2>5. CASE ~failed
    <3>1. /\ \A k \in 1 .. Len(list) : k \notin refs =>
                list[k].id \in DOMAIN db /\ db[list[k].id] = list[k].file
          /\ \A j, k \in 1 .. Len(list) : j < k => list[j].id < list[k].id
      BY <2>2, <2>5 DEF RowsInv
    <3>2. \A k \in 1 .. Len(list') : k \notin refs' =>
            list'[k].id \in DOMAIN db /\ db[list'[k].id] = list'[k].file
      BY <2>3, <3>1
    <3>3. ASSUME NEW j \in 1 .. Len(list'), NEW k \in 1 .. Len(list'), j < k
          PROVE  list'[j].id < list'[k].id
      <4>1. old(j) \in 1 .. Len(list) /\ old(k) \in 1 .. Len(list) /\ old(j) < old(k)
            /\ list'[j] = list[old(j)] /\ list'[k] = list[old(k)]
        BY <2>3, <2>4, <3>3
      <4> QED
        BY <3>1, <4>1
    <3> QED
      BY <2>2, <3>2, <3>3 DEF RowsInv
  <2> QED
    BY <2>2, <2>5 DEF RowsInv
<1>7. CASE ReIndex
  <2>1. /\ Len(list') = Len(list) /\ Len(list) \in Nat
        /\ \A k \in 1 .. Len(list) :
              list'[k] = [id |-> list[k].id, file |-> list[k].file, index |-> k]
    BY <1>7, ReIndexFacts
  <2>2. ASSUME NEW k \in 1 .. Len(list)
        PROVE  list'[k].id = list[k].id /\ list'[k].file = list[k].file
    <3>1. list'[k] = [id |-> list[k].id, file |-> list[k].file, index |-> k]
      BY <2>1
    <3> QED
      BY <3>1
  <2>3. pc["gtk"] = "remove_row" /\ pc'["gtk"] = "idle" /\ failed' = failed /\ db' = db
        /\ refs' = refs
    BY <1>7 DEF ReIndex, ThreadTypeOK
  <2> QED
    BY <2>1, <2>2, <2>3 DEF RowsInv
<1>8. CASE \/ (\E k \in 1 .. Len(list) : SelectRow(k))
          \/ RowActivated
          \/ NextButton
          \/ PreviousButton
          \/ PlayButton
          \/ Stopping
  BY <1>8 DEF DbTypeOK, ListTypeOK, ThreadTypeOK, TableInv, RowsInv, SelectRow,
              RowActivated, NextButton, PreviousButton, PlayButton, Stopping, Row, NoRow
<1>9. CASE PauseButton \/ StopButton \/ LoopButton \/ WakeUp
  BY <1>9 DEF DbTypeOK, ListTypeOK, ThreadTypeOK, TableInv, RowsInv, PauseButton,
              StopButton, LoopButton, WakeUp, Row, NoRow
<1>10. CASE Move(t) \/ MoveNowhere(t) \/ Place(t)
  BY <1>10 DEF DbTypeOK, ListTypeOK, ThreadTypeOK, TableInv, RowsInv, Move, MoveNowhere,
               Place, Row, NoRow
<1>11. CASE OffTheList(t) \/ ReadRow(t)
  BY <1>11 DEF DbTypeOK, ListTypeOK, ThreadTypeOK, TableInv, RowsInv, OffTheList, ReadRow,
               Row, NoRow
<1>12. CASE Load(t) \/ StatusPlaying(t) \/ ButtonLabel(t) \/ StateLabel(t)
  BY <1>12 DEF DbTypeOK, ListTypeOK, ThreadTypeOK, TableInv, RowsInv, Load, StatusPlaying,
               ButtonLabel, StateLabel, Row, NoRow
<1> QED
  BY <1>1, <1>2, <1>3, <1>4, <1>5, <1>6, <1>7, <1>8, <1>9, <1>10, <1>11, <1>12
  DEF Step, ListStep, ButtonPressed, ScrollStep

\* The rows stay numbered.
LEMMA IndexInvKept ==
    ASSUME LInv, NEW t \in Threads, Step(t)
    PROVE  IndexInv'
<1> USE ListAssumption
        DEF LInv, TypeOK, Threads, Directions, Ids, Positions, Busy, Goto, Scroll,
            ScrollPcs, Pcs, REPEAT_ALL, REPEAT_SINGLE, NORMAL, dbVars, listVars,
            playVars, labelVars, localVars, removeVars
<1>1. CASE \E f \in Files : AddSong(f)
  BY <1>1, AddedRow
<1>2. CASE Insert
  BY <1>2, InsertedRow
<1>3. CASE InsertFails
  BY <1>3, InsertedRow
<1>4. CASE \E selected \in SUBSET (1 .. Len(list)) : RemoveFiles(selected)
  BY <1>4 DEF ListTypeOK, ThreadTypeOK, TableInv, IndexInv, RemoveFiles, Row, NoRow
<1>5. CASE RemoveFromDb
  BY <1>5 DEF ListTypeOK, ThreadTypeOK, TableInv, IndexInv, RemoveFromDb, Row, NoRow
<1>6. CASE RemoveRow
  BY <1>6 DEF ListTypeOK, ThreadTypeOK, TableInv, IndexInv, RemoveRow, Row, NoRow
<1>7. CASE ReIndex
  BY <1>7 DEF ListTypeOK, ThreadTypeOK, TableInv, IndexInv, ReIndex, Row, NoRow
<1>8. CASE \/ (\E k \in 1 .. Len(list) : SelectRow(k))
          \/ RowActivated
          \/ NextButton
          \/ PreviousButton
          \/ PlayButton
          \/ Stopping
  BY <1>8 DEF ListTypeOK, ThreadTypeOK, TableInv, IndexInv, SelectRow, RowActivated,
              NextButton, PreviousButton, PlayButton, Stopping, Row, NoRow
<1>9. CASE PauseButton \/ StopButton \/ LoopButton \/ WakeUp
  BY <1>9 DEF ListTypeOK, ThreadTypeOK, TableInv, IndexInv, PauseButton, StopButton,
              LoopButton, WakeUp, Row, NoRow
<1>10. CASE Move(t) \/ MoveNowhere(t) \/ Place(t)
  BY <1>10 DEF ListTypeOK, ThreadTypeOK, TableInv, IndexInv, Move, MoveNowhere, Place, Row,
               NoRow
<1>11. CASE OffTheList(t) \/ ReadRow(t)
  BY <1>11 DEF ListTypeOK, ThreadTypeOK, TableInv, IndexInv, OffTheList, ReadRow, Row, NoRow
<1>12. CASE Load(t) \/ StatusPlaying(t) \/ ButtonLabel(t) \/ StateLabel(t)
  BY <1>12 DEF ListTypeOK, ThreadTypeOK, TableInv, IndexInv, Load, StatusPlaying,
               ButtonLabel, StateLabel, Row, NoRow
<1> QED
  BY <1>1, <1>2, <1>3, <1>4, <1>5, <1>6, <1>7, <1>8, <1>9, <1>10, <1>11, <1>12
  DEF Step, ListStep, ButtonPressed, ScrollStep

\* Two handlers under way have met.
LEMMA RaceInvKept ==
    ASSUME LInv, NEW t \in Threads, Step(t)
    PROVE  RaceInv'
<1> USE ListAssumption
        DEF LInv, TypeOK, Threads, Directions, Ids, Positions, Busy, Goto, Scroll,
            ScrollPcs, Pcs, REPEAT_ALL, REPEAT_SINGLE, NORMAL, dbVars, listVars,
            playVars, labelVars, localVars, removeVars
<1>1. CASE \/ (\E f \in Files : AddSong(f))
          \/ Insert
          \/ InsertFails
          \/ (\E selected \in SUBSET (1 .. Len(list)) : RemoveFiles(selected))
          \/ RemoveFromDb
          \/ RemoveRow
          \/ ReIndex
  BY <1>1 DEF ThreadTypeOK, RaceInv, AddSong, Insert, SetRow, InsertFails, RemoveFiles,
              RemoveFromDb, RemoveRow, ReIndex
<1>2. CASE \E k \in 1 .. Len(list) : SelectRow(k)
  BY <1>2 DEF ThreadTypeOK, RaceInv, SelectRow
<1>3. CASE RowActivated
  BY <1>3 DEF ThreadTypeOK, RaceInv, RowActivated
<1>4. CASE NextButton
  BY <1>4 DEF ThreadTypeOK, RaceInv, NextButton
<1>5. CASE PreviousButton
  BY <1>5 DEF ThreadTypeOK, RaceInv, PreviousButton
<1>6. CASE PlayButton
  BY <1>6 DEF ThreadTypeOK, RaceInv, PlayButton
<1>7. CASE Stopping
  BY <1>7 DEF ThreadTypeOK, RaceInv, Stopping
<1>8. CASE PauseButton
  BY <1>8 DEF ThreadTypeOK, RaceInv, PauseButton
<1>9. CASE StopButton
  BY <1>9 DEF ThreadTypeOK, RaceInv, StopButton
<1>10. CASE LoopButton
  BY <1>10 DEF ThreadTypeOK, RaceInv, LoopButton
<1>11. CASE WakeUp
  BY <1>11 DEF ThreadTypeOK, RaceInv, WakeUp
<1>12. CASE Move(t) \/ MoveNowhere(t) \/ Place(t)
  BY <1>12 DEF ThreadTypeOK, RaceInv, Move, MoveNowhere, Place
<1>13. CASE OffTheList(t) \/ ReadRow(t)
  BY <1>13 DEF ThreadTypeOK, RaceInv, OffTheList, ReadRow
<1>14. CASE Load(t) \/ StatusPlaying(t) \/ ButtonLabel(t) \/ StateLabel(t)
  BY <1>14 DEF ThreadTypeOK, RaceInv, Load, StatusPlaying, ButtonLabel, StateLabel
<1> QED
  BY <1>1, <1>2, <1>3, <1>4, <1>5, <1>6, <1>7, <1>8, <1>9, <1>10, <1>11, <1>12, <1>13, <1>14
  DEF Step, ListStep, ButtonPressed, ScrollStep

\* A scroll stays on the list.
LEMMA PathInvKept ==
    ASSUME LInv, NEW t \in Threads, Step(t)
    PROVE  PathInv'
<1> USE ListAssumption
        DEF LInv, TypeOK, Threads, Directions, Ids, Positions, Busy, Goto, Scroll,
            ScrollPcs, Pcs, REPEAT_ALL, REPEAT_SINGLE, NORMAL, dbVars, listVars,
            playVars, labelVars, localVars, removeVars, Undisturbed
<1>1. CASE \E f \in Files : AddSong(f)
  BY <1>1 DEF ListTypeOK, ThreadTypeOK, TableInv, PathInv, AddSong
<1>2. CASE Insert
  BY <1>2 DEF ListTypeOK, ThreadTypeOK, TableInv, PathInv, Insert, SetRow
<1>3. CASE InsertFails
  BY <1>3 DEF ListTypeOK, ThreadTypeOK, TableInv, PathInv, InsertFails, SetRow
<1>4. CASE \E selected \in SUBSET (1 .. Len(list)) : RemoveFiles(selected)
  BY <1>4 DEF ListTypeOK, ThreadTypeOK, TableInv, PathInv, RemoveFiles
<1>5. CASE RemoveFromDb
  BY <1>5 DEF ListTypeOK, ThreadTypeOK, TableInv, PathInv, RemoveFromDb
<1>6. CASE RemoveRow
  BY <1>6 DEF ListTypeOK, ThreadTypeOK, TableInv, PathInv, RemoveRow
<1>7. CASE ReIndex
  BY <1>7 DEF ListTypeOK, ThreadTypeOK, TableInv, PathInv, ReIndex
<1>8. CASE \E k \in 1 .. Len(list) : SelectRow(k)
  BY <1>8 DEF ListTypeOK, ThreadTypeOK, TableInv, PathInv, SelectRow
<1>9. CASE RowActivated
  BY <1>9 DEF ListTypeOK, ThreadTypeOK, TableInv, PathInv, RowActivated
<1>10. CASE NextButton
  BY <1>10 DEF ListTypeOK, ThreadTypeOK, TableInv, PathInv, NextButton
<1>11. CASE PreviousButton
  BY <1>11 DEF ListTypeOK, ThreadTypeOK, TableInv, PathInv, PreviousButton
<1>12. CASE PlayButton
  BY <1>12 DEF ListTypeOK, ThreadTypeOK, TableInv, PathInv, PlayButton
<1>13. CASE Stopping
  BY <1>13 DEF ListTypeOK, ThreadTypeOK, TableInv, PathInv, Stopping
<1>14. CASE PauseButton \/ StopButton \/ LoopButton \/ WakeUp
  BY <1>14 DEF ListTypeOK, ThreadTypeOK, TableInv, PathInv, PauseButton, StopButton,
               LoopButton, WakeUp
<1>15. CASE Move(t)
  BY <1>15 DEF ListTypeOK, ThreadTypeOK, TableInv, PathInv, Move
<1>16. CASE MoveNowhere(t)
  BY <1>16 DEF ListTypeOK, ThreadTypeOK, TableInv, PathInv, MoveNowhere
<1>17. CASE Place(t)
  BY <1>17 DEF ListTypeOK, ThreadTypeOK, TableInv, PathInv, Place
<1>18. CASE OffTheList(t)
  BY <1>18 DEF ListTypeOK, ThreadTypeOK, TableInv, PathInv, OffTheList
<1>19. CASE ReadRow(t)
  BY <1>19 DEF ListTypeOK, ThreadTypeOK, TableInv, PathInv, ReadRow
<1>20. CASE Load(t) \/ StatusPlaying(t) \/ ButtonLabel(t) \/ StateLabel(t)
  BY <1>20 DEF ListTypeOK, ThreadTypeOK, TableInv, PathInv, Load, StatusPlaying,
               ButtonLabel, StateLabel
<1> QED
  BY <1>1, <1>2, <1>3, <1>4, <1>5, <1>6, <1>7, <1>8, <1>9, <1>10, <1>11, <1>12, <1>13,
     <1>14, <1>15, <1>16, <1>17, <1>18, <1>19, <1>20
  DEF Step, ListStep, ButtonPressed, ScrollStep

\* A handler alone keeps what it knows.
LEMMA LoneInvKept ==
    ASSUME LInv, NEW t \in Threads, Step(t)
    PROVE  LoneInv'
<1> USE ListAssumption
        DEF LInv, TypeOK, Threads, Directions, Ids, Positions, Busy, Goto, Scroll,
            ScrollPcs, Pcs, REPEAT_ALL, REPEAT_SINGLE, NORMAL, dbVars, listVars,
            playVars, labelVars, localVars, removeVars, Whole
<1>1. CASE \E f \in Files : AddSong(f)
  <2>0. PICK f \in Files : AddSong(f)
    BY <1>1
  <2>1. pc["gtk"] = "idle" /\ pc'["gtk"] = "set" /\ pc'["dog"] = pc["dog"]
        /\ raced' = raced \cup IF pc["dog"] = "idle" THEN {} ELSE Threads
    BY <2>0 DEF AddSong, ThreadTypeOK
  <2>2. "dog" \notin raced' => pc'["dog"] = "idle"
    BY <2>1
  <2> QED
    BY <2>1, <2>2 DEF LoneInv
<1>2. CASE Insert
  BY <1>2 DEF ListTypeOK, ThreadTypeOK, DbTypeOK, TableInv, RowsInv, PathInv, RaceInv,
              LoneInv, Target, Insert, SetRow, Row, NoRow
<1>3. CASE InsertFails
  BY <1>3 DEF ListTypeOK, ThreadTypeOK, DbTypeOK, TableInv, RowsInv, PathInv, RaceInv,
              LoneInv, Target, InsertFails, SetRow, Row, NoRow
<1>4. CASE \E selected \in SUBSET (1 .. Len(list)) : RemoveFiles(selected)
  BY <1>4 DEF ListTypeOK, ThreadTypeOK, DbTypeOK, TableInv, RowsInv, PathInv, RaceInv,
              LoneInv, Target, RemoveFiles, Row, NoRow
<1>5. CASE RemoveFromDb
  BY <1>5 DEF ListTypeOK, ThreadTypeOK, DbTypeOK, TableInv, RowsInv, PathInv, RaceInv,
              LoneInv, Target, RemoveFromDb, Row, NoRow
<1>6. CASE RemoveRow
  BY <1>6 DEF ListTypeOK, ThreadTypeOK, DbTypeOK, TableInv, RowsInv, PathInv, RaceInv,
              LoneInv, Target, RemoveRow, Row, NoRow
<1>7. CASE ReIndex
  BY <1>7 DEF ListTypeOK, ThreadTypeOK, DbTypeOK, TableInv, RowsInv, PathInv, RaceInv,
              LoneInv, Target, ReIndex, Row, NoRow
<1>8. CASE \E k \in 1 .. Len(list) : SelectRow(k)
  BY <1>8 DEF ListTypeOK, ThreadTypeOK, DbTypeOK, TableInv, RowsInv, PathInv, RaceInv,
              LoneInv, Target, SelectRow, Row, NoRow
<1>9. CASE RowActivated
  BY <1>9 DEF ListTypeOK, ThreadTypeOK, DbTypeOK, TableInv, RowsInv, PathInv, RaceInv,
              LoneInv, Target, RowActivated, Row, NoRow
<1>10. CASE NextButton
  BY <1>10 DEF ListTypeOK, ThreadTypeOK, DbTypeOK, TableInv, RowsInv, PathInv, RaceInv,
               LoneInv, Target, NextButton, Row, NoRow
<1>11. CASE PreviousButton
  BY <1>11 DEF ListTypeOK, ThreadTypeOK, DbTypeOK, TableInv, RowsInv, PathInv, RaceInv,
               LoneInv, Target, PreviousButton, Row, NoRow
<1>12. CASE PlayButton
  BY <1>12 DEF ListTypeOK, ThreadTypeOK, DbTypeOK, TableInv, RowsInv, PathInv, RaceInv,
               LoneInv, Target, PlayButton, Row, NoRow
<1>13. CASE Stopping
  BY <1>13 DEF ListTypeOK, ThreadTypeOK, DbTypeOK, TableInv, RowsInv, PathInv, RaceInv,
               LoneInv, Target, Stopping, Row, NoRow
<1>14. CASE PauseButton \/ StopButton \/ LoopButton \/ WakeUp
  BY <1>14 DEF ListTypeOK, ThreadTypeOK, DbTypeOK, TableInv, RowsInv, PathInv, RaceInv,
               LoneInv, Target, PauseButton, StopButton, LoopButton, WakeUp, Row, NoRow
<1>15. CASE Move(t)
  BY <1>15 DEF ListTypeOK, ThreadTypeOK, DbTypeOK, TableInv, RowsInv, PathInv, RaceInv,
               LoneInv, Target, Move, Row, NoRow
<1>16. CASE MoveNowhere(t)
  BY <1>16 DEF ListTypeOK, ThreadTypeOK, DbTypeOK, TableInv, RowsInv, PathInv, RaceInv,
               LoneInv, Target, MoveNowhere, Row, NoRow
<1>17. CASE Place(t)
  BY <1>17 DEF ListTypeOK, ThreadTypeOK, DbTypeOK, TableInv, RowsInv, PathInv, RaceInv,
               LoneInv, Target, Place, Row, NoRow
<1>18. CASE OffTheList(t)
  BY <1>18 DEF ListTypeOK, ThreadTypeOK, DbTypeOK, TableInv, RowsInv, PathInv, RaceInv,
               LoneInv, Target, OffTheList, Row, NoRow
<1>19. CASE ReadRow(t)
  <2>1. /\ pc[t] = "row" /\ pc' = [pc EXCEPT ![t] = "load"]
        /\ row' = [row EXCEPT ![t] = list[path[t]]]
        /\ path[t] \in 1 .. Len(list) /\ row \in [Threads -> Row] /\ pc \in [Threads -> Pcs]
        /\ Len(list) \in Nat
    BY <1>19, LenProperties DEF ReadRow, ThreadTypeOK, PathInv, ListTypeOK
  <2>2. CASE t \notin raced'
    <3>1. /\ \A u \in Threads \ {t} : pc[u] = "idle" 
          /\ t \notin raced
      BY <1>19, <2>2 DEF ReadRow
    <3>2. pc["gtk"] \notin {"set", "remove_db", "remove_row"} /\ refs = {}
      BY <2>1, <3>1 DEF TableInv
    <3>3. ~failed => list[path[t]].id \in DOMAIN db /\ db[list[path[t]].id] = list[path[t]].file
      BY <2>1, <3>2 DEF RowsInv
    <3>4. /\ row'[t] = list[path[t]] /\ pc'[t] = "load" /\ \A u \in Threads \ {t} : pc'[u] = "idle"
          /\ db' = db /\ failed' = failed /\ shrunk' = shrunk /\ playing_status' = playing_status
      BY <1>19, <2>1, <3>1 DEF ReadRow
    <3> QED
      BY <2>1, <3>1, <3>3, <3>4 DEF LoneInv
  <2>3. CASE t \in raced'
    <3>1. \A u \in Threads \ {t} :
            pc'[u] = pc[u] /\ (u \notin raced' => u \notin raced /\ pc[u] = "idle")
      BY <1>19, <2>1, <2>3 DEF ReadRow, RaceInv, ThreadTypeOK
    <3> QED
      BY <2>3, <3>1 DEF LoneInv
  <2> QED
    BY <2>2, <2>3
<1>20. CASE Load(t) \/ StatusPlaying(t) \/ ButtonLabel(t) \/ StateLabel(t)
  BY <1>20 DEF ListTypeOK, ThreadTypeOK, DbTypeOK, TableInv, RowsInv, PathInv, RaceInv,
               LoneInv, Target, Load, StatusPlaying, ButtonLabel, StateLabel, Row, NoRow
<1> QED
  BY <1>1, <1>2, <1>3, <1>4, <1>5, <1>6, <1>7, <1>8, <1>9, <1>10, <1>11, <1>12, <1>13,
     <1>14, <1>15, <1>16, <1>17, <1>18, <1>19, <1>20
  DEF Step, ListStep, ButtonPressed, ScrollStep

\* The labels stay right.
LEMMA LabelInvKept ==
    ASSUME LInv, NEW t \in Threads, Step(t)
    PROVE  LabelInv'
<1> USE ListAssumption
        DEF LInv, TypeOK, Threads, Directions, Ids, Positions, Busy, Goto, Scroll,
            ScrollPcs, Pcs, REPEAT_ALL, REPEAT_SINGLE, NORMAL, dbVars, listVars,
            playVars, labelVars, localVars, removeVars, Labelling, TitleRight, ButtonRight
<1>1. CASE \/ (\E f \in Files : AddSong(f))
          \/ Insert
          \/ InsertFails
          \/ (\E selected \in SUBSET (1 .. Len(list)) : RemoveFiles(selected))
          \/ RemoveFromDb
          \/ RemoveRow
          \/ ReIndex
  BY <1>1 DEF PlayTypeOK, ThreadTypeOK, RaceInv, LoneInv, LabelInv, AddSong, Insert, SetRow,
              InsertFails, RemoveFiles, RemoveFromDb, RemoveRow, ReIndex, Row, NoRow
<1>2. CASE \/ (\E k \in 1 .. Len(list) : SelectRow(k))
          \/ RowActivated
          \/ NextButton
          \/ PreviousButton
          \/ PlayButton
          \/ Stopping
  BY <1>2 DEF PlayTypeOK, ThreadTypeOK, RaceInv, LoneInv, LabelInv, SelectRow, RowActivated,
              NextButton, PreviousButton, PlayButton, Stopping, Row, NoRow
<1>3. CASE PauseButton \/ StopButton \/ LoopButton \/ WakeUp
  BY <1>3 DEF PlayTypeOK, ThreadTypeOK, RaceInv, LoneInv, LabelInv, PauseButton, StopButton,
              LoopButton, WakeUp, Row, NoRow
<1>4. CASE Move(t) \/ MoveNowhere(t) \/ Place(t)
  BY <1>4 DEF PlayTypeOK, ThreadTypeOK, RaceInv, LoneInv, LabelInv, Move, MoveNowhere,
              Place, Row, NoRow
<1>5. CASE OffTheList(t) \/ ReadRow(t)
  BY <1>5 DEF PlayTypeOK, ThreadTypeOK, RaceInv, LoneInv, LabelInv, OffTheList, ReadRow,
              Row, NoRow
<1>6. CASE Load(t) \/ StatusPlaying(t) \/ ButtonLabel(t) \/ StateLabel(t)
  BY <1>6 DEF PlayTypeOK, ThreadTypeOK, RaceInv, LoneInv, LabelInv, Load, StatusPlaying,
              ButtonLabel, StateLabel, Row, NoRow
<1> QED
  BY <1>1, <1>2, <1>3, <1>4, <1>5, <1>6
  DEF Step, ListStep, ButtonPressed, ScrollStep

-------------------------------------------------------------------------------
(* It holds at the start, after a restart, and always.                       *)

\* The list that init_tree_view_data makes of a table: its rows are the songs, in
\* the order of their ids, and numbered.
LEMMA LoadedFacts ==
    ASSUME DbTypeOK, Cardinality(DOMAIN db) <= MaxRows
    PROVE  /\ Loaded(db) \in Seq(Row) /\ Len(Loaded(db)) \in Nat /\ Len(Loaded(db)) <= MaxRows
           /\ \A k \in 1 .. Len(Loaded(db)) :
                /\ Loaded(db)[k].id \in DOMAIN db /\ Loaded(db)[k].index = k
                /\ Loaded(db)[k].file = db[Loaded(db)[k].id]
           /\ \A j, k \in 1 .. Len(Loaded(db)) : j < k => Loaded(db)[j].id < Loaded(db)[k].id
           /\ \A i \in DOMAIN db : \E k \in 1 .. Len(Loaded(db)) : Loaded(db)[k].id = i
<1> DEFINE n == Cardinality(DOMAIN db)
           R(k) == [id |-> Nth(DOMAIN db, k), file |-> db[Nth(DOMAIN db, k)], index |-> k]
<1>1. last_id \in Nat /\ last_id <= MaxId /\ DOMAIN db \subseteq 1 .. last_id
  BY ListAssumption DEF DbTypeOK, Ids
<1>2. /\ n \in Nat
      /\ \A k \in 1 .. n : Nth(DOMAIN db, k) \in DOMAIN db
      /\ \A j, k \in 1 .. n : j < k => Nth(DOMAIN db, j) < Nth(DOMAIN db, k)
      /\ \A i \in DOMAIN db : \E k \in 1 .. n : Nth(DOMAIN db, k) = i
  BY <1>1, NthFacts
<1>3. Loaded(db) = [k \in 1 .. n |-> R(k)]
  BY DEF Loaded
<1>4. ASSUME NEW k \in 1 .. n
      PROVE  /\ R(k) \in Row /\ R(k).id = Nth(DOMAIN db, k)
             /\ R(k).file = db[Nth(DOMAIN db, k)] /\ R(k).index = k
  <2>1. Nth(DOMAIN db, k) \in DOMAIN db
    BY <1>2
  <2>2. Nth(DOMAIN db, k) \in Ids /\ db[Nth(DOMAIN db, k)] \in Files /\ k \in 0 .. MaxRows
    BY <1>1, <1>2, <2>1, ListAssumption DEF DbTypeOK, Ids
  <2> QED
    BY <2>2 DEF Row
<1> HIDE DEF R, n
<1>5. Loaded(db) \in Seq(Row) /\ Len(Loaded(db)) = n
  <2>1. Loaded(db) \in [1 .. n -> Row]
    BY <1>3, <1>4
  <2> QED
    BY <1>2, <2>1, SeqDef, LenProperties
<1>6. \A k \in 1 .. n : Loaded(db)[k] = R(k)
  BY <1>3
<1>7. n <= MaxRows
  BY DEF n
<1>8. ASSUME NEW k \in 1 .. n
      PROVE  /\ Loaded(db)[k].id = Nth(DOMAIN db, k) /\ Loaded(db)[k].index = k
             /\ Loaded(db)[k].file = db[Nth(DOMAIN db, k)]
  BY <1>4, <1>6
<1> QED
  BY <1>2, <1>5, <1>7, <1>8

\* No more songs than rows.
LEMMA TableFits ==
    ASSUME LInv
    PROVE  Cardinality(DOMAIN db) <= MaxRows
<1> DEFINE ids == {list[k].id : k \in 1 .. Len(list)}
<1>1. Len(list) \in Nat /\ Len(list) <= MaxRows
  BY LenProperties DEF LInv, TypeOK, ListTypeOK
<1>2. IsFiniteSet(ids) /\ Cardinality(ids) <= Len(list)
  <2>1. IsFiniteSet(1 .. Len(list)) /\ Cardinality(1 .. Len(list)) = Len(list)
    BY <1>1, FS_Interval
  <2>2. [k \in 1 .. Len(list) |-> list[k].id] \in Surjection(1 .. Len(list), ids)
    BY DEF Surjection
  <2> HIDE DEF ids
  <2>3. IsFiniteSet(ids) /\ Cardinality(ids) <= Cardinality(1 .. Len(list))
    BY <2>1, <2>2, FS_Surjection
  <2> QED
    BY <2>1, <2>3
<1>3. DOMAIN db \in SUBSET ids
  BY DEF LInv, TableInv
<1>4. IsFiniteSet(DOMAIN db) /\ Cardinality(DOMAIN db) <= Cardinality(ids)
  BY <1>2, <1>3, FS_Subset
<1>5. Cardinality(DOMAIN db) \in Nat /\ Cardinality(ids) \in Nat
  BY <1>2, <1>4, FS_CardinalityType
<1> QED
  BY <1>1, <1>2, <1>4, <1>5, ListAssumption

\* Any state in which nothing has happened since the list was loaded.
Fresh ==
    /\ DbTypeOK /\ last_rowid <= last_id /\ Cardinality(DOMAIN db) <= MaxRows /\ failed \in BOOLEAN
    /\ list = Loaded(db) /\ cursor = 0 /\ loop_state = REPEAT_ALL
    /\ playing_status = "STOP" /\ watch_dog_started = FALSE /\ loaded = NoFile
    /\ title = NoFile /\ button = "play" /\ settled = TRUE
    /\ pc = [t \in Threads |-> "idle"] /\ raced = {}
    /\ dir = [t \in Threads |-> "CURRENT"] /\ path = [t \in Threads |-> 0]
    /\ row = [t \in Threads |-> NoRow]
    /\ todo = {} /\ refs = {} /\ shrunk = FALSE

LEMMA FreshIsGood == Fresh => LInv
<1> SUFFICES ASSUME Fresh PROVE LInv
  OBVIOUS
<1> USE DEF Fresh
<1>1. /\ list \in Seq(Row) /\ Len(list) \in Nat /\ Len(list) <= MaxRows
      /\ \A k \in 1 .. Len(list) :
            list[k].id \in DOMAIN db /\ list[k].index = k /\ list[k].file = db[list[k].id]
      /\ \A j, k \in 1 .. Len(list) : j < k => list[j].id < list[k].id
      /\ \A i \in DOMAIN db : \E k \in 1 .. Len(list) : list[k].id = i
  BY LoadedFacts
<1>2. NoRow \in Row
  BY ListAssumption DEF NoRow, Row, Ids
<1>3. ListTypeOK
  BY <1>1 DEF ListTypeOK
<1>4. PlayTypeOK
  BY DEF PlayTypeOK, REPEAT_ALL
<1>5. ThreadTypeOK
  BY <1>2, ListAssumption DEF ThreadTypeOK, Threads, Pcs, Directions, Positions
<1>6. TableInv
  BY <1>1 DEF TableInv, DbTypeOK, Threads
<1>7. RowsInv /\ IndexInv
  BY <1>1 DEF RowsInv, IndexInv, Whole, Threads
<1>8. PathInv /\ RaceInv /\ LoneInv
  BY DEF PathInv, RaceInv, LoneInv, Undisturbed, Threads
<1>9. LabelInv
  BY DEF LabelInv, Labelling, TitleRight, ButtonRight, Threads
<1> QED
  BY <1>3, <1>4, <1>5, <1>6, <1>7, <1>8, <1>9 DEF LInv, TypeOK

LEMMA LInvInit == Init => LInv
<1> SUFFICES ASSUME Init PROVE LInv
  OBVIOUS
<1>1. DOMAIN db = {}
  BY DEF Init
<1>2. DbTypeOK /\ last_rowid <= last_id /\ failed \in BOOLEAN
  <2>1. last_id = 0 /\ last_rowid = 0 /\ failed = FALSE
    BY DEF Init
  <2>2. 0 \in Ids
    BY ListAssumption DEF Ids
  <2>3. DbTypeOK
    BY <1>1, <2>1, <2>2 DEF DbTypeOK
  <2>4. last_rowid <= last_id
    BY <2>1
  <2>5. failed \in BOOLEAN
    BY <2>1
  <2> QED
    BY <2>3, <2>4, <2>5
<1>3. Cardinality(DOMAIN db) <= MaxRows
  <2>1. Cardinality({}) = 0
    BY FS_EmptySet
  <2> QED
    BY <1>1, <2>1, ListAssumption
<1>4. Fresh
  BY <1>2, <1>3 DEF Init, Fresh
<1> QED
  BY <1>4, FreshIsGood

LEMMA LInvRestart ==
    ASSUME LInv, Restart
    PROVE  LInv'
<1>1. DbTypeOK' /\ last_rowid' <= last_id' /\ failed' \in BOOLEAN
  BY ListAssumption DEF Restart, LInv, TypeOK, DbTypeOK, PlayTypeOK, Ids
<1>2. Cardinality(DOMAIN db') <= MaxRows
  BY TableFits DEF Restart
<1>3. Fresh'
  BY <1>1, <1>2 DEF Restart, Fresh
<1> QED
  BY <1>3, FreshIsGood, PTL

LEMMA LInvNext == LInv /\ [Next]_vars => LInv'
<1> SUFFICES ASSUME LInv, [Next]_vars PROVE LInv'
  OBVIOUS
<1>1. CASE Restart
  BY <1>1, LInvRestart
<1>2. ASSUME NEW t \in Threads, Step(t)
      PROVE  LInv'
  BY <1>2, DbTypeOKKept, ListTypeOKKept, PlayTypeOKKept, ThreadTypeOKKept, TableInvKept,
     RowsInvKept, IndexInvKept, RaceInvKept, PathInvKept, LoneInvKept, LabelInvKept
  DEF LInv, TypeOK
<1>3. CASE UNCHANGED vars
  BY <1>3 DEF vars, dbVars, listVars, playVars, labelVars, localVars, removeVars, LInv, TypeOK,
     DbTypeOK, ListTypeOK, PlayTypeOK, ThreadTypeOK, TableInv, RowsInv, IndexInv, PathInv,
     RaceInv, LoneInv, LabelInv, Whole, Undisturbed, Labelling, TitleRight, ButtonRight
<1>4. "gtk" \in Threads
  BY DEF Threads
<1> QED
  BY <1>1, <1>2, <1>3, <1>4 DEF Next, Step

THEOREM LInvHolds == Spec => []LInv
<1> QED
  BY LInvInit, LInvNext, PTL DEF Spec

-------------------------------------------------------------------------------
(* What it gives.                                                            *)

\* The list, the table, the locals of both threads and the labels keep their types.
THEOREM PlaylistTypeCorrect == Spec => []TypeOK
<1>1. LInv => TypeOK
  BY DEF LInv
<1> QED
  BY <1>1, LInvHolds, PTL

\* Between two handlers every song of the table has its row, and unless an insert
\* failed the rows are the songs, each once, in order (main.c, init_tree_view_data,
\* add_song and remove_files; db.c, db_insert_song).
THEOREM ListShowsTheTable == Spec => []ListMatchesDb
<1>1. LInv => ListMatchesDb
  BY DEF LInv, TypeOK, TableInv, RowsInv, Whole, ListMatchesDb, ListIds
<1> QED
  BY <1>1, LInvHolds, PTL

\* The numbers shown are 1, 2, ... between two handlers (main.c, re_index_func).
THEOREM RowsAreNumbered == Spec => []IndexesConsecutive
<1>1. LInv => IndexesConsecutive
  BY DEF LInv, IndexInv, IndexesConsecutive
<1> QED
  BY <1>1, LInvHolds, PTL

\* A handler that met no step of the other thread plays the song of its row
\* (main.c, tree_view_scroll; player_core.c, load_song).
THEOREM LoneLoadIsListed == Spec => []LoadsAreListed
<1>1. LInv => LoadsAreListed
  BY DEF LInv, LoneInv, LoadsAreListed
<1> QED
  BY <1>1, LInvHolds, PTL

\* After such a handler the window shows what plays (main.c,
\* update_play_button_label and update_play_state_label).
THEOREM WindowShowsWhatPlays == Spec => []ShownIsPlayed
<1>1. LInv => ShownIsPlayed
  BY DEF LInv, LabelInv, Labelling, TitleRight, ButtonRight, ShownIsPlayed, Threads
<1> QED
  BY <1>1, LInvHolds, PTL

\* Only rows removed under the watchdog's scroll make it use a row that is not
\* there (main.c, tree_view_scroll).
THEOREM StaysOnTheList == Spec => []OffTheListOnlyByRemoval
<1>1. LInv => OffTheListOnlyByRemoval
  BY DEF LInv, PathInv, Undisturbed, OffTheListOnlyByRemoval, Threads, TypeOK, PlayTypeOK
<1> QED
  BY <1>1, LInvHolds, PTL

\* The row around the ends, counted without a remainder.
LEMMA NeighbourFacts ==
    ASSUME NEW n \in Nat, n > 0, NEW c \in 0 .. n
    PROVE  /\ Neighbour("DOWN", c, n) = IF c = n THEN 1 ELSE c + 1
           /\ c # 0 => Neighbour("UP", c, n) = IF c = 1 THEN n ELSE c - 1
           /\ Neighbour("UP", 1, n) = n
           /\ Neighbour("CURRENT", c, n) = IF c = 0 THEN 1 ELSE c
<1>1. ASSUME NEW m \in Int, 0 <= m, m < n
      PROVE  m % n = m /\ (m + n) % n = m
  BY <1>1
<1>2. c % n = IF c = n THEN 0 ELSE c
  <2>1. 0 <= 0 /\ 0 < n /\ 0 + n = n
    OBVIOUS
  <2>2. n % n = 0
    BY <1>1, <2>1
  <2>3. c # n => c % n = c
    BY <1>1
  <2> QED
    BY <2>2, <2>3
<1>3. ASSUME NEW d \in 1 .. n
      PROVE  (d + n - 2) % n = IF d = 1 THEN n - 1 ELSE d - 2
  <2>1. CASE d = 1
    <3>1. d + n - 2 = n - 1 /\ n - 1 \in Int /\ 0 <= n - 1 /\ n - 1 < n
      BY <2>1
    <3> QED
      BY <1>1, <2>1, <3>1
  <2>2. CASE d # 1
    <3>1. d + n - 2 = (d - 2) + n /\ d - 2 \in Int /\ 0 <= d - 2 /\ d - 2 < n
      BY <2>2
    <3> QED
      BY <1>1, <2>2, <3>1
  <2> QED
    BY <2>1, <2>2
<1>4. c \in Int /\ 1 \in 1 .. n /\ (c # 0 => c \in 1 .. n)
  OBVIOUS
<1>5. Neighbour("DOWN", c, n) = (c % n) + 1
      /\ \A d : Neighbour("UP", d, n) = ((d + n - 2) % n) + 1
  BY DEF Neighbour
<1>6. \A d \in 1 .. n : (d + n - 2) % n = IF d = 1 THEN n - 1 ELSE d - 2
  BY <1>3
<1>7. \A d \in 1 .. n : Neighbour("UP", d, n) = IF d = 1 THEN n ELSE d - 1
  BY <1>5, <1>6
<1>8. Neighbour("DOWN", c, n) = IF c = n THEN 1 ELSE c + 1
  BY <1>2, <1>4, <1>5
<1> QED
  BY <1>4, <1>7, <1>8 DEF Neighbour

\* A scroll that met no other step goes one row, around the ends, in every loop
\* mode (main.c, tree_view_scroll).
THEOREM ScrollGoesByOne == Spec => ScrollsByOne
<1>1. ASSUME LInv, [Next]_vars, NEW t \in Threads,
             pc[t] = "place", pc'[t] = "row", t \notin raced'
      PROVE  cursor' = Neighbour(dir[t], IF cursor = 0 /\ dir[t] = "UP" THEN 1 ELSE cursor,
                                 Len(list))
  <2>1. Place(t)
    <3> USE DEF LInv, TypeOK, ThreadTypeOK, Goto, Threads
    <3>1. CASE Restart
      BY <1>1, <3>1 DEF Restart
    <3>2. CASE ListStep
      BY <1>1, <3>2 DEF ListStep, AddSong, Insert, InsertFails, SetRow, RemoveFiles, RemoveFromDb,
         RemoveRow, ReIndex
    <3>3. CASE ButtonPressed
      BY <1>1, <3>3 DEF ButtonPressed, SelectRow, RowActivated, NextButton, PreviousButton,
         PauseButton, PlayButton, StopButton, LoopButton, Scroll
    <3>4. CASE WakeUp \/ Stopping
      BY <1>1, <3>4 DEF WakeUp, Stopping, Scroll
    <3>5. ASSUME NEW u \in Threads, ScrollStep(u)
          PROVE  Place(t)
      <4>1. CASE u = t
        BY <1>1, <3>5, <4>1 DEF ScrollStep, Move, MoveNowhere, Place, OffTheList, ReadRow, Load,
           StatusPlaying, ButtonLabel, StateLabel
      <4>2. CASE u # t
        BY <1>1, <3>5, <4>2 DEF ScrollStep, Move, MoveNowhere, Place, OffTheList, ReadRow, Load,
           StatusPlaying, ButtonLabel, StateLabel
      <4> QED
        BY <4>1, <4>2
    <3>6. CASE UNCHANGED vars
      BY <1>1, <3>6 DEF vars
    <3> QED
      BY <1>1, <3>1, <3>2, <3>3, <3>4, <3>5, <3>6 DEF Next
  <2>2. t \notin raced
    BY <1>1, <2>1 DEF Place, Goto
  <2>3. path[t] = Target(dir[t], cursor, Len(list))
    BY <1>1, <2>2 DEF LInv, LoneInv
  <2>4. /\ cursor' = IF path[t] \in 1 .. Len(list) THEN path[t] ELSE 1
        /\ path[t] \in 1 .. Len(list) \/ list # <<>>
    BY <2>1 DEF Place
  <2>5. /\ list \in Seq(Row) /\ Len(list) \in Nat /\ cursor \in 0 .. Len(list)
        /\ dir[t] \in {"DOWN", "UP", "CURRENT"}
    BY <1>1, LenProperties DEF LInv, TypeOK, ListTypeOK, ThreadTypeOK, Directions
  <2>6. Len(list) > 0
    BY <2>4, <2>5, EmptySeq
  <2>7. CASE dir[t] = "DOWN"
    <3>1. path[t] = IF cursor = 0 THEN 1 ELSE cursor + 1
      BY <2>3, <2>7 DEF Target
    <3>2. Neighbour("DOWN", cursor, Len(list)) = IF cursor = Len(list) THEN 1 ELSE cursor + 1
      BY <2>5, <2>6, NeighbourFacts
    <3> QED
      BY <2>4, <2>5, <2>6, <2>7, <3>1, <3>2
  <2>8. CASE dir[t] = "UP"
    <3>1. path[t] = IF cursor \in {0, 1} THEN Len(list) ELSE cursor - 1
      BY <2>3, <2>8 DEF Target
    <3>2. /\ cursor # 0 =>
                Neighbour("UP", cursor, Len(list)) = IF cursor = 1 THEN Len(list) ELSE cursor - 1
          /\ Neighbour("UP", 1, Len(list)) = Len(list)
      BY <2>5, <2>6, NeighbourFacts
    <3> QED
      BY <2>4, <2>5, <2>6, <2>8, <3>1, <3>2
  <2>9. CASE dir[t] = "CURRENT"
    <3>1. path[t] = IF cursor = 0 THEN 1 ELSE cursor
      BY <2>3, <2>9 DEF Target
    <3>2. Neighbour("CURRENT", cursor, Len(list)) = IF cursor = 0 THEN 1 ELSE cursor
      BY <2>5, <2>6, NeighbourFacts
    <3> QED
      BY <2>4, <2>5, <2>6, <2>9, <3>1, <3>2
  <2> QED
    BY <2>5, <2>7, <2>8, <2>9
<1>2. LInv /\ [Next]_vars =>
        \A t \in Threads : pc[t] = "place" /\ pc'[t] = "row" /\ t \notin raced' =>
          cursor' = Neighbour(dir[t], IF cursor = 0 /\ dir[t] = "UP" THEN 1 ELSE cursor, Len(list))
  BY <1>1
<1> QED
  BY <1>2, LInvHolds, PTL DEF Spec, ScrollsByOne
===============================================================================
