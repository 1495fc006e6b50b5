---------------------------- MODULE SongDbProofs ----------------------------
(* What holds of the song database for any threads and any number of songs.*)
EXTENDS SongDb, FiniteSetTheorems, TLAPS

\* A load that met no other is the only one under way.
AloneInv ==
    \A t \in Threads : alone = t => \A u \in Threads \ {t} : pc[u] = "idle"

\* Such a load finds its statements as it left them, whatever state earlier
\* loads left them in.
PathInv(t) ==
    /\ t \notin dangling
    /\ pc[t] = "path_bind" => path_stmt.at = "reset"
    /\ pc[t] = "path_step" => path_stmt.at = "reset" /\ path_stmt.id = id[t]
    /\ pc[t] = "path_text" => path_stmt.at = "row" /\ path_stmt.id = id[t]
    /\ pc[t] \in PathPcs => path[t] = 0
    /\ pc[t] \notin PathPcs => PathRight(t)

MarkInv(t) ==
    /\ pc[t] \in MarkPcs => playing = {}
    /\ pc[t] = "state_bind" => state_stmt.at = "reset"
    /\ pc[t] = "state_step" => state_stmt.id = id[t]
    /\ pc[t] \in {"load", "idle"} => playing = {id[t]} \cap rows

LoneInv == \A t \in Threads : alone = t => PathInv(t) /\ MarkInv(t)

\* The threads that have reset all marks and not yet set theirs.
Marking == {t \in Threads : pc[t] \in MarkPcs}
CountInv == Cardinality(playing) + Cardinality(Marking) <= Cardinality(Threads)

\* While no thread is about to mark, the song of the last update is marked.
LastInv ==
    Marking = {} /\ state_stmt.at = "done" /\ state_stmt.id \in rows
        => state_stmt.id \in playing

DInv == TypeOK /\ AloneInv /\ LoneInv /\ CountInv /\ LastInv

-----------------------------------------------------------------------------
\* The calls of SQLite keep a statement a statement; a reset statement takes the
\* id bound, and steps to its row if there is one.
LEMMA StatementCalls ==
    ASSUME NEW s \in Statement, NEW i \in Ids
    PROVE  /\ Reset(s) \in Statement /\ Reset(s).at = "reset" /\ Reset(s).id = s.id
           /\ Bind(s, i) \in Statement /\ Bind(s, i).at = s.at
           /\ s.at = "reset" => Bind(s, i).id = i
           /\ StepSelect(s) \in Statement /\ StepSelect(s).id = s.id
           /\ s.at = "reset" => StepSelect(s).at = IF s.id \in rows THEN "row" ELSE "done"
<1> QED
  BY DEF Statement, Reset, Bind, StepSelect

\* Every step keeps the types.
LEMMA TypeStep == TypeOK /\ [Next]_vars => TypeOK'
<1> SUFFICES ASSUME TypeOK, [Next]_vars PROVE TypeOK'
  OBVIOUS
<1> USE DbAssumption DEF TypeOK, Ids, Pcs, PathPcs, MarkPcs, Goto, fileVars, localVars
<1>1. CASE UNCHANGED vars
  BY <1>1 DEF vars
<1>2. CASE Restart
  BY <1>2 DEF Restart, Statement
<1>3. CASE Insert
  BY <1>3 DEF Insert, Statement
<1>4. ASSUME NEW i \in Ids, Delete(i) PROVE TypeOK'
  BY <1>4 DEF Delete
<1>5. ASSUME NEW t \in Threads, NEW i \in Ids, LoadSong(t, i) PROVE TypeOK'
  BY <1>5 DEF LoadSong
<1>6. ASSUME NEW t \in Threads, PathReset(t) PROVE TypeOK'
  BY <1>6, StatementCalls DEF PathReset, Holders
<1>7. ASSUME NEW t \in Threads, PathBind(t) PROVE TypeOK'
  <2>1. id[t] \in Ids
    OBVIOUS
  <2>2. Bind(path_stmt, id[t]) \in Statement
    BY <2>1, StatementCalls
  <2> QED
    BY <1>7, <2>2 DEF PathBind
<1>8. ASSUME NEW t \in Threads, PathStep(t) PROVE TypeOK'
  BY <1>8, StatementCalls DEF PathStep, Holders
<1>9. ASSUME NEW t \in Threads, PathText(t) PROVE TypeOK'
  BY <1>9 DEF PathText, Statement
<1>10. ASSUME NEW t \in Threads, StateAll(t) PROVE TypeOK'
  BY <1>10 DEF StateAll
<1>11. ASSUME NEW t \in Threads, StateReset(t) PROVE TypeOK'
  BY <1>11, StatementCalls DEF StateReset
<1>12. ASSUME NEW t \in Threads, StateBind(t) PROVE TypeOK'
  BY <1>12, StatementCalls DEF StateBind, Bind
<1>13. ASSUME NEW t \in Threads, StateStep(t) PROVE TypeOK'
  BY <1>13 DEF StateStep, Statement
<1>14. ASSUME NEW t \in Threads, Load(t) PROVE TypeOK'
  BY <1>14 DEF Load
<1> QED
  BY <1>1, <1>2, <1>3, <1>4, <1>5, <1>6, <1>7, <1>8, <1>9, <1>10,
     <1>11, <1>12, <1>13, <1>14 DEF Next, LoadStep

\* A load starts alone or takes the distinction away.
LEMMA AloneStep == TypeOK /\ AloneInv /\ [Next]_vars => AloneInv'
<1> SUFFICES ASSUME TypeOK /\ AloneInv, [Next]_vars PROVE AloneInv'
  OBVIOUS
<1> USE DbAssumption DEF TypeOK, AloneInv, Goto, fileVars, localVars
<1>1. CASE UNCHANGED vars
  BY <1>1 DEF vars
<1>2. CASE Restart
  BY <1>2 DEF Restart
<1>3. CASE Insert
  BY <1>3 DEF Insert
<1>4. ASSUME NEW i \in Ids, Delete(i) PROVE AloneInv'
  BY <1>4 DEF Delete
<1>5. ASSUME NEW t \in Threads, NEW i \in Ids, LoadSong(t, i) PROVE AloneInv'
  BY <1>5 DEF LoadSong
<1>6. ASSUME NEW t \in Threads, PathReset(t) PROVE AloneInv'
  BY <1>6 DEF PathReset
<1>7. ASSUME NEW t \in Threads, PathBind(t) PROVE AloneInv'
  BY <1>7 DEF PathBind
<1>8. ASSUME NEW t \in Threads, PathStep(t) PROVE AloneInv'
  BY <1>8 DEF PathStep
<1>9. ASSUME NEW t \in Threads, PathText(t) PROVE AloneInv'
  BY <1>9 DEF PathText
<1>10. ASSUME NEW t \in Threads, StateAll(t) PROVE AloneInv'
  BY <1>10 DEF StateAll
<1>11. ASSUME NEW t \in Threads, StateReset(t) PROVE AloneInv'
  BY <1>11 DEF StateReset
<1>12. ASSUME NEW t \in Threads, StateBind(t) PROVE AloneInv'
  BY <1>12 DEF StateBind
<1>13. ASSUME NEW t \in Threads, StateStep(t) PROVE AloneInv'
  BY <1>13 DEF StateStep
<1>14. ASSUME NEW t \in Threads, Load(t) PROVE AloneInv'
  BY <1>14 DEF Load
<1> QED
  BY <1>1, <1>2, <1>3, <1>4, <1>5, <1>6, <1>7, <1>8, <1>9, <1>10,
     <1>11, <1>12, <1>13, <1>14 DEF Next, LoadStep

\* No step of another thread can disturb a load that met no other.
LEMMA LoneStep == TypeOK /\ AloneInv /\ LoneInv /\ [Next]_vars => LoneInv'
<1> SUFFICES ASSUME TypeOK /\ AloneInv /\ LoneInv, [Next]_vars PROVE LoneInv'
  OBVIOUS
<1> USE DbAssumption DEF TypeOK, AloneInv, LoneInv, PathInv, MarkInv, PathRight, Ids,
        Pcs, PathPcs, MarkPcs, Goto, fileVars, localVars
<1>1. CASE UNCHANGED vars
  BY <1>1 DEF vars
<1>2. CASE Restart
  BY <1>2 DEF Restart
<1>3. CASE Insert
  BY <1>3 DEF Insert
<1>4. ASSUME NEW i \in Ids, Delete(i) PROVE LoneInv'
  BY <1>4 DEF Delete
<1>5. ASSUME NEW t \in Threads, NEW i \in Ids, LoadSong(t, i) PROVE LoneInv'
  BY <1>5 DEF LoadSong
<1>6. ASSUME NEW t \in Threads, PathReset(t) PROVE LoneInv'
  BY <1>6, StatementCalls DEF PathReset, Holders
<1>7. ASSUME NEW t \in Threads, PathBind(t) PROVE LoneInv'
  BY <1>7, StatementCalls DEF PathBind
<1>8. ASSUME NEW t \in Threads, PathStep(t) PROVE LoneInv'
  BY <1>8, StatementCalls DEF PathStep, Holders
<1>9. ASSUME NEW t \in Threads, PathText(t) PROVE LoneInv'
  BY <1>9 DEF PathText
<1>10. ASSUME NEW t \in Threads, StateAll(t) PROVE LoneInv'
  BY <1>10 DEF StateAll
<1>11. ASSUME NEW t \in Threads, StateReset(t) PROVE LoneInv'
  BY <1>11, StatementCalls DEF StateReset
<1>12. ASSUME NEW t \in Threads, StateBind(t) PROVE LoneInv'
  BY <1>12, StatementCalls DEF StateBind, Bind
<1>13. ASSUME NEW t \in Threads, StateStep(t) PROVE LoneInv'
  BY <1>13 DEF StateStep, Statement
<1>14. ASSUME NEW t \in Threads, Load(t) PROVE LoneInv'
  BY <1>14 DEF Load
<1> QED
  BY <1>1, <1>2, <1>3, <1>4, <1>5, <1>6, <1>7, <1>8, <1>9, <1>10,
     <1>11, <1>12, <1>13, <1>14 DEF Next, LoadStep

\* What is counted is finite.
LEMMA Finite ==
    ASSUME TypeOK
    PROVE  /\ IsFiniteSet(playing) /\ Cardinality(playing) \in Nat
           /\ IsFiniteSet(Marking) /\ Cardinality(Marking) \in Nat
           /\ Cardinality(Marking) <= Cardinality(Threads)
           /\ Cardinality(Threads) \in Nat
<1>1. last_id \in Int /\ playing \in SUBSET (1 .. last_id)
  BY DbAssumption DEF TypeOK, Ids
<1>2. IsFiniteSet(playing)
  <2>1. IsFiniteSet(1 .. last_id)
    BY <1>1, FS_Interval
  <2> QED
    BY <1>1, <2>1, FS_Subset
<1>3. Marking \in SUBSET Threads
  BY DEF Marking
<1>4. IsFiniteSet(Marking) /\ Cardinality(Marking) <= Cardinality(Threads)
  BY <1>3, FS_Subset, DbAssumption
<1> QED
  BY <1>2, <1>4, FS_CardinalityType, DbAssumption

\* Marks and threads about to mark: a reset of all marks frees the place of the
\* thread that then sets its own.
LEMMA CountStep == TypeOK /\ CountInv /\ [Next]_vars => CountInv'
<1> SUFFICES ASSUME TypeOK, CountInv, [Next]_vars PROVE CountInv'
  OBVIOUS
<1> USE DEF Goto, fileVars, localVars
<1>1. ASSUME playing' = playing, Marking' = Marking PROVE CountInv'
  BY <1>1 DEF CountInv
<1>2. CASE Restart
  <2>1. Marking' = {} /\ playing' = playing
    BY <1>2 DEF Restart, Marking, MarkPcs
  <2> QED
    BY <2>1, FS_EmptySet, Finite DEF CountInv
<1>3. ASSUME NEW i \in Ids, Delete(i) PROVE CountInv'
  <2>1. playing' \in SUBSET playing /\ Marking' = Marking
    BY <1>3 DEF Delete, Marking
  <2>2. IsFiniteSet(playing') /\ Cardinality(playing') <= Cardinality(playing)
    BY <2>1, Finite, FS_Subset
  <2>3. Cardinality(playing') \in Nat
    BY <2>2, FS_CardinalityType
  <2> QED
    BY <2>1, <2>2, <2>3, Finite DEF CountInv
<1>4. ASSUME NEW t \in Threads, StateAll(t) PROVE CountInv'
  <2>1. playing' = {} /\ Marking' \in SUBSET Threads
    BY <1>4 DEF StateAll, Marking
  <2>2. Cardinality(playing') = 0 /\ Cardinality(Marking') <= Cardinality(Threads)
    BY <2>1, FS_EmptySet, FS_Subset, DbAssumption
  <2>3. Cardinality(Marking') \in Nat
    BY <2>1, FS_Subset, FS_CardinalityType, DbAssumption
  <2> QED
    BY <2>2, <2>3, Finite DEF CountInv
<1>5. ASSUME NEW t \in Threads, StateStep(t) PROVE CountInv'
  <2>1. t \in Marking /\ Marking' = Marking \ {t}
    BY <1>5 DEF StateStep, Marking, TypeOK, MarkPcs
  <2>2. Cardinality(Marking') = Cardinality(Marking) - 1
    BY <2>1, Finite, FS_RemoveElement
  <2>3. /\ IsFiniteSet(playing \cup {state_stmt.id})
        /\ Cardinality(playing \cup {state_stmt.id}) <= Cardinality(playing) + 1
        /\ Cardinality(playing \cup {state_stmt.id}) \in Nat
    <3>1. /\ IsFiniteSet(playing \cup {state_stmt.id})
          /\ Cardinality(playing \cup {state_stmt.id}) =
                IF state_stmt.id \in playing THEN Cardinality(playing)
                ELSE Cardinality(playing) + 1
      BY Finite, FS_AddElement
    <3> QED
      BY <3>1, Finite
  <2>4. playing' \in SUBSET (playing \cup {state_stmt.id})
    BY <1>5 DEF StateStep
  <2>5. Cardinality(playing') <= Cardinality(playing \cup {state_stmt.id})
        /\ Cardinality(playing') \in Nat
    BY <2>3, <2>4, FS_Subset, FS_CardinalityType
  <2> QED
    BY <2>2, <2>3, <2>5, Finite DEF CountInv
<1>6. CASE UNCHANGED vars \/ Insert
  BY <1>1, <1>6 DEF vars, Insert, Marking
<1>7. ASSUME NEW t \in Threads, NEW i \in Ids, LoadSong(t, i) PROVE CountInv'
  <2>1. playing' = playing /\ Marking' = Marking
    BY <1>7 DEF LoadSong, Marking, MarkPcs, TypeOK
  <2> QED
    BY <1>1, <2>1
<1>8. ASSUME NEW t \in Threads,
             PathReset(t) \/ PathBind(t) \/ PathStep(t) \/ PathText(t)
      PROVE  CountInv'
  <2>1. playing' = playing /\ Marking' = Marking
    BY <1>8 DEF PathReset, PathBind, PathStep, PathText, Marking, MarkPcs, TypeOK
  <2> QED
    BY <1>1, <2>1
<1>9. ASSUME NEW t \in Threads, StateReset(t) \/ StateBind(t) \/ Load(t)
       PROVE  CountInv'
  <2>1. playing' = playing /\ Marking' = Marking
    BY <1>9 DEF StateReset, StateBind, Load, Marking, MarkPcs, TypeOK
  <2> QED
    BY <1>1, <2>1
<1> QED
  BY <1>2, <1>3, <1>4, <1>5, <1>6, <1>7, <1>8, <1>9
     DEF Next, LoadStep

\* A reset of all marks is followed by an update of the same thread, which marks
\* whatever song the statement then holds; a song added later has a new id.
LEMMA LastStep == TypeOK /\ LastInv /\ [Next]_vars => LastInv'
<1> SUFFICES ASSUME TypeOK, LastInv, [Next]_vars PROVE LastInv'
  OBVIOUS
<1> USE DEF TypeOK, LastInv, Marking, MarkPcs, PathPcs, Goto, fileVars, localVars
<1>1. CASE UNCHANGED vars
  BY <1>1 DEF vars
<1>2. CASE Restart
  BY <1>2 DEF Restart
<1>3. CASE Insert
  BY <1>3, DbAssumption DEF Insert, Ids, Statement
<1>4. ASSUME NEW i \in Ids, Delete(i) PROVE LastInv'
  BY <1>4 DEF Delete
<1>5. ASSUME NEW t \in Threads, NEW i \in Ids, LoadSong(t, i) PROVE LastInv'
  BY <1>5 DEF LoadSong
<1>6. ASSUME NEW t \in Threads, PathReset(t) \/ PathBind(t) \/ PathStep(t) \/ PathText(t)
      PROVE  LastInv'
  BY <1>6 DEF PathReset, PathBind, PathStep, PathText
<1>7. ASSUME NEW t \in Threads, StateAll(t) PROVE LastInv'
  BY <1>7 DEF StateAll
<1>8. ASSUME NEW t \in Threads, StateReset(t) \/ StateBind(t) PROVE LastInv'
  BY <1>8 DEF StateReset, StateBind
<1>9. ASSUME NEW t \in Threads, StateStep(t) PROVE LastInv'
  BY <1>9 DEF StateStep, Statement
<1>10. ASSUME NEW t \in Threads, Load(t) PROVE LastInv'
  BY <1>10 DEF Load
<1> QED
  BY <1>1, <1>2, <1>3, <1>4, <1>5, <1>6, <1>7, <1>8, <1>9, <1>10
     DEF Next, LoadStep

-----------------------------------------------------------------------------
\* The empty table of the first start satisfies the invariant.
LEMMA InitDInv == Init => DInv
<1> SUFFICES ASSUME Init PROVE DInv
  OBVIOUS
<1>1. TypeOK
  BY DbAssumption DEF Init, TypeOK, Statement, Ids, Pcs
<1>2. AloneInv /\ LoneInv
  BY DbAssumption DEF Init, AloneInv, LoneInv
<1>3. playing = {} /\ Cardinality(playing) = 0
  BY FS_EmptySet DEF Init
<1> QED
  BY <1>1, <1>2, <1>3, Finite DEF DInv, CountInv, LastInv, Init

\* The inductive invariant holds in every reachable state of the database.
THEOREM DbInvariance == Spec => []DInv
<1>1. DInv /\ [Next]_vars => DInv'
  BY TypeStep, AloneStep, LoneStep, CountStep, LastStep DEF DInv
<1> QED
  BY <1>1, InitDInv, PTL DEF Spec

\* Every variable keeps its range, and no id held anywhere is one still to be given.
THEOREM DbTypeCorrect == Spec => []TypeOK
<1>1. DInv => TypeOK
  BY DEF DInv
<1> QED
  BY <1>1, DbInvariance, PTL

\* A load_song that meets no other hands cp_load_file the path of its song,
\* whatever state other loads have left the statement in before.
THEOREM LoneLoadGetsItsPath == Spec => []PathIsAsked
<1>1. DInv => PathIsAsked
  BY DEF DInv, LoneInv, PathInv, PathIsAsked, PathPcs
<1> QED
  BY <1>1, DbInvariance, PTL

\* And it leaves its song marked and no other, until the next load.
THEOREM LoneLoadMarksItsSong == Spec => []PlayingIsLoaded
<1>1. DInv => PlayingIsLoaded
  BY DEF DInv, LoneInv, MarkInv, PlayingIsLoaded
<1> QED
  BY <1>1, DbInvariance, PTL

\* Whenever no load is under way, the song of the last update is marked, however
\* the loads before it interleaved and wherever earlier runs of the program ended.
THEOREM LastMarkIsKept == Spec => []LastMarkStands
<1>1. DInv => LastMarkStands
  BY DEF DInv, LastInv, LastMarkStands, Marking, MarkPcs
<1> QED
  BY <1>1, DbInvariance, PTL

\* Interleaved loads leave at most one mark for each thread, for any number of
\* threads, loads and restarts.
THEOREM MarksStayBounded == Spec => []MarksBounded
<1>1. DInv => MarksBounded
  BY Finite DEF DInv, CountInv, MarksBounded
<1> QED
  BY <1>1, DbInvariance, PTL

=============================================================================
