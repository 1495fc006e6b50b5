------------------------------- MODULE SongDb -------------------------------
(***************************************************************************)
(* The song database (src/db.c) as load_song (player_core.c:16) and the    *)
(* GTK handlers use it: a table of songs, one of them marked as playing,   *)
(* and one prepared statement per query.  The GTK thread and the watchdog  *)
(* share the statements; SQLite serializes its calls, nothing serializes   *)
(* the sequences of calls.                                                 *)
(*                                                                         *)
(* A song is its id, and so is its path: 0 is no song and the null path.   *)
(***************************************************************************)
EXTENDS Naturals, FiniteSets

CONSTANTS
    Threads,    \* the threads that load songs
    Gtk,        \* the one that also inserts and deletes
    NoThread,
    MaxId       \* bound: ids ever given to a song

ASSUME DbAssumption ==
    /\ IsFiniteSet(Threads) /\ Gtk \in Threads /\ NoThread \notin Threads
    /\ MaxId \in Nat

VARIABLES
    rows, playing, last_id,     \* the file: ids, is_playing = 1, AUTOINCREMENT
    path_stmt, state_stmt,      \* get_song_path_stmt, update_song_state_stmt
    pc, id, path,               \* a thread in load_song and its two locals
    dangling,                   \* threads whose `path` SQLite has released
    alone                       \* history: the last thread to start a load, if
                                \* no other was in load_song then

fileVars == <<rows, playing, last_id>>
localVars == <<id, path, dangling, alone>>
vars == <<fileVars, path_stmt, state_stmt, pc, localVars>>

Ids == 0 .. MaxId
PathPcs == {"path_reset", "path_bind", "path_step", "path_text"}
MarkPcs == {"state_reset", "state_bind", "state_step"}
Pcs == {"idle", "state_all", "load"} \cup PathPcs \cup MarkPcs

Goto(t, l) == pc' = [pc EXCEPT ![t] = l]

-----------------------------------------------------------------------------
(* SQLite.  A statement is new (reset), on its row, or done.               *)

Statement == [id : Ids, at : {"reset", "row", "done"}]
Reset(s) == [s EXCEPT !.at = "reset"]

\* A bind on a statement that was stepped and not reset is refused (MISUSE).
Bind(s, i) == IF s.at = "reset" THEN [s EXCEPT !.id = i] ELSE s

\* A step of a select by id: the row, then done; a step when done starts anew.
StepSelect(s) ==
    [s EXCEPT !.at = IF s.at # "row" /\ s.id \in rows THEN "row" ELSE "done"]

\* The threads that got their path from the statement and have yet to use it:
\* a reset or a step of the statement releases the text.
Holders == {t \in Threads : pc[t] \in MarkPcs \cup {"state_all", "load"} /\ path[t] # 0}

-----------------------------------------------------------------------------
Init ==
    /\ rows = {} /\ playing = {} /\ last_id = 0
    /\ path_stmt = [id |-> 0, at |-> "reset"]
    /\ state_stmt = [id |-> 0, at |-> "reset"]
    /\ pc = [t \in Threads |-> "idle"]
    /\ id = [t \in Threads |-> 0] /\ path = [t \in Threads |-> 0]
    /\ dangling = {} /\ alone = NoThread

\* The program ends, or is killed, and starts again on the same file.
Restart ==
    /\ path_stmt' = [id |-> 0, at |-> "reset"]
    /\ state_stmt' = [id |-> 0, at |-> "reset"]
    /\ pc' = [t \in Threads |-> "idle"]
    /\ id' = [t \in Threads |-> 0] /\ path' = [t \in Threads |-> 0]
    /\ dangling' = {} /\ alone' = NoThread
    /\ UNCHANGED fileVars

-----------------------------------------------------------------------------
(* The GTK thread adds and removes songs.                                  *)

InsertReusesIds ==
    /\ pc[Gtk] = "idle" /\ last_id < MaxId
    /\ \E i \in 1 .. MaxId :
          /\ i - 1 \in rows \cup {0} /\ rows \subseteq 1 .. i - 1
          /\ last_id' = i /\ rows' = rows \cup {i}
    /\ UNCHANGED <<playing, path_stmt, state_stmt, pc, localVars>>

Insert ==
    /\ pc[Gtk] = "idle" /\ last_id < MaxId
    /\ last_id' = last_id + 1
    /\ rows' = rows \cup {last_id + 1}
    /\ UNCHANGED <<playing, path_stmt, state_stmt, pc, localVars>>

Delete(i) ==
    /\ pc[Gtk] = "idle" /\ i \in rows
    /\ rows' = rows \ {i} /\ playing' = playing \ {i}
    /\ UNCHANGED <<last_id, path_stmt, state_stmt, pc, localVars>>

-----------------------------------------------------------------------------
(* load_song(i).  Either thread may be asked for a song that is not in the *)
(* table: the watchdog finds one that was just deleted, or a row whose id  *)
(* is not set yet (0), and a row whose insert failed has the id that       *)
(* sqlite3_last_insert_rowid still gives, of a song since deleted, or 0.   *)

LoadSong(t, i) ==
    /\ pc[t] = "idle" /\ i <= last_id
    /\ id' = [id EXCEPT ![t] = i] /\ path' = [path EXCEPT ![t] = 0]
    /\ dangling' = dangling \ {t}
    /\ alone' = IF \A u \in Threads : pc[u] = "idle" THEN t ELSE NoThread
    /\ Goto(t, "path_reset")
    /\ UNCHANGED <<fileVars, path_stmt, state_stmt>>

PathResetOmitted(t) ==
    /\ pc[t] = "path_reset" /\ Goto(t, "path_bind")
    /\ UNCHANGED <<fileVars, path_stmt, state_stmt, localVars>>

PathReset(t) ==
    /\ pc[t] = "path_reset" /\ Goto(t, "path_bind")
    /\ path_stmt' = Reset(path_stmt)
    /\ dangling' = dangling \cup Holders
    /\ UNCHANGED <<fileVars, state_stmt, id, path, alone>>

PathBind(t) ==
    /\ pc[t] = "path_bind" /\ Goto(t, "path_step")
    /\ path_stmt' = Bind(path_stmt, id[t])
    /\ UNCHANGED <<fileVars, state_stmt, localVars>>

PathStep(t) ==
    /\ pc[t] = "path_step"
    /\ path_stmt' = StepSelect(path_stmt)
    /\ dangling' = dangling \cup Holders
    /\ Goto(t, IF path_stmt'.at = "row" THEN "path_text" ELSE "state_all")
    /\ UNCHANGED <<fileVars, state_stmt, id, path, alone>>

\* sqlite3_column_text gives the row the statement is on now, if any.
PathText(t) ==
    /\ pc[t] = "path_text" /\ Goto(t, "state_all")
    /\ path' = [path EXCEPT ![t] = IF path_stmt.at = "row" THEN path_stmt.id ELSE 0]
    /\ UNCHANGED <<fileVars, path_stmt, state_stmt, id, dangling, alone>>

StateAllOmitted(t) ==
    /\ pc[t] = "state_all" /\ Goto(t, "state_reset")
    /\ UNCHANGED <<fileVars, path_stmt, state_stmt, localVars>>

StateAll(t) ==
    /\ pc[t] = "state_all" /\ Goto(t, "state_reset")
    /\ playing' = {}
    /\ UNCHANGED <<rows, last_id, path_stmt, state_stmt, localVars>>

StateResetOmitted(t) ==
    /\ pc[t] = "state_reset" /\ Goto(t, "state_bind")
    /\ UNCHANGED <<fileVars, path_stmt, state_stmt, localVars>>

StateReset(t) ==
    /\ pc[t] = "state_reset" /\ Goto(t, "state_bind")
    /\ state_stmt' = Reset(state_stmt)
    /\ UNCHANGED <<fileVars, path_stmt, localVars>>

StateBind(t) ==
    /\ pc[t] = "state_bind" /\ Goto(t, "state_step")
    /\ state_stmt' = Bind(state_stmt, id[t])
    /\ UNCHANGED <<fileVars, path_stmt, localVars>>

StateStepIfNone(t) ==
    /\ pc[t] = "state_step" /\ Goto(t, "load")
    /\ playing' = IF playing = {} THEN {state_stmt.id} \cap rows ELSE playing
    /\ state_stmt' = [state_stmt EXCEPT !.at = "done"]
    /\ UNCHANGED <<rows, last_id, path_stmt, localVars>>

\* The update marks the song bound last, whoever bound it.
StateStep(t) ==
    /\ pc[t] = "state_step" /\ Goto(t, "load")
    /\ playing' = playing \cup ({state_stmt.id} \cap rows)
    /\ state_stmt' = [state_stmt EXCEPT !.at = "done"]
    /\ UNCHANGED <<rows, last_id, path_stmt, localVars>>

\* cp_load_file copies the path.
Load(t) ==
    /\ pc[t] = "load" /\ Goto(t, "idle")
    /\ UNCHANGED <<fileVars, path_stmt, state_stmt, localVars>>

LoadStep(t) ==
    \/ PathReset(t) \/ PathBind(t) \/ PathStep(t) \/ PathText(t)
    \/ StateAll(t) \/ StateReset(t) \/ StateBind(t) \/ StateStep(t)
    \/ Load(t)

Next ==
    \/ Restart
    \/ Insert
    \/ \E i \in Ids : Delete(i)
    \/ \E t \in Threads : LoadStep(t) \/ \E i \in Ids : LoadSong(t, i)

Spec == Init /\ [][Next]_vars

-----------------------------------------------------------------------------
\* The variables stay in their ranges, and an id is never given twice: no statement
\* and no load under way holds one that a song still to be added will get.
TypeOK ==
    /\ last_id \in Ids /\ rows \subseteq 1 .. last_id /\ playing \subseteq rows
    /\ path_stmt \in Statement
    /\ state_stmt \in Statement /\ state_stmt.id <= last_id
    /\ pc \in [Threads -> Pcs]
    /\ id \in [Threads -> 0 .. last_id] /\ path \in [Threads -> Ids]
    /\ dangling \subseteq Threads /\ alone \in Threads \cup {NoThread}

\* The path is of the song asked for, or null because the song is gone.
PathRight(t) ==
    /\ t \notin dangling
    /\ path[t] = id[t] \/ (path[t] = 0 /\ id[t] \notin rows)

\* get_song_path answers for the song asked for: cp_load_file gets the path of
\* that song, still in memory, and no path only if the song was deleted, when
\* no other thread was in load_song meanwhile, whatever ran before, however it
\* left the statement, and whatever is added and removed on the way.
PathIsAsked == \A t \in Threads : alone = t /\ pc[t] = "load" => PathRight(t)

\* db_update_song_state: after a load that met no other, exactly the song
\* loaded is marked as playing, until the next load or its deletion, even if
\* earlier loads interleaved and marked others.
PlayingIsLoaded ==
    \A t \in Threads :
        alone = t /\ pc[t] \in {"load", "idle"} => playing = {id[t]} \cap rows

\* After any number of loads, restarts and crashes, however the loads interleaved:
\* once none is under way, the song that the last update of this run of the
\* program was for is marked, if it is still in the table.  A crash between the
\* reset of all marks and the update loses the mark only until the next load.
LastMarkStands ==
    /\ \A t \in Threads : pc[t] = "idle"
    /\ state_stmt.at = "done" /\ state_stmt.id \in rows
    => state_stmt.id \in playing

\* Loads that interleave may leave more than one song marked, as resetting all
\* marks and setting one are two statements, but never more than one for each
\* thread, across any number of loads, restarts and crashes between the two.
MarksBounded == Cardinality(playing) <= Cardinality(Threads)
=============================================================================
