------------------------------ MODULE Playlist ------------------------------
(***************************************************************************)
(* The song list of src/main.c: the list store and its cursor, the handlers *)
(* of the buttons and rows that run on the GTK thread, and the watchdog,    *)
(* which scrolls the same list from its own thread when a song has ended.   *)
(* Nothing orders the two threads: a handler is a sequence of steps, one    *)
(* per access to what both use.                                             *)
(*                                                                          *)
(* A song is its file; a row of the list and a row of the table both name   *)
(* one.  SongDb models the statements inside load_song, Player what         *)
(* cp_load_file starts; here a load is the file that begins to play.        *)
(***************************************************************************)
EXTENDS Integers, FiniteSets, SequencesExt

CONSTANTS
    Files,
    NoFile,     \* no path; as a title, the "cplayer" shown when stopped
    Handlers,   \* bound: what the user does
    MaxId,      \* bound: ids ever given to a song
    MaxRows     \* bound: rows of the list

ASSUME ListAssumption ==
    /\ IsFiniteSet(Files) /\ NoFile \notin Files
    /\ Handlers \subseteq {"add", "remove", "select", "scroll", "pause", "stop", "loop"}
    /\ MaxId \in Nat /\ MaxRows \in Nat

VARIABLES
    db, last_id, last_rowid,    \* the table, AUTOINCREMENT, the connection's rowid
    list, cursor,               \* rows [id, file, index]; the cursor's row or 0
    loop_state, playing_status, watch_dog_started,
    loaded, title, button,      \* the file that plays, and the labels
    pc, dir, path, row,         \* the locals of a thread's handler, reset when it
                                \* has used them
    todo, refs,                 \* remove_files: rows to delete, rows to take out
    failed,                     \* history: an insert failed
    shrunk,                     \* history: rows left the list since the watchdog last woke
    raced,                      \* history: threads whose handler met another's step
    settled                     \* history: the last handler to set the labels met none

dbVars == <<db, last_id, last_rowid, failed>>
listVars == <<list, cursor>>
playVars == <<playing_status, watch_dog_started, loaded>>
labelVars == <<title, button, settled>>
localVars == <<dir, path, row>>
removeVars == <<todo, refs, shrunk>>
vars == <<dbVars, listVars, loop_state, playVars, labelVars, pc, raced, localVars,
          removeVars>>

Threads == {"gtk", "dog"}
Directions == {"DOWN", "UP", "CURRENT"}
REPEAT_ALL == 0
REPEAT_SINGLE == 1
NORMAL == 2
Ids == 0 .. MaxId
Positions == 0 .. MaxRows + 1
Row == [id : Ids, file : Files \cup {NoFile}, index : 0 .. MaxRows]
NoRow == [id |-> 0, file |-> NoFile, index |-> 0]
ScrollPcs == {"move", "place", "row", "load", "status", "button", "title"}
Pcs == {"idle", "woken", "pause_label", "set", "remove_db", "remove_row", "re_index",
        "undefined"} \cup ScrollPcs

IsFirst(p, S) == \A q \in S : p <= q
Busy(t) == {u \in Threads \ {t} : pc[u] # "idle"}

\* Thread t steps from one point of its handler to the next; it and the thread
\* whose handler it interrupts, if any, have met.
Goto(t, from, to) ==
    /\ pc[t] = from /\ pc' = [pc EXCEPT ![t] = to]
    /\ raced' = (raced \cup IF Busy(t) = {} THEN {} ELSE Threads)
                \ IF to = "idle" THEN {t} ELSE {}

-----------------------------------------------------------------------------
(* GTK                                                                      *)

\* Where the cursor may be after row p left a list that now has n rows: on its
\* own row still, or if that is the one that left, on a neighbour or nowhere.
CursorAfter(c, p, n) ==
    IF c < p THEN {c} ELSE IF c > p THEN {c - 1} ELSE {0, p - 1} \cup ({p} \cap 1 .. n)

-----------------------------------------------------------------------------
\* The song of S with k - 1 songs of S before it.
Nth(S, k) == CHOOSE i \in S : Cardinality({j \in S : j <= i}) = k

\* init_tree_view_data: one row for each song of the table, in the order of ids.
Loaded(table) ==
    [k \in 1 .. Cardinality(DOMAIN table) |->
        LET id == Nth(DOMAIN table, k) IN [id |-> id, file |-> table[id], index |-> k]]

Init ==
    /\ db = <<>> /\ last_id = 0 /\ last_rowid = 0 /\ failed = FALSE
    /\ list = Loaded(db) /\ cursor = 0 /\ loop_state = REPEAT_ALL
    /\ playing_status = "STOP" /\ watch_dog_started = FALSE /\ loaded = NoFile
    /\ title = NoFile /\ button = "play" /\ settled = TRUE
    /\ pc = [t \in Threads |-> "idle"] /\ raced = {}
    /\ dir = [t \in Threads |-> "CURRENT"] /\ path = [t \in Threads |-> 0]
    /\ row = [t \in Threads |-> NoRow]
    /\ todo = {} /\ refs = {} /\ shrunk = FALSE

\* The program ends or is killed, and starts again on the same table.
Restart ==
    /\ list' = Loaded(db) /\ cursor' = 0 /\ loop_state' = REPEAT_ALL
    /\ playing_status' = "STOP" /\ watch_dog_started' = FALSE /\ loaded' = NoFile
    /\ title' = NoFile /\ button' = "play" /\ settled' = TRUE
    /\ pc' = [t \in Threads |-> "idle"] /\ raced' = {}
    /\ dir' = [t \in Threads |-> "CURRENT"] /\ path' = [t \in Threads |-> 0]
    /\ row' = [t \in Threads |-> NoRow]
    /\ todo' = {} /\ refs' = {} /\ shrunk' = FALSE
    /\ last_rowid' = 0
    /\ UNCHANGED <<db, last_id, failed>>

-----------------------------------------------------------------------------
(* add_song: the row is in the list, without its id, before the insert.     *)

AddSong(f) ==
    /\ "add" \in Handlers
    /\ Len(list) < MaxRows
    /\ Goto("gtk", "idle", "set")
    /\ list' = Append(list, NoRow)
    /\ row' = [row EXCEPT !["gtk"] = [id |-> 0, file |-> f, index |-> Len(list) + 1]]
    /\ UNCHANGED <<dbVars, cursor, loop_state, playVars, labelVars, dir, path, removeVars>>

\* Mutant of SetRow: the row's number is taken for the song's id.
SetRowNumber(id) ==
    /\ Goto("gtk", "set", "idle")
    /\ list' = [list EXCEPT ![Len(list)] = [row["gtk"] EXCEPT !.id = Len(list)]]
    /\ row' = [row EXCEPT !["gtk"] = NoRow]
    /\ UNCHANGED <<cursor, loop_state, playVars, labelVars, dir, path, removeVars>>

\* db_insert_song does not look at the step's result: it returns the rowid of
\* the connection's last insert, this one or, if this one failed, an older one.
SetRow(id) ==
    /\ Goto("gtk", "set", "idle")
    /\ list' = [list EXCEPT ![Len(list)] = [row["gtk"] EXCEPT !.id = id]]
    /\ row' = [row EXCEPT !["gtk"] = NoRow]
    /\ UNCHANGED <<cursor, loop_state, playVars, labelVars, dir, path, removeVars>>

Insert ==
    /\ last_id < MaxId
    /\ last_id' = last_id + 1 /\ last_rowid' = last_id'
    /\ db' = [i \in DOMAIN db \cup {last_id'} |->
                IF i = last_id' THEN row["gtk"].file ELSE db[i]]
    /\ SetRow(last_rowid')
    /\ UNCHANGED failed

InsertFails ==
    /\ SetRow(last_rowid)
    /\ failed' = TRUE
    /\ UNCHANGED <<db, last_id, last_rowid>>

-----------------------------------------------------------------------------
(* remove_files: the selected songs leave the table, then the list.         *)

RemoveFiles(selected) ==
    /\ "remove" \in Handlers
    /\ selected # {}
    /\ Goto("gtk", "idle", "remove_db")
    /\ todo' = selected /\ refs' = {}
    /\ UNCHANGED <<dbVars, listVars, loop_state, playVars, labelVars, localVars, shrunk>>

\* selection_remove_foreach_func: a row without an id is left alone.
RemoveFromDb ==
    /\ Goto("gtk", "remove_db", IF Cardinality(todo) = 1 THEN "remove_row" ELSE "remove_db")
    /\ \E p \in todo :
        /\ IsFirst(p, todo)
        /\ todo' = todo \ {p}
        /\ refs' = IF list[p].id # 0 THEN refs \cup {p} ELSE refs
        /\ db' = [k \in DOMAIN db \ {list[p].id} |-> db[k]]
    /\ UNCHANGED <<last_id, last_rowid, failed, listVars, loop_state, playVars, labelVars,
                   localVars, shrunk>>

\* Mutant of RemoveRow: paths in place of row references.
RemoveRowByPath ==
    /\ Goto("gtk", "remove_row", "remove_row")
    /\ \E p \in refs :
        /\ IsFirst(p, refs)
        /\ list' = RemoveAt(list, p)
        /\ refs' = refs \ {p}
        /\ cursor' \in CursorAfter(cursor, p, Len(list) - 1)
    /\ shrunk' = TRUE
    /\ UNCHANGED <<dbVars, loop_state, playVars, labelVars, localVars, todo>>

\* A row reference follows its row when an earlier one is removed.
RemoveRow ==
    /\ Goto("gtk", "remove_row", "remove_row")
    /\ \E p \in refs :
        /\ IsFirst(p, refs)
        /\ list' = RemoveAt(list, p)
        /\ refs' = {q - 1 : q \in refs \ {p}}
        /\ cursor' \in CursorAfter(cursor, p, Len(list) - 1)
    /\ shrunk' = TRUE
    /\ UNCHANGED <<dbVars, loop_state, playVars, labelVars, localVars, todo>>

\* Mutant of ReIndex: the rows keep their numbers.
ReIndexOmitted ==
    /\ refs = {}
    /\ Goto("gtk", "remove_row", "idle")
    /\ UNCHANGED <<dbVars, listVars, loop_state, playVars, labelVars, localVars, removeVars>>

ReIndex ==
    /\ refs = {}
    /\ Goto("gtk", "remove_row", "idle")
    /\ list' = [k \in 1 .. Len(list) |-> [list[k] EXCEPT !.index = k]]
    /\ UNCHANGED <<dbVars, cursor, loop_state, playVars, labelVars, localVars, removeVars>>

-----------------------------------------------------------------------------
(* tree_view_scroll, on either thread, and song_list_tree_view_row_activated *)

Scroll(t, from, d) ==
    /\ Goto(t, from, "move")
    /\ dir' = [dir EXCEPT ![t] = d] /\ path' = [path EXCEPT ![t] = cursor]
    /\ UNCHANGED <<dbVars, listVars, loop_state, playVars, labelVars, row, removeVars>>

\* Mutant of Target: up from the first row is not looked at.
TargetUpUnchecked(d, p, n) ==
    CASE p = 0 -> IF d = "UP" THEN n ELSE 1
      [] p # 0 /\ d = "DOWN" -> p + 1
      [] p # 0 /\ d = "UP" -> p - 1
      [] OTHER -> p

\* The row to go to from row p of n.  DOWN may leave the list.
Target(d, p, n) ==
    CASE p = 0 -> IF d = "UP" THEN n ELSE 1
      [] p # 0 /\ d = "DOWN" -> p + 1
      [] p # 0 /\ d = "UP" -> IF p = 1 THEN n ELSE p - 1
      [] OTHER -> p

Move(t) ==
    /\ path[t] # 0 \/ list # <<>>
    /\ Goto(t, "move", "place")
    /\ path' = [path EXCEPT ![t] = Target(dir[t], path[t], Len(list))]
    /\ UNCHANGED <<dbVars, listVars, loop_state, playVars, labelVars, dir, row, removeVars>>

\* No cursor and no row: nothing to play.
MoveNowhere(t) ==
    /\ path[t] = 0 /\ list = <<>>
    /\ Goto(t, "move", "idle")
    /\ dir' = [dir EXCEPT ![t] = "CURRENT"]
    /\ UNCHANGED <<dbVars, listVars, loop_state, playVars, labelVars, path, row, removeVars>>

\* Mutant of Place: the path is taken to be valid.
PlaceUnchecked(t) ==
    /\ path[t] \in 1 .. Len(list) \/ list # <<>>
    /\ Goto(t, "place", "row")
    /\ cursor' = IF path[t] \in 1 .. Len(list) THEN path[t] ELSE cursor
    /\ UNCHANGED <<dbVars, list, loop_state, playVars, labelVars, localVars, removeVars>>

\* A path that is not in the list stands for the first row.
Place(t) ==
    /\ path[t] \in 1 .. Len(list) \/ list # <<>>
    /\ Goto(t, "place", "row")
    /\ cursor' = IF path[t] \in 1 .. Len(list) THEN path[t] ELSE 1
    /\ path' = [path EXCEPT ![t] = cursor']
    /\ dir' = [dir EXCEPT ![t] = "CURRENT"]
    /\ UNCHANGED <<dbVars, list, loop_state, playVars, labelVars, row, removeVars>>

\* The list was emptied, or the row left it: the iterator, the path or the id
\* the code goes on with was never set.
OffTheList(t) ==
    /\ path[t] > Len(list)
    /\ \/ list = <<>> /\ Goto(t, "place", "undefined")
       \/ Goto(t, "row", "undefined")
    /\ UNCHANGED <<dbVars, listVars, loop_state, playVars, labelVars, localVars, removeVars>>

ReadRow(t) ==
    /\ path[t] <= Len(list)
    /\ Goto(t, "row", "load")
    /\ row' = [row EXCEPT ![t] = list[path[t]]]
    /\ path' = [path EXCEPT ![t] = 0]
    /\ UNCHANGED <<dbVars, listVars, loop_state, playVars, labelVars, dir, removeVars>>

\* load_song: the first sets the status before the file is opened, the others
\* after it; the watchdog, which starts after the first, cannot tell.
Load(t) ==
    /\ Goto(t, "load", "status")
    /\ loaded' = IF row[t].id \in DOMAIN db THEN db[row[t].id] ELSE NoFile
    /\ UNCHANGED <<dbVars, listVars, loop_state, playing_status, watch_dog_started,
                   labelVars, localVars, removeVars>>

StatusPlaying(t) ==
    /\ Goto(t, "status", "button")
    /\ playing_status' = "PLAYING" /\ watch_dog_started' = TRUE
    /\ UNCHANGED <<dbVars, listVars, loop_state, loaded, labelVars, localVars, removeVars>>

\* update_play_button_label
ButtonLabel(t) ==
    /\ \/ Goto(t, "button", "title")
       \/ Goto(t, "pause_label", "idle")
    /\ button' = IF playing_status = "PLAYING" THEN "pause" ELSE "play"
    /\ UNCHANGED <<dbVars, listVars, loop_state, playVars, title, settled, localVars, removeVars>>

\* update_play_state_label
StateLabel(t) ==
    /\ Goto(t, "title", "idle")
    /\ title' = row[t].file
    /\ row' = [row EXCEPT ![t] = NoRow]
    /\ settled' = (t \notin raced /\ Busy(t) = {})
    /\ UNCHANGED <<dbVars, listVars, loop_state, playVars, button, dir, path, removeVars>>

-----------------------------------------------------------------------------
(* The other handlers of the GTK thread                                     *)

SelectRow(k) ==
    /\ "select" \in Handlers
    /\ pc["gtk"] = "idle" /\ cursor # k
    /\ Goto("gtk", "idle", "idle")
    /\ cursor' = k
    /\ UNCHANGED <<dbVars, list, loop_state, playVars, labelVars, localVars, removeVars>>

\* A double click leaves the cursor on the row it activates.
RowActivated ==
    /\ "scroll" \in Handlers /\ cursor # 0
    /\ Goto("gtk", "idle", "row")
    /\ path' = [path EXCEPT !["gtk"] = cursor]
    /\ UNCHANGED <<dbVars, listVars, loop_state, playVars, labelVars, dir, row, removeVars>>

NextButton == "scroll" \in Handlers /\ Scroll("gtk", "idle", "DOWN")
PreviousButton == "scroll" \in Handlers /\ Scroll("gtk", "idle", "UP")

PauseButton ==
    /\ "pause" \in Handlers
    /\ playing_status # "STOP"
    /\ Goto("gtk", "idle", "pause_label")
    /\ playing_status' = IF playing_status = "PAUSE" THEN "PLAYING" ELSE "PAUSE"
    /\ UNCHANGED <<dbVars, listVars, loop_state, watch_dog_started, loaded, labelVars,
                   localVars, removeVars>>

PlayButton == playing_status = "STOP" /\ Scroll("gtk", "idle", "CURRENT")

\* Mutant of StopButton: the title stays.
StopButtonKeepsTitle ==
    /\ "stop" \in Handlers
    /\ Goto("gtk", "idle", "pause_label")
    /\ playing_status' = "STOP"
    /\ row' = [row EXCEPT !["gtk"] = NoRow]
    /\ UNCHANGED <<dbVars, listVars, loop_state, watch_dog_started, loaded, labelVars,
                   dir, path, removeVars>>

StopButton ==
    /\ "stop" \in Handlers
    /\ Goto("gtk", "idle", "button")
    /\ playing_status' = "STOP"
    /\ row' = [row EXCEPT !["gtk"] = NoRow]
    /\ UNCHANGED <<dbVars, listVars, loop_state, watch_dog_started, loaded, labelVars,
                   dir, path, removeVars>>

\* Mutant of LoopButton: one mode too many.
LoopButtonOffByOne ==
    /\ "loop" \in Handlers
    /\ Goto("gtk", "idle", "idle")
    /\ loop_state' = IF loop_state > NORMAL THEN REPEAT_ALL ELSE loop_state + 1
    /\ UNCHANGED <<dbVars, listVars, playVars, labelVars, localVars, removeVars>>

LoopButton ==
    /\ "loop" \in Handlers
    /\ Goto("gtk", "idle", "idle")
    /\ loop_state' = IF loop_state + 1 > NORMAL THEN REPEAT_ALL ELSE loop_state + 1
    /\ UNCHANGED <<dbVars, listVars, playVars, labelVars, localVars, removeVars>>

-----------------------------------------------------------------------------
(* The watchdog: watch_dog and stopping.  It wakes whenever the player may   *)
(* have said that the queue is empty; it looks at the status then and never  *)
(* again, so a stop in the middle of its scroll is overridden by the song.   *)

WakeUp ==
    /\ watch_dog_started /\ playing_status # "STOP"
    /\ Goto("dog", "idle", "woken")
    /\ shrunk' = FALSE
    /\ UNCHANGED <<dbVars, listVars, loop_state, playVars, labelVars, localVars, todo, refs>>

Stopping == Scroll("dog", "woken", IF loop_state = REPEAT_SINGLE THEN "CURRENT" ELSE "DOWN")

-----------------------------------------------------------------------------
ScrollStep(t) ==
    \/ Move(t) \/ MoveNowhere(t) \/ Place(t) \/ OffTheList(t) \/ ReadRow(t)
    \/ Load(t) \/ StatusPlaying(t) \/ ButtonLabel(t) \/ StateLabel(t)

ListStep ==
    \/ \E f \in Files : AddSong(f)
    \/ Insert \/ InsertFails
    \/ \E selected \in SUBSET (1 .. Len(list)) : RemoveFiles(selected)
    \/ RemoveFromDb \/ RemoveRow \/ ReIndex

ButtonPressed ==
    \/ \E k \in 1 .. Len(list) : SelectRow(k)
    \/ RowActivated \/ NextButton \/ PreviousButton
    \/ PauseButton \/ PlayButton \/ StopButton \/ LoopButton

Next ==
    \/ Restart \/ ListStep \/ ButtonPressed \/ WakeUp \/ Stopping
    \/ \E t \in Threads : ScrollStep(t)

Spec == Init /\ [][Next]_vars

-----------------------------------------------------------------------------
DbTypeOK ==
    /\ DOMAIN db \subseteq 1 .. last_id /\ \A i \in DOMAIN db : db[i] \in Files
    /\ last_id \in Ids /\ last_rowid \in Ids
ListTypeOK ==
    /\ list \in Seq(Row) /\ Len(list) <= MaxRows /\ cursor \in 0 .. Len(list)
    /\ todo \subseteq 1 .. Len(list) /\ refs \subseteq 1 .. Len(list)
PlayTypeOK ==
    /\ loop_state \in {REPEAT_ALL, REPEAT_SINGLE, NORMAL}
    /\ playing_status \in {"STOP", "PLAYING", "PAUSE"}
    /\ loaded \in Files \cup {NoFile} /\ title \in Files \cup {NoFile}
    /\ button \in {"play", "pause"}
    /\ {watch_dog_started, failed, shrunk, settled} \subseteq BOOLEAN
ThreadTypeOK ==
    /\ pc \in [Threads -> Pcs] /\ raced \subseteq Threads
    /\ dir \in [Threads -> Directions] /\ path \in [Threads -> Positions]
    /\ row \in [Threads -> Row]
TypeOK == DbTypeOK /\ ListTypeOK /\ PlayTypeOK /\ ThreadTypeOK

ListIds == {list[k].id : k \in 1 .. Len(list)}

\* The list shows the table: between two handlers of the GTK thread every song
\* of the table has its row, and unless an insert failed the rows are exactly
\* the songs, each once, in the order they were added, also after any sequence
\* of additions, removals of several rows at once, and restarts.
ListMatchesDb ==
    pc["gtk"] = "idle" =>
        /\ DOMAIN db \subseteq ListIds
        /\ ~failed => /\ \A k \in 1 .. Len(list) :
                            list[k].id \in DOMAIN db /\ db[list[k].id] = list[k].file
                      /\ \A j, k \in 1 .. Len(list) : j < k => list[j].id < list[k].id

\* The numbers the rows show are 1, 2, ... between two handlers.
IndexesConsecutive ==
    pc["gtk"] = "idle" => \A k \in 1 .. Len(list) : list[k].index = k

\* A handler that met no step of the other thread plays the song of the row it
\* read.  It is not so for the watchdog while remove_files runs, which takes a
\* song out of the table before its row leaves the list (main.c:184), nor once
\* an insert failed and a row has the id of another song (db.c:143).
LoadsAreListed ==
    \A t \in Threads : pc[t] = "load" /\ t \notin raced /\ ~failed =>
        row[t].id \in DOMAIN db /\ db[row[t].id] = row[t].file

\* What the window shows is what plays: after a handler that met no step of the
\* other thread the title is the file that was loaded and the button offers to
\* pause it, or to go on when paused; after a stop it shows no song.
ShownIsPlayed ==
    settled /\ ~failed /\ (\A t \in Threads : pc[t] = "idle") =>
        /\ title = IF playing_status = "STOP" THEN NoFile ELSE loaded
        /\ button = IF playing_status = "PLAYING" THEN "pause" ELSE "play"

\* A scroll goes off the list only on the watchdog's thread, and only if the
\* user removed rows meanwhile: adding rows, moving the cursor or scrolling at
\* the same time never makes it use an iterator that was not set.
OffTheListOnlyByRemoval ==
    \A t \in Threads : pc[t] = "undefined" => t = "dog" /\ shrunk

\* The row after, or before, row c of n, around the ends; from no row the first,
\* or the last.
Neighbour(d, c, n) ==
    CASE d = "DOWN" -> (c % n) + 1
      [] d = "UP" -> ((c + n - 2) % n) + 1
      [] OTHER -> IF c = 0 THEN 1 ELSE c

\* A scroll that met no other step moves the cursor by one row, around the ends,
\* in every loop mode: NORMAL starts over at the end like REPEAT_ALL.
ScrollsByOne ==
    [][\A t \in Threads : pc[t] = "place" /\ pc'[t] = "row" /\ t \notin raced' =>
          cursor' = Neighbour(dir[t], IF cursor = 0 /\ dir[t] = "UP" THEN 1 ELSE cursor,
                              Len(list))]_vars
=============================================================================
