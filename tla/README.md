# Cplayer: TLA+ models, checks and proofs

Cplayer is a music player in C: a GTK+ window over a small SDL/FFmpeg player
core, with a playlist in SQLite. Five threads share its state, most of it
without locks. This directory holds TLA+ models of the player core, the song
database, the playlist, the time display and a few pure functions, the TLC
configurations that check them, and proofs of the main results for every value of
the constants.

Paths below are relative to the repository; line numbers are those of the
commit the models were written from.

## 1. Inventory

### Threads

| thread | created at | what it does |
|---|---|---|
| GTK main loop | `main` (src/main.c:465) | buttons, playlist, slider; calls the control interface |
| read thread | `stream_open` (src/player_core/player.c:484), once | opens the file, fills the packet queue, serves reloads and seeks |
| SDL audio thread | `SDL_OpenAudio` (player.c:295) | runs `audio_callback` while the device is not paused |
| watchdog | `start_watch_dog` (main.c:80), once, after the first load | every second: has the audio run out? then play the next song |
| time display | `g_thread_try_new` (main.c:598) | ten times a second: slider and time label |

### Components

| component | state | operations | interacts through | what makes it correct |
|---|---|---|---|---|
| packet queue (player.c:12-39, 521-586) | linked list, `nb_packets`, `size`, mutex, condition variable; the global `no_more_data_in_the_queue` | `packet_queue_put`, `_get`, `_flush`, `_destory` | its mutex; the flag is also cleared without it | a FIFO list with exact counters; no leak or double free; a get never blocks; the flag is down while a packet is queued |
| read thread (310-448) | `format_ctx`, codec contexts, its position | one loop: quit, reload, seek, throttle, read | `read_thread_abord`, `seek_req`, `quit`, `input_filename`, the queue, the device | no request is lost; only packets of the open file are queued, in order; the limit holds; it ends |
| audio callback and decoder (183-275) | `audio_buf*`, `audio_pkt*` | `audio_callback`, `audio_decode_frame` | the queue; the fields the read thread resets on a reload; the codec context | never runs while a reload takes its state away; never copies a negative length |
| device (278-308, SDL) | closed, paused, running; `audio_opend` | `audio_open`, `audio_close`, pause | SDL's mixer lock | paused before anything the callback uses is changed |
| stream and control (450-519, 588-703) | `AudioState` flags `paused`, `stopped`, `quit` | `cp_load_file`, `cp_stop_audio`, `cp_pause_audio`, `cp_seek_audio`, `cp_free_player`, `stream_open`, `stream_close` | writes the read thread's requests, pauses the device | release only what nobody uses; a stop stops, a pause pauses |
| status layer (src/player_core.c) | `playing_status`, `alive` | `load_song`, `stop_song`, `pause_song`, `seek`, `free_player` | called by the GTK thread and the watchdog | the status says what the device does |
| watchdog (main.c:50-88) | `watch_dog_started` | poll, `stopping`, load the next song | the flag of the queue, `playing_status` | moves on at the end of a song, and only then |
| playlist, GTK handlers (main.c:127-463) | the list store, the cursor, `loop_state`, the labels | add, remove, activate, scroll, play, pause, stop, loop mode | the song database, the status layer; also from the watchdog | the list is the table's; a scroll goes one row on and plays that row; title and button show what plays |
| time display (main.c:90-125, 227-233; utils.c) | slider, `global_slider_value`, label, `audio_clock`, `duration` | `update_tick`, `slider_value_changed`, `song_time_to_str` | reads what read thread, callback and stop button write; its own slider moves call `seek` | the times are those of the song that plays; the display seeks only near the end of a song that its stated length falls short of |
| resampling (player.c:59-181) | a context and a buffer, for one frame | `audio_resampling` | called by the decoder | no buffer overflows; a successful call gives back what it took |
| song database (src/db.c) | table `songs`, prepared statements | insert, delete, path, playing state, next and previous | two threads over one connection and one set of statements | one song is marked as playing; a path is the path asked for |
| string helpers (src/utils.c) | none | `song_time_to_str`, `mod`, `extract_meta_data`, `extract_file_name`, ... | | compute what their callers expect |
| `popen2.c`, `core_test.c`, `cplayer.ui`, Makefile, SQLite | | | | not part of the program's logic |

### What is hard

* **Two threads, no lock, one reload.** `cp_load_file` pauses the device, stores
  a file name and sets a request; the read thread clears the request, empties
  the queue, resets the callback's buffers, closes its codec, reopens, and
  *itself* sets the device running again. Nothing but the pause keeps the
  callback out, and nothing keeps a second load (the watchdog's) from coming in
  between.
* **The queue's flag is a message.** `no_more_data_in_the_queue` is written in
  four places and polled by the watchdog as "the song is over".
* **Closing.** `stream_close` waits for a read thread that may be anywhere, then
  pauses, then frees.
* **Latches and toggles.** `stopped` and `paused` outlive the song they belong
  to.
* **One list, two threads.** `tree_view_scroll` runs on the GTK thread and on the
  watchdog's, and reads the cursor, moves it and loads a row in steps between which
  the other thread may remove the row, scroll, or stop the song.
* **Numbers of two songs.** `duration` and `audio_clock` are set at different
  moments of a load, by different threads, and divided by each other in a third,
  which moves a slider whose handler cannot see who moved it, and which may ask a
  player that the first load has announced and not yet made.
* **Failure.** A file that does not open ends the only read thread there is; an
  insert that fails returns another song's id.

`PROJECT.json` lists these as "hazards", each at its line, with the properties
that would catch it going wrong, or why none does yet.

## 2. Modules

    Fifo             what a packet queue promises
    PacketQueue      the linked list, cell by cell; implements Fifo
      MCPacketQueue
      PacketQueueProofs
    Stream           what the player promises of the song it plays
    AudioState       the shared state, the queue as a FIFO, the device
      ReadThread     steps of read_thread and audio_open
      AudioCallback  steps of audio_callback and audio_decode_frame
      PlayerControl  steps of the cp_* calls, player_core.c, the watchdog
        Player       the threads together; the properties; implements Stream
          MCPlayer
          PlayerProofs
    SongDb           the song table and its prepared statements
      MCSongDb
      SongDbProofs
    Playlist         the list, the cursor and the handlers of two threads
      MCPlaylist
      PlaylistProofs
    Clock            duration, audio_clock, the display and the slider
      MCClock
      ClockProofs
    Resample         audio_resampling, one frame after the other
      MCResample
      ResampleProofs
    Helpers          the time label and the tags
      MCHelpers
      HelpersProofs
    Induction        lemmas: induction and recursion over the natural numbers

### PacketQueue

State: the fields of `struct PacketQueue`, the heap cells (`next`, `pkt`,
`heap`), the mutex's owner, a program counter and a local cell pointer per
thread, and `chain`, a history variable: the cells linked in, oldest first.
A critical section is several actions, so that nothing rests on the mutex but
what the mutex gives: `PutAlloc` (outside the lock), `PutLock`, `PutLink`,
`PutCount`; `GetLock`, then `GetQuit`, `GetEmpty` or `GetUnlink` and `GetCount`;
`FlushLock`, `FlushFree` once per cell, `FlushReset`; `Unlock`. `ClearNoMoreData`
and `SetQuit` are the unlocked stores of `cp_load_file` and `stream_close`.

A failing `av_malloc` makes a put return -1 and change nothing, which is no step.
The flush of `packet_queue_destory` is any other flush; that nobody uses the
mutex afterwards is `ReleasedUnused` of Player.

### AudioState, ReadThread, AudioCallback, PlayerControl, Player

The queue is now the FIFO sequence `audio_queue`, an operation a step, which
`ImplementsFifo` and the theorem `RefinesFifo` justify. A packet is a file and a
position in it, or the flush packet. Each thread has a program counter, and each
access to a field that another thread writes is a step of its own:

* the read thread from `reset_index` (label `start:`) through the clean-up, the
  opening and the device to its loop (`loop_quit`, `loop_abord`, `loop_seek`,
  `fill`); the test and the clearing of `read_thread_abord` are one step, which
  stands for the moment of the clearing when the request is set: nobody else
  clears it, and whoever sets it again in between has stored the name before;
* the callback from `cb_check` (`audio_buf_index >= audio_buf_size`) through the
  decoder (`cb_pkt`, `cb_decode`, `cb_get`, `cb_got`) to the copying (`cb_copy`
  reads the two fields, `cb_advance` copies and stores);
* a control call as its accesses in order: `load_pause`, `load_flag`,
  `load_name`, `load_abord`, `load_status`; `stop_pause`, `stop_flush`,
  `stop_status`; `pause_device`; `free_wait`, `free_pause`, `free_release`,
  `free_status`. Loads run on the GTK thread and on the watchdog's.

SDL is modelled from how the code uses it: a callback begins only on a running
device, one at a time; `SDL_PauseAudio` and `SDL_CloseAudio` wait for the
callback under way; pausing without a device does nothing.

A codec context is `"null"`, `"copied"` (allocated, not yet opened: the device
already runs then) or `"open"`. Decoding with `"null"`, flushing a codec that is
not open, and copying a negative number of bytes lead to the program point
`crashed`, where the model stops. Decoding with `"copied"` uses a context whose
internals were never set: it fails as an error does, or crashes.

The first load (`InitPlayer`) is one step of Player: until its last store, which
starts the read thread, no thread that Player models uses the new player, since the
watchdog is started by the same handler afterwards. The display does use it in
between; that load takes its steps in Clock.

`resumed_early` is a history variable: some thread has set the device running
while a reload was pending, or under way in another thread. The code does this:
the read thread, still opening one file, executes `SDL_PauseAudio(0)` (line 301)
after a second load has paused the device for the next; and the user may press
resume during a reload. `QuietRestart` and `CallbackSafe` say that this is the
*only* way to an unquiet reload, a crash, or a packet decoded with the codec context
of another file.

Stream is the player without threads, queue and device: a song is asked for, opened
and closed; its packets are read ahead, at most `MaxQueue + 1` of them, and handed to
the decoder from the first on, one after the other; all that was read ahead may be
dropped, never a part of it; only a seek that was asked for goes on elsewhere. In
Player what was read is `read_pos`, what the decoder gets next is as far behind it as
packets are queued (a flush packet is none), and the packet in its hands is
`audio_pkt`. The flush of a reload or a stop is a `Drop`, the clean-up and the release a
`Close`, `SeekFlush` a `Seek` and `SeekPut` its `SeekDone`; a get is a `Deliver`, or a
`Done` if it finds the flush packet; the device and the callback's buffers stutter.

### SongDb

The file (`rows`, `playing`, `last_id`) outlives the process; the two prepared
statements that both threads use are an id and whether the statement is new, on
its row or done. `load_song` is its calls of SQLite in order: `PathReset`,
`PathBind`, `PathStep`, `PathText`, then `StateAll`, `StateReset`, `StateBind`,
`StateStep`, then `Load`. Each call is atomic, since SQLite is built in its
serialized mode; the sequence is not. `Insert` and `Delete` are one step: only the
GTK thread uses their statements, and it is then not in `load_song`.

What SQLite does is modelled from the calls: a bind to a statement that was stepped
and not reset is refused, and nobody looks at the result; a step of a statement
that is done starts it anew; a reset or a step releases the text that
`sqlite3_column_text` returned (`dangling`). `Restart` is the end of the process,
orderly or not, and the next `db_init`. A path is identified with the id of its
song, 0 is the null path. Both threads take their song from the list, which may
hold a deleted song, a row whose insert failed and that has the id of another row,
deleted or not, and, for the watchdog, a row whose id is not set yet (0).

`alone` is a history variable: the thread whose `load_song` started last, if it
was the only one then. The code promises nothing to loads that do interleave: one
of them may get the other's path or a released one, and both songs may be marked.
`PathIsAsked` and `PlayingIsLoaded` say that such an encounter spoils no later
load, `MarksBounded` how many marks it can leave, and `LastMarkStands` that it cannot
leave the song marked last without its mark. That a crash between the two statements
of an update loses the mark is what the code does: `LastMarkStands` speaks of the
updates that this process ended, and none is left over from the last.

### Playlist

State: the table (`db`, `last_id`, the connection's `last_rowid`), the list store
(`list`, rows of id, file and number) and its cursor, the loop mode, what plays and
what the labels show, and for each of the two threads a program counter and the
locals of its handler. Handlers are sequences of steps: `AddSong` and then `Insert`
or `InsertFails` (the row is in the list before it has an id);
`RemoveFiles`, `RemoveFromDb` and `RemoveRow` for each row, `ReIndex`; the scroll
and the double click as `Move`, `Place`, `ReadRow`, `Load`, `StatusPlaying`,
`ButtonLabel`, `StateLabel`, on either thread; `PauseButton`, `StopButton`,
`LoopButton`; `WakeUp` and `Stopping` on the watchdog's. Several files chosen at
once are `AddSong` several times. `Restart` ends the program at any point and
starts it on the same table (`db_load_songs`).

The model is coarser than the code in this: a call of GTK is one step also on the
watchdog's thread, although GTK is not thread-safe; the test of the path and the
`gtk_tree_view_set_cursor` after it are one step; `load_song` is one step (its
statements are SongDb's, its requests Player's), and its status is the next. Where the
cursor goes when its row is removed is left open. A scroll that goes on with an
iterator nobody set leads to the program point `undefined`, where the thread
stops, since the code's behaviour is. The watchdog looks at the status once, before
its scroll (main.c:51): a stop in the middle of it is followed by the load all the
same, in the model as in the code.

History variables: `raced` (threads whose handler met a step of the other),
`settled` (the last handler to set the labels met none), `shrunk` (rows left the
list since the watchdog woke) and `failed` (an insert failed). The code promises
little about handlers that meet; the properties say what holds of those that do
not, whatever earlier encounters left behind, and what holds always.

### Clock

`duration` and `audio_clock` with the file each is about, written by `SetDuration`
on the read thread, `GetPacket` and `DecodeFrame` in the callback, `StopAudio` and
`StopClock` on the GTK thread; `update_tick`, which looks at the status
(`TickPlaying`), reads the two times with a look at the status in each getter
(`TickLength`, `TickPos`), and stores twice (`TickStore`, `TickSet`); and the slider's
handler, which runs on the thread that moved the slider and asks for a seek if the
value is more than 5 from `global_slider_value`. The user and the watchdog load songs
(`LoadPause`, `LoadAbord`, `LoadStatus`, for each of the two threads), and the
watchdog whenever it may: the flag it polls and its scroll are Player's and
Playlist's. The queue, the device and the requests are Player's too; here a reload, a
seek and a stop are as fine as the display can see, and pausing is left out. Times
are tenths of a second, lengths whole seconds as in the code.

The first load takes three steps: the status (`InitPlayer`), the global pointer
(`PlayerCreate`), the AudioState and its read thread (`StreamOpen`). Between the last
two `update_tick` may follow a null pointer (player.c:654); `TickCrash` is that step,
and the end of the program: nothing in the code prevents it, so no property forbids
it.

What a container states (`Stated`) and what its packets last (`Lasts`) are two
constants: the code shows the first, cut to whole seconds, and the clock follows the
second. A file in `Bare` states no length (`AV_NOPTS_VALUE`) and its packets no time:
the code then keeps the last file's length and lets the clock run on. `av_seek_frame`
may fail for any target. A conversion of a NaN or an infinity to int yields any of
`Garbage`; `MaxInt` stands for the largest int.

`DisplaySeeksOnlyIfRaced` names the cases in which the display does seek by itself:
the user moved the slider between its two stores; it divided by 0 or by the length of
another file; or the file is `Overlong`, it lasts 6 percent more than the whole
seconds it states, and its end is near. A song of 10.9 seconds is: 10.9 of 10 seconds
are 109 percent, the slider stops at 100, and its handler sees a jump of 9. Of a song
that lasts 17 seconds or more, and no longer than it states, the theorem
`LongSongsAreNotOverlong` says that it is not.

### Resample

One call of `audio_resampling` after the other, a step for each call of libswresample
that can fail and one for each change of what the call holds, which is counted for
each resource (`taken`). `Rescaled` is `av_rescale_rnd` with rounding up. Failing paths
return at once and keep what they took, as in the code. The second allocation
(player.c:147) may fail without anybody noticing: the pointer then stays, to memory
that was freed (`data = "freed"`), and `swr_convert` writes to it. That, and a copy past
the end of `audio_buf`, which comes before the assertion that excludes it, lead to the
program point `undefined`. `ConvertFits` and `FitsAudioBuf` name the two cases.

### Helpers

`song_time_to_str` by the length of its text, `mod` by C's remainder, whose sign is
the dividend's, `extract_meta_data` as a recursive function over the tags (`Columns`),
after its early return for a file that does not open, and undefined if the name of a
tag does not fit its array of 50. The state holds the inputs, which grow one step at a
time, so that TLC visits each.

## 3. Runs

| run | property | shows |
|---|---|---|
| `queue_list` | `TypeOK`, `ListIntact`, `SizeExact`, `CellsAccounted`, `NoMoreDataMeansEmpty`, `GetNeverWaits`, `ImplementsFifo` | the queue under every interleaving of puts, gets, flushes, the unlocked clear and a close; a get never waits, although the comment at player.c:546 says that one with `block` set does |
| `player_control` | `NoStaleFile`, `QuietRestart`, `CallbackSafe`, `ReleasedUnused` | loads from two threads at any point of a reload, over playable and unplayable files, pause, resume and the closing of the window at any time; the callback neither crashes nor decodes a packet of another file than the open one |
| `player_queue` | `TypeOK`, `QueueOfOpenFile`, `QueueBounded`, `ImplementsStream` | seeks, stops and the watchdog's loads against a nearly full queue: it holds consecutive packets of the open file, and Player implements Stream |
| `player_live` | `RequestServed`, `FreeEnds`, `SeekServed` | liveness, under `FairSpec` |
| `song_db` | `TypeOK`, `PathIsAsked`, `PlayingIsLoaded`, `LastMarkStands`, `MarksBounded` | loads of two threads over shared statements, songs added and removed, ids that are gone, restarts |
| `playlist` | `TypeOK`, `ListMatchesDb`, `IndexesConsecutive`, `LoadsAreListed`, `ShownIsPlayed`, `OffTheListOnlyByRemoval`, `ScrollsByOne` | every handler of the GTK thread against the watchdog's scroll, failing inserts, restarts |
| `clock` | `TypeOK`, `TimesOfOpenFile`, `ShownWithinLength`, `SeekFitsItsFile`, `DisplaySeeksOnlyIfRaced` | loads of two threads, stops and drags of the slider against read thread, callback and display, with a song that is overlong |
| `resample` | `SuccessReleases`, `ConvertFits`, `FitsAudioBuf` | frames of any number of channels, with and without a change of rate, failing anywhere |
| `helpers` | `LabelFits`, `LastTagWins` | every time and every sequence of tags up to the bounds, files that do not open, a name too long |
| `player_skip` | `SkipsOnlyAtEnd` | **violated**: an underrun before the first packet makes the watchdog skip the song |
| `player_pause` | `PauseIsSilent` | **violated**: load, pause, load, pause, and the device plays under status PAUSE |
| `player_stop` | `StopIsSilent` | **violated**: load, stop, load, stop, and the second stop leaves the device running |

The three violations are listed under "findings" in `PROJECT.json` with the
lines they quote. The last two speak of a pause and a stop that come while the read
thread plays the file asked for last (`Reading`), so that their counterexamples show
the toggle and the latch: the second file is open, its request served. Without that
condition a shorter trace would do, which shows something else: a pause or a stop
during the first opening is undone by the read thread itself, which then sets the
device running (player.c:301). In the trace of `player_stop` the first stop finds no
device yet; it sets `stopped` all the same, and that is what keeps the second one from
doing anything.

### Bounds

* `queue_list`: three cells (a list with a first, a middle and a last cell, and
  lists that run empty while a fourth put waits for a cell), a packet with a
  size and one without, one thread of each kind and a second flusher.
* `player_*`: `NPackets` packets per file, `MaxQueue` packets before the read
  thread throttles, `StreamLen`, `FrameLen`, `SilenceLen` bytes. A frame longer
  than a callback leaves a rest for the next callback; silence shorter than a
  callback makes it go round its loop. `MaxQueue = 0` lets one packet in and
  throttles at the second, `player_queue` has one more and three packets per
  file, so that the queue holds two and a third waits. Two files, one of which
  may fail to open: the smallest number for which a stale file can be told from
  the right one.
* `Calls` selects what the user does in a run; the watchdog always runs. Each run
  takes the calls its properties are about. The theorems of section 4 are about
  all calls together.
* `song_db`: three songs over the life of the file (`MaxId`): the two of two
  interleaved loads and one that comes or goes meanwhile. An id is never given twice
  (AUTOINCREMENT), so the run cannot add songs for ever; the theorems hold for any
  `MaxId`.
* `playlist`: two songs, two ids, two rows, all handlers: a song that plays and one
  that is added, removed or scrolled to, a list that runs empty and one that wraps
  around. Removed ids are not given again, so the run's list shrinks in the end; a
  `Restart` does not change that. Files are interchangeable, hence the symmetry.
  Longer lists are the theorems'.
* `clock`: a song of one packet and one of two, packets of 10.9 seconds: the first
  states 10.9 seconds and is overlong, the second states 21.8 and is not. One packet
  queued and one in the decoder; the user loads both songs, the watchdog the first, so
  that loads of the same and of different songs meet; the user drags the slider to the
  start. `MaxClock` caps the clock, which only a file without times can take past its
  own length. Files in `Bare` are not in the run, which would take it beyond what can
  be enumerated; the theorems are about them too.
* `resample`: frames that are empty, short, of 30000 samples and the longest of a FLAC
  file, 0 to 6 channels, equal rates and rates that differ both ways, with and without a delay.
* `helpers`: times past the 100 minutes where the label gets longer; four tags, so
  that a name comes twice in different cases with others in between; one name that
  is too long.
* Nothing else is bounded: the number of calls, callbacks and reloads is not.

Deadlock is not checked in the `player_*` runs: the model ends, as the process
does, when `main` has returned or the callback has crashed; nor in `clock` and
`resample`, which end at a null pointer and at undefined behaviour; nor in `helpers`,
whose inputs stop growing. The other passing runs check it.

### Fairness

`Fairness` assumes that every thread is scheduled (weak fairness of the read
thread's and of the callback's next step, and of each step of a call under way)
and that a thread that wants SDL's mixer lock gets it although callbacks keep
coming (strong fairness of the steps that call `SDL_PauseAudio`): a callback
holds the lock for a fraction of the period between two callbacks. No fairness is
given to the start of a call or to the watchdog's poll: nobody has to do
anything. `RequestServed` excuses a request that another one overtakes, and a
read thread that has ended, which the code never restarts; both are in its
statement. `SeekServed` excuses a seek that a load or the end of the thread
overtakes; it needs no fairness of the callback, for the read thread looks at
`seek_req` before it looks at the queue's size.

## 4. Proofs

TLAPS checks eight modules. Nothing is assumed but the named assumptions on the
constants: threads are different (and finitely many, in SongDb), `NULL` is no
cell, file or packet, the files of a Playlist are finitely many, the packets of no file
of Clock last longer than the bound on its clock, sizes, rates and bounds are natural
numbers.

**Induction.** The library's induction theorems take an operator, which the provers
cannot instantiate; these lemmas say the same about sets. From
`NatLessThanWellFounded` a set of natural numbers has a least element (`LeastNat`), so
a set with 0 and all successors is all of them (`SetInduction`), or all up to a bound
(`SetInductionUpTo`). `RunExists` and `RunValues` say that a function given by its
value at 0 and a step exists and takes these values: `IsRun` is the shape of the
recursive functions of PacketQueue and Helpers.

**PacketQueueProofs.** `IInv` strengthens the properties with what holds inside
a critical section: who holds the mutex (`LockInv`), that the chain has no cell
twice (`ChainInv`), what each thread holds outside the chain (`HeldInv`,
`HeapInv`), and how far `first_pkt`, `last_pkt` and `nb_packets` are from the
chain at each program point (`EndsInv`, `CountInv`). The stated properties
speak of states where the lock is free, so none is inductive alone. From
`Invariance`: `TypeCorrect`, `ListStaysIntact`, `CellsStayAccounted`,
`FlagIsTruthful`, `GetIsImmediate`. `RefinesFifo` proves `Spec => ImplementsFifo`
for any number of flushing threads, cells and packets: a put takes effect at
`PutLink`, a get at `GetUnlink` or `GetEmpty`, a flush at `FlushLock`, and every
other step stutters.

`SizeIsExact` needs the sum of the sizes of a sequence, defined by recursion:
`BytesEmpty`, `BytesAppend` and `BytesTail` say by induction what the queue's operations
do to it. `SizeInv` is `SizeExact` at every program point but a flush's: `size` is the
bytes linked in, and `Owed` what the steps between an unlinking or a linking and its
count still owe it.

**PlayerProofs.** `PInv` has one conjunct per concern. `QuietInv` is the heart:
from the pause of a load (`load_flag`) over the pending request to the end of
the reload, the device is not running and the callback idle, unless resumed too
early. It carries the handover from the controller's program counter to
`read_thread_abord` to the read thread's. `DecodeInv` says that without an open codec
nothing is queued and nothing is in the callback's hands, `CopyInv` that the index
never passes the size but between two stores, `FreeInv` the order of
`stream_close`. One lemma per thread, one case per action. From
`PlayerInvariance`: `PlayerTypeCorrect`, `LoadsAreNotLost`, `PollIsTruthful` (the flag
of Player, whose counterpart in PacketQueue the run `queue_list` checks),
`ReloadIsQuiet`, `ReleaseIsSafe`, for any files, any bounds and all calls at once.

`SInv` adds what the data are, on top of `PInv`. `OrderInv`: the queue is a flush packet
at most and then consecutive packets of the open file, up to `read_pos`. `SeekInv`: the
queue is empty between the two operations of a seek, a seek in hand is one asked for,
and a file is opened from its start. `LimitInv`: at `put` the size is still within the
limit it was tested against, since others only take packets away. `PacketInv`: what the
callback has in hand, or just got, is a packet of the open file, for the queue is
flushed and the callback quiet before that file changes. The lemmas on `Ordered` say
what `Tail`, `Append` and a flush do to such a queue, the ones on `Data` what they do to
its size; `QueueEffect` classifies the steps, so that each conjunct is proved in a few
cases. From `QueueInvariance`: `QueueIsOfOpenFile`, `QueueStaysBounded`,
`CallbackIsSafe`, and `RefinesStream`, which proves `Spec => ImplementsStream` step by
step (`StreamStep`).

**SongDbProofs.** `DInv` is `TypeOK`, `AloneInv` (while the load that met no
other lasts, no other thread is in `load_song`), `LoneInv` (where its statements
stand at each of its program points, whatever they were before: the reset makes them
its own), `LastInv` (the last update has marked its song, or a later one is under way)
and `CountInv` (marks and threads about to mark are together at most as
many as there are threads, which `MarksBounded` alone does not carry from one step
to the next). From `DbInvariance`: `DbTypeCorrect`, `LoneLoadGetsItsPath`,
`LoneLoadMarksItsSong`, `LastMarkIsKept`, `MarksStayBounded`, for any number of threads
and songs.

**PlaylistProofs.** `LInv` is `TypeOK` and one conjunct per concern: `TableInv` (every
song of the table has a row, and what an addition or a removal under way has still to
do), `RowsInv` (the rows are the table's songs in order, but for those about to come or
go), `IndexInv` (their numbers, but while rows are taken out), `PathInv` (a handler's
path is on the list, unless rows left it under the watchdog), `RaceInv` (two handlers
under way have met), `LoneInv` (what a handler that met none knows: its path is the
cursor's or the target's, its row is the table's) and
`LabelInv` (title and button are right, or such a handler is about to set them).
`ListMatchesDb` speaks of moments between two
handlers, `ShownIsPlayed` of moments between two encounters, so neither is
inductive. One lemma per action and conjunct it can disturb. From it:
`PlaylistTypeCorrect`, `ListShowsTheTable`, `RowsAreNumbered`, `LoneLoadIsListed`,
`WindowShowsWhatPlays`, `StaysOnTheList`, `ScrollGoesByOne`, for any number of files, songs and rows.

**ClockProofs.** None of Clock's properties is inductive: each speaks of a moment
several steps after two threads wrote. `CInv` follows a time on its way: `QueueInv`
(the read thread is started once, last; what is queued was read from the open file and
lies within it, and a reload leaves nothing queued), `ClockInv` (the clock, with the
packet still in the decoder, lies within its file), `LengthInv` (a length is what the
file it is about states), `SeekInv` (a seek lies within the length of the file it is
about, which is the open one if no load came) and `TickInv` (what `update_tick` stored
last is the percentage of the two times it read). From it: `ClockTypeCorrect`,
`TimesAreTheOpenFiles`, `PositionIsWithin`, `SeekMeetsItsFile`, `DisplaySeeksRaced`,
for any files, whatever they state and last, short ones, overlong ones and those that
state nothing. `LongSongsAreNotOverlong` says for which the exception of
`DisplaySeeksRaced` cannot arise.

**ResampleProofs.** `Inv` says at each point what is held, how large the buffer is, or
that it was freed, and that the result is the size of what was converted; from it
`SuccessLeaksNothing`, `BufferIsLargeEnough` and `LongFramesOnlyOverrun` for any frame,
rates and delay. The failure of the second allocation is in all three: nothing leaks
by it, and it is the only way to a `swr_convert` without room.

**HelpersProofs.** `LabelOfSongFits`, and about the arithmetic under it `ModInRange`
and `TimeIsExact` for any arguments. `LastTagIsTaken` goes along the tags by
`SetInductionUpTo`: after the first n of them each column has the value of the last of
its name among these (`LastOf`), and the greatest index of that name is what
`LastTagWins` speaks of.

Only model-checked: the liveness properties `RequestServed`, `FreeEnds` and
`SeekServed`, since the provers have no rules for fairness and ENABLED. Every other
property of a passing run is a theorem. The three properties that the code violates
have TLC's counterexamples.

## 5. Not modelled

* The volume and `muted` (`cp_set_volume`: nothing else reads it, and no line says what
  100 stands for) and the mixing of samples.
* Packets of other streams of a file, which the read thread drops.
* `stream_open` failing to allocate or to create the thread.
* A read error before the end of a file: `av_read_frame` fails at the end only.
* `cp_seek_audio_by_sec`, which nothing calls. In Player a seek goes anywhere in the
  file; the position asked for is Clock's.
* The memory model: a step reads or writes one field at once and in program order.
* After `free_player`, the watchdog's use of the freed player until the process
  exits; the steps are in the model, no property is about them: the code has no
  lock or join that could make one hold.
* GTK itself: the redrawing, the dialogs, what it does when two threads call it at
  once.
* In the database: `db_close` while the watchdog is still in `load_song`, at the end
  of the process; the metadata columns; `get_song_name` and
  `get_next_or_previous_song_id`, which nothing calls.
* In `utils.c`: `extract_file_name` and `merge_str` copy characters and keep no state;
  `parse_p`, `index_of` and `extract_song_id` are never called, nor is `popen2.c`.
  (`parse_p` puts its terminator one character too far, utils.c:26.)
* SQLite (`src/src/sqlite3`, 201,000 lines) is third-party code. The program's own code
  is about 2,000 lines, most of which the map covers.

## 6. Plan

Done: queue and player core; SongDb; Playlist with the failing insert; Clock; Resample;
the helpers that are called; their proofs. Left:

1. `stream_open`'s failures and the end of the process (`db_close`, the watchdog
   on a freed player), once the code has an order there to state.
2. An abstract *Playback* (a status, silent or sounding) beside Stream that Player,
   without its three findings, implements.
3. Liveness of the display: a drag of the slider that no load overtakes is heard.

## 7. Running

    tlc -workers 2 -config MCPacketQueue.cfg MCPacketQueue
    tlc -workers 2 -config MCPlayerControl.cfg MCPlayer
    tlc -workers 2 -config MCPlayerQueue.cfg MCPlayer
    tlc -workers 2 -config MCPlayerLive.cfg MCPlayer
    tlc -workers 2 -config MCSongDb.cfg MCSongDb
    tlc -workers 2 -config MCPlaylist.cfg MCPlaylist
    tlc -workers 2 -config MCClock.cfg MCClock
    tlc -workers 2 -config MCResample.cfg MCResample
    tlc -workers 2 -config MCHelpers.cfg MCHelpers
    tlapm Induction.tla
    tlapm PacketQueueProofs.tla
    tlapm PlayerProofs.tla
    tlapm SongDbProofs.tla
    tlapm PlaylistProofs.tla
    tlapm ClockProofs.tla
    tlapm ResampleProofs.tla
    tlapm HelpersProofs.tla

The longest runs (`clock`, 21 million states, `player_live`, `player_control` and
`playlist`) take two to three and a half minutes on two cores, the others less
than one; `PlaylistProofs` takes three minutes, the other proofs less than one each.
