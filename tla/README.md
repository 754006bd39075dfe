# HyperTerm in TLA+

HyperTerm is an SSH terminal with an unlimited scrollback that is kept on disk,
tabs, a split view and a search index. This directory holds a formal model of
its core, the configurations TLC checks it with, and proofs for TLAPS. File
names and line numbers are those of the repository; `main.rs` stands for
`src/src/main.rs` and so on.

## 1. The system

| part | state | operations | meets |
|---|---|---|---|
| disk cache, `disk_cache/mod.rs` | a `.cache` file of length-prefixed records, an `.idx` file of (offset, length) records, a BufWriter before each, `write_offset`, `line_count`, a lazily made mapping | `open` (with `recover`), `append_line`, `flush`, `sync`, `read_line`, `read_range`, drop | the virtual buffer owns one |
| virtual buffer, `virtual_buffer/mod.rs` | the newest `ram_capacity` lines, `total_lines`, `dirty_since_sync`, the trigram index, a disk cache | `open`, `push_line`, `get_line`, `get_range`, `history_window`, `checkpoint`, drop | fed by the terminal core, read by drawing and search |
| line encoding, `virtual_buffer/cell.rs` | none | `encode`, `decode` | virtual buffer |
| reflow, `virtual_buffer/reflow.rs` | none | `reflow` | `history_window` |
| search, `search/mod.rs`, `trigram_index.rs` | posting lists | `index_line`, `candidates`, `search_stream` | virtual buffer |
| terminal core, `terminal_core/mod.rs` | grid, cursor, scroll region, attributes | one per control function | parser calls it, it pushes lines |
| ANSI parser, `ansi_parser/mod.rs` | vte state | `feed` | main loop, terminal core |
| console main loop, `main.rs` | tabs, `closed`, `active`, `split`, `dialog`, `connecting`, `dirty` | the arms of one `select!` | tasks, connection attempts, terminal |
| tab tasks, `main.rs` `spawn_tab_task` | an SSH session, a queue of commands | the arms of one `select!` | main loop, by unbounded channels |
| session manager, `session_manager/mod.rs` | none | `apply_action`, `active_after_close`, `render_tab_bar`, `split_widths` | main loop |
| SSH engine, `ssh_engine/mod.rs`, `agent.rs`, `pageant.rs` | a russh handle and channel | `connect`, `next_event`, `send_input`, `resize`, `close` | tab tasks, GUI |
| known hosts, `ssh_engine/known_hosts.rs` | a file and the entries loaded from it | `load`, `check`, `trust`, `forget` | SSH engine, `--forget-host` |
| local shell, `local_shell/mod.rs` | a pty, a child, two threads | `Input`, `Resize`, `Close`, exit | GUI, by channels |
| GUI, `gui/mod.rs` | a window with one session | frames of egui | SSH engine or local shell |
| renderer, `renderer/*` | the last frame | `draw`, which writes what differs | main loop |
| configuration, logging, crash dumps | files | read, import, write | start-up |

`hyperterm-dsr-fix/` is a patched copy of four of these files, in which the
parser answers a program that asks for the cursor position. The model is of
`src/`; the answer is a variant of `GuiSession`.

What makes the system hard:

* **two files, two buffers**: the cache and its index are written through
  separate buffers and reach the disk separately. A crash can fall between any
  two writes; recovery looks at the last index record only.
* **identity by position**: a line is the n-th of RAM and disk together, an
  event names its tab by an index taken before the connection exists.
* **queues between tasks**: events, commands and results travel in separate
  channels, so two of them can overtake each other; sizes and indices are read
  before an `await` and used after it.
* **lazy drawing and several views**: `dirty`, `active` and `split` have to be
  kept in step by every arm of the loop.
* **partial failures** that are logged and passed over: a failed append, a
  failed flush, a failed resize, half an entry in `known_hosts`;
* **a file without a lock**: every connection loads, checks and appends to
  `known_hosts`, and `--forget-host` rewrites it, each from what it read before;
* **marks that outlive the screen** they were made on: a scroll region or a
  saved cursor, and the renderer's memory of what the host shows;
* **threads that end in any order**: the end of a shell overtakes its last
  output, and a session that was left goes on until its threads notice.

What makes each modelled part correct:

* disk cache: a line that was flushed (fsynced, for power loss) is counted and
  read back for ever, whatever is recovered or appended later;
* virtual buffer: a history that only grows, each line under its own id, in RAM
  or on disk and never in neither; a kill loses a bounded number of lines; the
  search index hides nothing it was given;
* main loop: output reaches its own tab, complete and in order; grids and PTYs
  agree with the screen; what changes is drawn; what ends goes away;
* terminal core: no sequence of output and resizes leaves the grid, and what
  scrolls off or is cleared is in history;
* rewrapping, search, import, line codes, tab bar: each equals a reference that
  says what it is for, not how it is done;
* renderer: the host shows the last frame, whatever it showed before;
* known hosts: a pinned key stays pinned, no shell without a decision;
* GUI and local shell: all output is drawn, the PTY has the size of the grid,
  what is left ends, but for what section 4 names.

`PROJECT.json` lists every hazard found, at its line, with the properties that
cover it.

## 2. The modules

| module | models |
|---|---|
| `DiskCacheOps` | the operations of `DiskCache` as operators on a record, and of the files and buffers under it |
| `DiskCache` | a `DiskCache` used in any order, with kills, power losses and failed writes |
| `Scrollback` | what a scrollback promises: a history that grows, of which an open finds a leading part |
| `VirtualBuffer` | `VirtualBuffer` over a `DiskCacheOps` record, with the search index and the shutdown of `main.rs` |
| `DiskCacheOpsProofs` | lemmas about the operators of `DiskCacheOps` |
| `DiskCacheProofs`, `VirtualBufferProofs` | theorems about `DiskCache` and `VirtualBuffer` |
| `MainLoop` | `main_loop`, the tab tasks, the connection attempts and the channels between them |
| `MainLoopProofs` | theorems about `MainLoop` |
| `TerminalCore` | the live screen: grid, cursor, scroll region, history, and every index that can leave the grid |
| `TerminalCoreProofs` | theorems about `TerminalCore` |
| `Reflow` | `reflow.rs`, `history_window`, `render_frame` and the composition of a frame |
| `TextSearch` | trigrams, posting lists, `find_all` and `search_stream`, character by character |
| `SshConfig` | the import of OpenSSH configurations |
| `CellCode` | the bytes and the ANSI text of a line, and SGR |
| `TabBar` | `render_tab_bar` |
| `Renderer` | `CrosstermRenderer` and the host terminal it writes to |
| `Display` | composes the six above: a run draws pages or asks one question |
| `HostKeys` | connection attempts and `--forget-host` on one `known_hosts` file |
| `GuiSession` | the window, the threads of a local shell or an SSH session, and the program in it |
| `DisplayProofs` | theorems about `Renderer`, `Reflow`, `SshConfig`, `CellCode`, `TabBar` and the `Display` they make |
| `HostKeysProofs`, `GuiSessionProofs` | theorems about those two |
| `MC*` | small values for TLC |

Operators whose comment says *Mutant* are not part of any specification. Each
is a small bug of the definition that follows it; substituting it must make
the run listed with it in `PROJECT.json` fail.

### DiskCacheOps

A file with its BufWriter is a *stream*: `data`, everything written through the
handle; `os`, how much of it the system has; `dur`, how much is fsynced. The
unit is a word: a `.cache` record is a header word and `Size[v]` payload words,
an `.idx` record is three words, an offset of two and a length, so that a
record can be torn by a kill, a power loss or a failed write. Payload words
carry their line and place, so reading at a wrong offset shows.

* `Write` is `BufWriter::write_all`: a write that does not fit empties the
  buffer first, one as long as the buffer goes straight to the file. Files are
  opened with `append(true)`: the data ends up at the end of the file whatever
  `write_offset` says.
* `AppendWrites(d, v, k)` is `append_line` after `k` of its four writes;
  `AppendCanFail` tells which write may fail (only one that reaches the file).
* `Open` is `recover` and the rest of `open`: no whole index record, a last
  record beyond the end of the cache, or not. `OpenFails`, `AfterFailedOpen`
  are the second `set_len` failing after the first.
* `Flush` empties the buffer of the cache file, then that of the index file;
  `HalfFlushed` is the point between the two, where a kill may fall and where the
  second may fail (`FlushFailures`).
* `Killed` and `PowerLosses` are what is left: of a killed process what the
  system had, of a lost machine, per file, what was fsynced and any prefix of
  the rest. Zeros or stale blocks after a power loss are not modelled.

### DiskCache

`Append_`, `AppendFails`, `FlushOp`, `FlushFails`, `SyncOp`, `ReadOp`, `Drop`,
`Kill`, `PowerLoss`, `Reopen` are the calls and the faults. Four ghosts: `log`
is the line of each id; `aligned` counts the leading lines that were appended
while both files ended where the handle believed; `firm` and `fsynced` how many
of those were flushed and fsynced. Only these are promised: a line appended
behind left-over bytes is lost whatever is done about it (section 5).

### VirtualBuffer

`PushLine` is the whole of `push_line`: index, RAM, eviction, append, and every
`SyncEvery` evictions a flush. `ReadDisk` is the effect of a read on the cache.
`Checkpoint`, `Shutdown`, `Reopen` and the kills complete the life of a session:
`Kill` falls between two calls or between the two files of a flush, `KillInPush`
after any of the four writes of an append, `KillInFlush` between the two files of
the flush that `push_line` does. `GetLine`, `GetRange`, `IndexedSearch` and `FullScan` are the
answers it gives. A line is modelled as a whole, so a query is "the lines equal
to v"; that bytes which are not an encoded line may decode to some other line
is covered by `NoLine`. Three ghosts: `firm` is how many lines a flush or a read
has handed to the system, `aligned` how many leading ones were appended where both
files ended, as in `DiskCache`, and `skipped` how many the last open left out of
the search index.

### MainLoop

`sessions` holds, per connection attempt, the phase of its task, the index it
was given (`tag`), the width of its PTY and its queue of commands. `events` and
`results` are the two queues to the main loop. `tabs`, `closed`, `active`,
`split`, `dialog`, `connecting`, `dirty` are the local variables of `main_loop`.
`term` is the width of the window and `resizes` the resize events still in the
input stream, so the size the code asks for and the size it was told can differ.

The actions are the arms: `HandleEvent`, `HandleResult`, one per key binding,
`HandleResize`, `Render`; the task's `Data`, `Ends`, `Command`; the attempt's
`Connect`, `Report`, `ConnectFails`. `Report` is apart from `Connect` because
`open_new_tab` spawns the task before its own result is sent. Every arm ends
with `LoopTop`, the two checks at the head of the loop.

Although the `select!` is biased, arms are interleaved freely: an event that
arrives after its arm was polled, and tokio's cooperative budget, both let a
later arm win.

Left out: rows (treated like columns), `scroll_offset` and the mouse,
`ExitStatus` and `Eof` (only logged), the text of the dialog.

### TerminalCore

One action for each method the parser calls, with `Resize` for the window.
`newline` is a helper in the code and here (`AtBottom`, `CannotScroll`,
`Evicted`, `GridAfterNewline`, `HistoryAfterNewline`), since `print` and
`line_feed` both end in it. An index outside a `Vec` is `Panic`: the conditions
under which the code indexes out of range are written out (`CannotScroll`,
`LineOutside`, the row and column of `PrintChar`), nothing is clamped that the
code does not clamp. `bell` and `set_title` change nothing that is read.
The ghosts `plain` and `written` follow a program that only writes lines and
clears the screen; for such a program completeness of the scrollback can be said
exactly.

### Reflow, TextSearch, SshConfig, CellCode, TabBar, Renderer, Display

`Renderer` is a state machine: the frame it remembers against what the host
terminal shows, cell by cell, with the run of cells that share one style written
in the style of the first. The others are functions. A loop that carries a state is
a recursive function from the number of turns to that state where something is
proved of it (`Collected`, `ReadSizes`, `Ends`, `SgrStates`, `BlocksRead`), and a fold
where TLC checks it alone (`find_all`, the merge of posting lists). In
`Display` a behaviour either draws pages or asks one question; every input is
enumerated. Its named assumptions say what the constants are: tabs with a screen of
their size, histories of lines, widths above zero, configurations with patterns where
a line has them, user names, styled lines of cells, bars with an active tab.

| property | the reference it compares with |
|---|---|
| `ScreenShowsFrame` | the last frame under the current theme |
| `ViewFillsScreen` | the length of the whole history rewrapped |
| `ReflowRoundTrips` | rewrapping at one width only |
| `SearchFindsWhatIsThere` | every occurrence, with no index and no left-to-right order |
| `ProfilesAreResolved` | one pass over the file, a value kept once it is set; a glob matches when it can be laid over the name |
| `LinesSurvive` | the line itself, after encoding and decoding, and its visible cells after the ANSI text is parsed again |
| `ActiveTabVisible` | the count of columns each label has |

`trim_trailing_blanks` looks at the character and the colours of a cell and not at
its attributes, so `Reflow` has a set `BlankLooking`, of which the blank cell is
one; `OnlyBlanksAreTrimmed`, what its comment says, is violated (section 5).

### HostKeys

`file` is a sequence of words because `writeln!` with four placeholders hands
the pieces to the file one by one. `Connect` loads the store, `CheckServerKey`
checks the key it meets and decides under any policy, `WriteWord` is one write
of `trust`, `Kill` stops between two of them, and `WriteFails` between two or within
one. Of a word that was begun a piece stays: `NamePiece`, which every host name
begins with, or `WordPiece`, which the algorithm and every key begin with. A name
written behind a `NamePiece` may spell a third name, which `Joins` gives; one piece
of a name stands for all, so that it is the same name whichever was begun. `forget`
is
`ForgetLoad`, `ForgetTruncate`, `ForgetWrite`, since `fs::write` cuts the file
first. Ghosts: `accepted`, the keys that were decided on; `pins`, the key of the
last whole entry; `smeared`, set when words of an entry that was `cut` (another's
newline fell into it, or the file was rewritten meanwhile) are mixed with those of
another, or a piece and a name spell another name. After that `PinnedKeysHold`
promises nothing; what can happen is `MatchesWereAccepted` of section 5.

### GuiSession

`sessions[i]` holds both ends of a session: `cmds` and `msgs` are the channels,
`pty` the output not yet read, `thread` and `reader` the threads of
`local_shell::spawn` or of `spawn_ssh_thread`, `program` the shell. `Frame` is
the whole of `update_terminal`: drain, toolbar, size, keys, in that order.
Leaving drops both channel ends (`Left`), which the threads see as a failed send
or a disconnected receiver.

What can go wrong at the far end is a choice. The program may leave other processes
on its terminal (`Background`), which write after it and keep the PTY from its end
(`held`) until they let go (`Release`), if ever. A resize that fails is passed over
(`missed`); so is SSH input, while a shell whose PTY refuses input is left alone with
its thread gone (`broke`, both in `Refused`). A read of the PTY may fail, which ends
the reader with output unread (`ReadFails`, `cut`). A connection attempt may take
for ever, and nobody looks at the window's `Close` meanwhile (`StartSsh`).

## 3. The runs

All need `CHECK_DEADLOCK FALSE`: sessions end, buffers stay closed and
`main_loop` returns, and every bound stops its actions.

| run | shows | bounds, and why they are enough |
|---|---|---|
| `dc_faults` | `TypeOK`, `LinesReadBack`, `FlushedLinesSurvive` | 3 appends, 3 opens, all faults. A .cache buffer of 4 words and an .idx buffer of 5 spill in the middle of records; three opens recover what an earlier recovery left. An offset of two words is read as garbage after a torn write, and `MaxFile` bounds the file that garbage can ask for |
| `vb_clean` | `RangesMatchLines`, `SearchComplete`, `IsScrollback` | 7 lines, 2 in RAM, flush every 3: up to five lines on disk, one flush and two evictions after it, ranges that span, a reopen that rebuilds the index and, above the cap of three lines, one that does not. `Radix` 4 makes offsets carry into their second word |
| `vb_kill` | `TypeOK`, `LinesSplit`, `IndexCovered`, `LossBounded` | 5 lines, 1 in RAM, flush every 3, 3 opens: kills before, in the middle of and after flushes, and files with left-over bytes twice over |
| `vb_io` | `NewestLinesReadable` | 4 lines, flush every 2, kills and failed writes: at most one append fails before the last line, in RAM, is asked for |
| `ml_sizes` | `TypeOK`, `ActiveIsOpen`, `GridMatchesPty`, `PanesFit`, `ChangesAreDrawn` | one tab and a second that connects at any moment, every key that changes the view, widths 6 and 9, one piece of output each, two resizes in flight: two suffice for a resize that overtakes a split, a close or a connection |
| `ml_output` | `OutputComplete`, `NoDeadTab`, `EndedSessionsLeave`, `ClosedTabsDisconnect` | two sessions with two pieces of output each: a gap, a repetition or a swap takes two. Two commands in a queue, so that a close waits behind input |
| `ml_tabs` | `EventsReachTheirTab`, `OutputInOrder` | one tab and two more attempts, so one may be started while another is open or after one was refused; two pieces of output each, of which a new tab may miss the first; keys for a new tab and to close one |
| `terminal` | `TypeOK`, `OnlyStaleMarksPanic`, `ScrollbackIsComplete` | windows of 3x1, 2x2 and 1x0, arguments 0, 2 and 3, two lines of history. Three rows give a scroll region that is not the screen and a top that a resize leaves outside; two columns give rows that are filled in part; no column is what a split can give. The theorems hold for every size |
| `display` | the seven of the table above | frames of two and three columns, of one row, split, scrolled back, behind a message and without content; histories of up to 4 lines at widths 1 to 4 and one logical line of ten rows for which the first read is too short; lines of up to 4 characters; files of two blocks, and of up to 3 lines in any order; two cells of three colours and three sets of attributes, one colour with components 38 and 5; up to 4 labels in a bar of up to 9 columns |
| `host_keys` | `PinnedKeysHold`, `ShellNeedsTrust` | two attempts, hosts and keys, all three policies, four connections (three after a trouble), one trouble, files that go on growing up to 14 words (11 after a trouble), more than two entries, pieces of names and of words. Two writers mix and one of them goes on into a third entry; another loads what they left. Symmetric in attempts and keys; a piece before the name of one host spells the other's |
| `gui` | `OutputShown`, `GridFollowsPty`, `LeftSessionsEnd`, `QueriesAnswered` | one session, of either kind and either variant, two pieces of output, two sizes, keys typed and sizes changed, before and after the session is up, while no command waits; the answers the program asks for come beside them. Sessions share nothing but the screen, so one is enough |
| `vb_crash_reads` | the violation of `ShowsWhatWasPushed`, section 5 | 6 lines, 3 opens, kills: a left-over, what is pushed behind it, and a look at it |

`ml_tabs` visits 2,631,173 distinct states, `ml_sizes` 1,618,936, `host_keys` 815,690,
`terminal` 809,464, `gui` 635,548, `display` 85,928. In `vb_*`,
`IndexCap` holds `SyncEvery` records, as 8 KB hold 500 records of 12 bytes; `BufferAssumption` states it, and the proofs use it.

## 4. Fairness

`ml_output` uses it, for `EndedSessionsLeave` and `ClosedTabsDisconnect`:

* weak fairness of `HandleEvent`: the event arm is the first of a biased
  `select!`, and every other arm returns to it;
* weak fairness of `Command` for each session, except while the next command is
  input (`Sending`): `send_input` is awaited in the arm with no timeout
  (`main.rs:409`) and may never return. `ClosedTabsDisconnect` is stated for tasks
  that get out of it. The arm comes after the session's own events, so this includes
  that a session does not produce output without a pause for ever (`MaxData` bounds
  it here);
* weak fairness of `Ends` for a session whose connection is gone: the keepalive
  of russh reports it.

Nothing is assumed there of users, servers or connection attempts.

`gui` uses it for `LeftSessionsEnd` and `QueriesAnswered`:

* weak fairness of each thread of a session, except while its next command is input
  (`Sending`), which is written with no timeout (`local_shell/mod.rs:206`,
  `gui/mod.rs:211`): threads of the operating system run, `recv_timeout` returns after
  200 ms, and a read of the PTY returns when there
  is output or its other side is closed. The other side is closed once the shell is
  gone and no other process holds it (`AtEof`). That the host thread still holds the
  master does not keep the reader from seeing it, which is what the comment at
  `local_shell/mod.rs:134-137` drops the slave for;
* weak fairness of `StartShell`: starting a process succeeds or fails;
* weak fairness of `Frame`: `request_repaint_after` asks for one every 16 ms.

Nothing is assumed of the user, of the program and the processes it leaves on its
terminal, or of an SSH connection attempt, which has no timeout (`gui/mod.rs:176`):
`Kept` names the three things that may keep a session that was left, and both
properties are stated for threads that get out of sending. Both runs bound the output
of a session, so that commands, which come after output in the biased `select!` of the
tab task and of the SSH thread, are not starved for ever; the local shell has no such
order. Once the window exits the process is gone, so both liveness
properties allow `Exited`.

## 5. Where the code and its documents disagree

With a run of the set:

* `vb_crash_reads`: after a kill between two writes, the cache file may be
  longer than the last index record says. `open` leaves the extra bytes in
  place and returns an offset before them; later lines are written behind them
  and indexed as if they were not. `virtual_buffer/mod.rs:11-12` promises a
  history that persists across crashes.

Met while modelling. Those with a name are definitions of the modules: each is
violated, and TLC finds it as the only property of the run named, with the change
given.

Disk cache and virtual buffer:

* `recover` does not make the two files agree (`disk_cache/mod.rs:193-195`):
  `FilesAgreeAfterOpen`, faults `{"kill"}`;
* after a power loss more than one record may dangle (`disk_cache/mod.rs:14-16`):
  `CountedLinesReadable`, faults `{"power"}`;
* after one failed append `disk.line_count()` stays behind
  (`virtual_buffer/mod.rs:16-18`): `LinesSplit`, faults `{"io"}`;
* above `REBUILD_INDEX_LINE_CAP` old lines are not indexed, and a search that has
  candidates among the newer ones does not look at them, although
  `virtual_buffer/mod.rs:50-52` says it falls back to a scan: `SearchFallsBack`,
  `vb_clean`. `SearchComplete` holds because it excepts just these lines (`skipped`);
* a shutdown syncs the disk cache only; up to `ram_capacity` lines are lost, while
  `main.rs:320` and `328-332` count them as persisted: `ShutdownPersistsAll`, as a
  `PROPERTY` of `vb_clean`. `tests/virtual_buffer_tests.rs:110-114` gives the buffer
  no RAM.

Console:

* events of a new tab that arrive before the tab is pushed are dropped, although
  background tabs are to be kept up to date (`main.rs:502-506`):
  `OutputComplete`, `ml_output` with one tab and key `"new"`;
* a tab that connects during a split takes the keys while the screen still shows
  the two others (`main.rs:662-666`): `SplitShowsActive`, `ml_sizes`;
* a new session that ends before its tab is pushed leaves an open tab without a
  task (`README.md:36`): `NoDeadTab`, key `"new"`;
* narrowing the window to two columns during a split gives a pane no column
  (`session_manager/mod.rs:166-168`): `NoEmptyPane`, key `"split"`, widths 2 and 9;
* when the session of the focused pane ends, the keys go to a third tab and the
  split stays (`main.rs:662-666`): `SplitShowsActive`, three tabs, key `"split"`;
* in a split, output of the pane that has not the keys asks for no draw
  (`main.rs:515`), although any tab's traffic is to mark that tab dirty
  (`main.rs:502-503`): `TrafficIsDrawn`, as a `PROPERTY` of
  `ml_sizes`, two tabs, key `"split"`. It is one of
  the two changes `ChangesAreDrawn` excepts, and the next is the other;
* Enter on an empty dialog asks for no draw (`main.rs:873-876`): `TrafficIsDrawn`,
  key `"new"`.

Screen and display:

* a scroll region or a saved cursor older than a resize, and a grid of no
  columns, end in an index out of range (`OnlyStaleMarksPanic` lists exactly
  these);
* a character wraps at the right margin only when the next one is printed; a
  program that moves back first leaves a row that is marked as continued and is
  not full (`cell.rs:71`, `reflow.rs:24-26`): `WrappedMeansContinued`, `terminal`;
* when the cursor has not moved since the last draw but cells were written, it
  is left behind the last of them (`renderer/mod.rs:109`, `157`):
  `CursorWhereAsked`, `display`;
* trailing spaces that are underlined or reversed are trimmed when a line is
  rewrapped (`reflow.rs:56`), although only spaces in the default style are to be
  (`reflow.rs:50`): `OnlyBlanksAreTrimmed`, `display`;
* `history_window` may begin inside a logical line, so its rows can break at
  other columns than those of the whole history, and with history that became
  more rows after narrowing the oldest rows cannot be scrolled to;
* the renderer compares the width of the first row only: rows of other lengths,
  as while a tab opens with a stale size, can leave cells of the frame before
  (`PagesAreRectangular` is the hypothesis of `HostShowsFrame`, section 6);
* the active label is not shown whole when it is longer than the bar, and no `…`
  is drawn (`session_manager/mod.rs:70-73`);
* with whole words, an occurrence that overlaps one that is no word is missed
  (`search/mod.rs:175`); `FindsWhatIsThere` excepts it;
* directives before the first `Host` are dropped, where OpenSSH applies them to
  every host, and `Match host x` adds `x` to the profiles
  (`ssh_config_import.rs:79-84`).

Known hosts and sessions:

* a write of `trust` that stops inside a host name leaves a piece of it, and the next
  entry, appended behind it on the same line, is read as an entry of a host nobody
  decided about, whose first connection then matches (`known_hosts.rs:10-11`):
  `MatchesWereAccepted`, `host_keys` with one attempt, three
  connections, both bounds on words 12, and no constraint;
* an entry appended behind half an entry is on the same line and is not found
  by the next load, although appending is to be crash-safe
  (`known_hosts.rs:118-120`): `TrustedIsRemembered`, `host_keys`;
* an entry that another's newline has cut in two, or that was being written during
  a rewrite, can have its rest mixed with a third one: of first acceptances of two
  hosts at once the rest of a line may read `h2 sp algo sp k1`, a key that nobody
  accepted for h2. It takes three entries and four connections, and is the second
  way to break `MatchesWereAccepted`. A forget that is killed between cutting the
  file and writing it loses every pin, and one that finishes loses what was trusted
  after its load;
* a shell whose PTY refuses a write is left running (`local_shell/mod.rs:205-208`);
  `LeftSessionsEnd` excepts it (`broke`), as it does a session whose reader waits for a
  process the shell left on the console (`local_shell/mod.rs:236`) and one whose
  connection attempt goes on (`gui/mod.rs:176`);
* a resize that fails is passed over (`local_shell/mod.rs:211`, `gui/mod.rs:214`), and
  so is SSH input (`gui/mod.rs:211`): the PTY keeps its old size until the next one;
* `src/` never answers a cursor query, so a program that waits for it waits for
  ever; `hyperterm-dsr-fix` does answer, which is `QueriesAnswered`.

## 6. The proofs

A theorem holds for every value of the constants that satisfies the assumptions
named in the modules. Those say no more than the code does: a buffer holds
something, a line has at least one byte, `SyncEvery` index records fit in the
index buffer. Where a theorem has a hypothesis of its own, the hypothesis is in
the tables below, and the text under the table says what it excludes. TLC checks
every property that a theorem states, in the run `PROJECT.json` lists.

Induction over data is out of the provers' reach in the form the library gives
it, with an operator for the hypothesis. Where a loop or a sequence has to be gone
through, the modules say it with a set: the lengths, or numbers of steps, for which
the fact holds contain 0 and, with a number, the next one (`CountingUp`,
`SequencesGrow`), or the set of counterexamples has no least element
(`SmallestNumber`, `LeastNumber`, from `NatLessThanWellFounded`). A recursive
function is shown to be what its definition says by `Recursion`: what goes on from
every value of a set can be gone on with any number of times. That is how the walk
round the tabs, the drain of a channel, the runs of the renderer, the rows of a
history, its rewrapping, and the lines of a configuration and of `known_hosts` are
handled. In modules with
theorems recursion is a recursive function.

### DiskCacheOpsProofs and DiskCacheProofs

`DiskCacheOpsProofs` has lemmas only: what `Write`, `AppendWrites`, `Open`,
`Flush`, `ReadLine`, `Killed` and `PowerLosses` do to a file, its buffer and the
counters. Both proofs below and `VirtualBufferProofs` rest on them.

| theorem | hypothesis | says |
|---|---|---|
| `StoreTypeCorrect` | none | `Spec => []TypeOK` |
| `AppendedLinesReadBack` | none | `Spec => []LinesReadBack`: a line appended since the last open reads back as it was appended, under every fault |
| `FlushedLinesAreKept` | `"io" \notin Faults` | `Spec => []FlushedLinesSurvive`, through any number of kills, power losses and opens |

`ReadInv` strengthens the second: every aligned line is *shown*, its index record
and its words are where the handle reads them, in the file, in the part the
system has, or in the mapping that is kept. Appends only make files longer
(`Grown`), so what was shown stays so; an open forgets the log. `KeepInv` is
for the third: `Recorded` says the flushed records and words are with the system
and the fsynced ones on the disk, `Ordered` that records begin one behind the
other, and `EndsBehind` that what is appended next goes behind all of them. The
last is what makes `recover` harmless: it looks at the last record only, and
whatever that record says, it lies behind the flushed ones, so that cutting the
cache file to it cuts none of them. The hypothesis leaves out failed writes: a
record they tear shifts those behind it, which are then read as arbitrary numbers,
and `Ordered` no longer holds of them. `dc_faults` checks `FlushedLinesSurvive` with
failed writes too; that part is not proved.

### VirtualBufferProofs

| theorem | hypothesis | says |
|---|---|---|
| `TypeCorrect` | `"io" \notin Faults` | `Spec => []TypeOK` |
| `LinesAreSplit` | `"io" \notin Faults` | `Spec => []LinesSplit` |
| `IndexIsCovered` | `"io" \notin Faults` | `Spec => []IndexCovered`, with kills between the two files of a flush |
| `RecoverCutsNoLine` | `"io" \notin Faults` | while the buffer is closed, the index is never ahead of the cache: recovery's branch for a truncated record is for power losses only |
| `LossIsBounded` | `"io" \notin Faults` | `Spec => LossBounded`: every line handed to the system is counted by the next open and, if it was appended where the files ended, reads back; fewer than `SyncEvery` others are on disk |
| `NewestLinesAreReadable` | none | `Spec => []NewestLinesReadable` |
| `RangesAreLines` | `Faults = {}` | `Spec => []RangesMatchLines` |
| `BufferIsAScrollback` | `Faults = {}` | `Spec => IsScrollback`, the refinement of `Scrollback` |
| `SearchFindsEveryLine` | `Faults = {}` | `Spec => []SearchComplete`: but for the lines left out of the index |

None of these is inductive. The invariant `Inv` of the first five adds what ties
them together. `Sound`: the system holds exactly `firm` whole index records, each
within the cache bytes it holds, and the records still buffered lie within the
cache bytes written. `UpInv`, while the buffer is open: every appended line has
one record, the disk and the RAM lines add up to `total_lines`, and at most
`dirty_since_sync` records, fewer than `SyncEvery`, were appended since both
files were last flushed. `Settled`, while it is closed: both buffers are empty. The
argument: since the last flush the index file has not grown (`SyncEvery`
records fit in its buffer), and everything the index file holds was flushed
when the cache file had been flushed before it; so every record the system has
points at bytes the system has, a kill leaves the files so, and `recover` has
nothing to drop. Between the two files of a flush the cache file has everything and
the index file has not grown, so a kill there leaves the files so too (`Held` of
`HalfFlushed`); in the other order it would not, which is the mutant of
`IndexCovered`. Without the hypothesis a failed flush restarts
`dirty_since_sync`, after which the index buffer can spill first.

`NewestLinesAreReadable` needs only `RamInv`: the RAM lines are the newest ones
pushed (`Newest`), whatever became of the disk. `CleanInv`, for the next two, says
that without faults the files hold exactly the lines spilled (`Kept`), that
the handle knows where they end and maps all of them or nothing (`Exact`), and
that RAM goes on where the disk stops; then every read returns the line, and a
step of the buffer is an append to the history, a reopen of all of it, or
nothing that a reader can see. Faults are excluded because a kill may leave bytes behind the last
record, after which reads are wrong: that is `vb_crash_reads` (section 5).
`SearchInv` adds that the lines indexed are those from `skipped` on; that older ones
are left out is `SearchFallsBack` of section 5.

`LossIsBounded` needs, beside `Inv`, that lines come back and not only their number.
`LossInv` says that the aligned lines stand in the files as they were pushed
(`StoredTo`) while the buffer is open, and once it is closed those of them that were
handed to the system; files only grow behind them (`StoredGrows`), and `recover`,
with nothing to drop, leaves them.

### TerminalCoreProofs

For every set of window sizes, arguments, characters and every bound on history,
from `SizesAssumption`, `ArgsAssumption` and `CellsAssumption` alone:

| theorem | says |
|---|---|
| `InvariantHolds` | `Spec => []IInv` |
| `TypeCorrect` | `Spec => []TypeOK`: the grid has `rows` rows of `cols` cells after any sequence of calls |
| `NoOtherPanic` | `Spec => []OnlyStaleMarksPanic`: nothing indexes outside the grid except a region or a saved cursor from before a resize, or a grid without a row or a column |
| `WrittenRowsAreKept` | `Spec => []ScrollbackIsComplete`: the rows a plain program wrote on are in history and on the screen, each once and in order |

`OnlyStaleMarksPanic` is not inductive: it says nothing of a state that has not
panicked yet. `IInv` adds `RegionInGrid` (the region ends at a row of the grid,
and begins before its end unless its first row is stale) and `CursorInGrid` (the
cursor is at a row of the grid and at most one column behind the last, unless a
saved cursor is stale). The excuses survive every step but a resize, and a resize
clamps the cursor and moves the end of the region, so that it may create an
excuse but never needs one. Each action has a lemma, and those that share
`newline` or `MoveTo` share its lemma.

`WrittenRowsAreKept` rests on `TextInv`: while the program is plain the region is
the whole screen, the row being written is the one the cursor is in, the rows
under it are blank, and history with the rows above is what was written before
(`WroteAbove`). A scroll moves one row from the grid to the end of history, a
clear moves all that have ink; both leave the sequence of rows with ink, `Inked`,
as it is, since `Inked` of a concatenation is the concatenation.

### MainLoopProofs

For any number of tabs at startup, set of widths, set of keys, and every bound,
with connections that break or not, from the assumptions of `MainLoop`:

| theorem | hypothesis | says |
|---|---|---|
| `TypeCorrect` | none | `Spec => []TypeOK`, with it that the panes of a split are two different tabs |
| `FrontTabIsOpen` | none | `Spec => []ActiveIsOpen` |
| `EventsAreRouted` | none | `Spec => []EventsReachTheirTab` |
| `GridsFollowPtys` | none | `Spec => []GridMatchesPty` |
| `PanesFillTheirPlaces` | none | `Spec => []PanesFit`: every pane of a split, and without one every tab but those opened at run time and not resized since |
| `OutputStaysInOrder` | none | `Spec => []OutputInOrder` |
| `NoOutputIsLost` | `"new" \notin Keys` | `Spec => []OutputComplete` |
| `EndedTasksCloseTheirTab` | `"new" \notin Keys` | `Spec => []NoDeadTab` |
| `ChangesAskForADraw` | none | `Spec => ChangesAreDrawn`: but for output of the pane beside the active one and Enter on an empty dialog |

`Types` says the same as `TypeOK` with ranges of numbers for the domains and adds
that a piece of output has a number. `ActiveIsOpen` is kept by every arm because
of `NextOpenIsOpen`: walking round the tabs finds an open one unless all are
closed, and then the loop returns. `EventsReachTheirTab` is far from inductive: a
task is told an index before its tab exists, and the index is that of a tab that
another attempt could take. `Routing` says why none does. A session that
`Speaks` (its task runs, or an event of it is queued) either has its tab at the
index it was given or is the attempt the loop waits for (`AttemptPending`: the
last session, `connecting` set, its index the next one), and then its result is
still to be sent or the only one in the queue. An attempt that failed never
spoke, so that the next one may have its index; and a dialog is not open while
an attempt is, so that there is never a second. Most actions leave every
route as it is (`Kept`) and share one lemma, `KeptKeepsRouting`; the steps of a
task, the handling of a result and the start of an attempt have lemmas of their
own.

`GridInv`: every open tab's session has the width of the grid, or the last resize
in its queue gives it that width; it needs that no two tabs have one session
(`TabsTagged`) and that nothing waits for a session without a tab
(`QuietBefore`). `PanesInv`: the last resize event in the input is the size the
terminal has, so that when none is left the panes were laid out for it. For the
output, `Flows(s, f)` splits what session s has sent at piece f: the pieces up to
f have left the queue and the tab has been fed the last of them, the others are in
the queue in order. A tab opened later may have missed a beginning, and
`"new" \notin Keys` says there is no such tab: it stands for a disagreement of
section 5, that events of a tab that is not there yet are dropped, and so is the news
that its session has ended. `EndsInv` adds that the news of
a task that ended waits in the queue. The hypothesis is that a key is not pressed,
and is the one the run has.

### DisplayProofs

| theorem | hypothesis | says |
|---|---|---|
| `FrameIsAlwaysShown` | none | after a draw the host shows every cell of the frame, in its own style and the current theme |
| `HostShowsFrame`, `DisplayShowsFrame` | `PagesAreRectangular` | `Spec` and `DSpec => []ScreenShowsFrame`: and it shows nothing else |
| `ViewIsFull` | none | `DSpec => []ViewFillsScreen`: a tab's frame has its rows and columns whatever it is scrolled back by, and what it shows of history is short only where all of history, rewrapped, is |
| `RewrappingIsForViewing` | none | `DSpec => []ReflowRoundTrips`: rewrapping twice is rewrapping to the second width, in rows no longer than it |
| `LinesComeBack` | none | `DSpec => []LinesSurvive`: a line comes back from its record and from its ANSI text, and a record that lost its end is never read as a line as long |
| `ProfilesAreTheFile` | none | `DSpec => []ProfilesAreResolved`: each imported profile has what one pass over the file gives for its name |
| `ActiveTabIsVisible` | none | `DSpec => []ActiveTabVisible` |

For any set of pages, palettes, tabs, histories, widths, files, lines and bars, from the
assumptions named in `Display`.

*The host.* `FrameIsShown` is inductive because a cell that is not written is one
that has not changed, and a run is written in the style of its first cell, which
all cells of the run share (`RunStart`, by the least counterexample). `NothingElse`
needs that `draw` clears the screen when the frame changes its size. It compares
the number of rows and the width of the first row only, so the hypothesis is that
all rows of a page are as wide as the first. The composition of a frame gives such
rows unless a tab still has the width from before a resize (section 5); TLC
evaluates the hypothesis on the pages of the run, in `MCDisplay`.

*Rewrapping.* A history is read line by line into finished logical lines and a
current one (`CollectedGrows`). The rows made of one logical line, read again, give
that line without the cells at its end that look blank and finish it (`RowsCollected`), so the
logical lines of a rewrapped history are the trimmed ones of the history
(`RewrappedAreTheLines`); trimming twice is trimming once, and the round trip
follows (`RewrapRoundTrips`).

*The window.* `history_window` rewraps only the last lines, twice as many in each
turn, until they have the rows asked for. That is right because the last lines
have no more rows than all of them (`LastLinesHaveFewerRows`): the two readings run
side by side with one `Behind` the other, as each further line joins both
(`BehindJoins`). What is read doubles (`ReadsGrow`), so the loop ends with
all lines or with enough rows (`EnoughIsRead`), the window is full (`WindowIsFull`),
and with the live rows and the padding it fills the screen (`ScrolledFills`).

*A line.* The record is one number and ten more for each cell (`BlocksOfTen`), so
what is cut behind a cell is the cells before (`CutsAreRead`) and what is cut within
one has a length that `decode` refuses. The parser goes through one state for each
parameter (`StatesAre`): the leading 0 makes the pen plain whatever it was, each
attribute adds itself, and 38 or 48 takes the colour behind it (`AttrRead`,
`ColorRead`), after which `Skips` passes over the numbers that were a colour. So the
parameters of a cell set its pen from any other (`SgrGivesPen`), and cell by cell
what is typed is the line so far with the pen of its last cell (`CellTyped`), whether
or not that cell needed parameters.

*The import.* The recursive matcher has one solution, and its answer for the rest of a
glob and of a name is whether the one can be laid over the other (`GlobMatchLays`, the
stretch of a `*` taken one character at a time), so a block applies when its line does
(`MatchApplies`). The two readings of the file go line by line: what a pass holds
after some lines, whether they are switched on and the value obtained, is what the
blocks of those lines say (`After`): a Host or Match line opens a block that sets
nothing yet (`HeaderRead`), a directive is looked up only where nothing before it
set its key (`DirectiveRead`). At the end of the file that is `FileRead`, and the
names are names because a block's patterns are its line's (`AliasesAreNames`).

*The tab bar.* A label stands in the columns between two ends (`LabelColumns`);
the first one shown is the least from which the active one fits (`ActiveFits`).

### HostKeysProofs

For any number of attempts, hosts, keys and connections, every policy, and whatever
kills, failed writes and `--forget-host` leave in the file:

| theorem | says |
|---|---|
| `ShellsAreTrusted` | `Spec => []ShellNeedsTrust` |
| `PinsAreKept` | `Spec => []PinnedKeysHold` |

`Cautious` says of one attempt how far it may be: writing only after it was
told that the key is new, trusted after a match or the last word, up after that and
an accepted identity. `TrustInv` is that of all; other attempts change only what one
knows of its line (`Disturbed`).

The other is about the file. `KeyInv` says that, unless the file is smeared, what
anybody would load from it `Fits`: a pinned host is in the store, and where the store
has a single key for a host, that key was accepted for it and is the pinned one. `Knows` carries this to the attempts that
loaded it before, `Holds` to what `--forget-host` kept. `Stands` ties a writer to the last line of the file: what it
has written of its entry stands there in order among other words, its whole entry
stands there alone while `whole`, and once `cut` the line names no host.

A write is one word more at the end of the last line. A newline begins an empty line
and changes no entry (`NewlineAppended`); a space is trimmed or separates
(`SpaceIsTrimmed`); a word added to a line that is an entry already only makes its
key longer, a key of several words that no host offers (`EntryGrows`). So only a
word that makes the line an entry can add a key, and this is the key word itself: the
line is then a host, a space, words and a space (`KeyIsTheLastWord`), and since
its writer put its own host there first, or the line names none, the host is its own
(`KeyIsOfItsHost`). What `--forget-host` writes is read back as it was kept
(`EntryIsReadBack`, `EntryAppended`, `KeptIsReadBack`). A piece that a failing write
leaves is no name and no key, so no host gets a key by it (`FailurePins`); what a name
behind a piece may spell, and a word beside the piece of a cut entry, is what `smeared`
leaves out (`MatchesWereAccepted` in section 5).

### GuiSessionProofs

For any set of window sizes and any number of sessions, of pieces of output and of
commands:

| theorem | says |
|---|---|
| `WindowShowsOutput` | `Spec => []OutputShown` |
| `PtyGetsTheSize` | `Spec => []GridFollowsPty` |

`GuiInv` says of every session that it is `Sound`, which has four parts. `Session`
gives its types. `Flow(s, at)`: the pieces drawn, then those of each message in the
channel, then those in the PTY are numbered without a gap; `at[j]` is the number of
pieces up to message j, so that a read moves pieces from the PTY to the channel
(`FlowMoves`), a frame moves all of the channel to the screen (`DrainedFacts`) and
a write, of the shell or of a process it left, adds the next one (`FlowGrows`).
`Threads`: unless a read failed, a reader that is done and a thread that has ended
leave a session that is shown `Quiet`, with nothing in its PTY and nobody to write to
it; this is what makes the end of the threads mean that all output is drawn, although
`Closed` may have been sent before the last of it. `Sized`: from the start of the
attempt on, the last resize in the queue is to the size of the grid, or there is none
and the PTY has that size or missed the last resize. A session that is left keeps only what it had drawn
(`FlowStops`).

### What stays with TLC

* liveness: `EndedSessionsLeave`, `ClosedTabsDisconnect`, `LeftSessionsEnd`,
  `QueriesAnswered`; TLAPS has no proof rules for fairness here;
* `SearchFindsWhatIsThere`: the scan with overlaps, the merges of posting lists and
  their sorting, each an induction of its own;
* `FlushedLinesSurvive` with failed writes.

## 7. Plan and limits

Done: every part of section 1 except those below.

What a further step could add: a proof of `FlushedLinesSurvive` with failed
writes, and of `SearchFindsWhatIsThere` from lemmas on its folds, as was done for
`Reflow`, `CellCode` and `SshConfig`; a bound on the panes' frames that makes `PagesAreRectangular` a
consequence of `MainLoop`; two handles on one pair of cache files (`main.rs:275`); a
session whose output never pauses (`main.rs:394`).

Not modelled:

* reading and merging the TOML file (`config/mod.rs`), the log files and crash
  dumps (`logger/*`): input and output without a state of their own;
* `pageant.rs` (Win32 messages) and what russh does below `connect`: keepalives,
  ciphers, windows;
* the byte machine of vte, regular expressions, egui widgets, painting, scrolling
  and key encoding in the GUI: work of libraries, or layout;
* in `main.rs`: rows (treated like columns), `scroll_offset` as a state of its
  own (it is an input of `TabFrame`), the mouse, the command line, the encoding
  of keys;
* reordering of writes inside one file, zeros or stale blocks after a power loss.
