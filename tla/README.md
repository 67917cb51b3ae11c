# IDUNA.GAME in TLA+

A verification project for the terminal emulator `idunagame` and its helper
`idunagame-enroll` (Go, sources under `src/`): TLA+ modules translated from the
source, TLC configurations that check them on small instances, and TLAPS proofs,
for every value of the constants, of all the safety properties that TLC checks but
one.

## 1. The system

`idunagame` opens an SDL window with a terminal in it. Behind the terminal is a
local shell (a PTY), an SSH server or a MUD server (`-gfd host:port`). One
goroutine reads that connection and feeds the bytes to a `vterm.Screen`; the main
goroutine polls SDL events, writes keys to the connection and draws a snapshot
sixty times a second; a third goroutine, the IDUNA prompt, writes an honor code
to the *same* screen, links the device to an account by polling a web service and
shows the device's SSH and GPG keys. In webmaster mode a fourth polls game
services for a status bar. `idunagame-enroll` is a one-shot HTTP listener that
adds a device's key to `authorized_keys`.

| Component (source) | State | Operations | Shared with | What is hard | What makes it correct |
|---|---|---|---|---|---|
| Screen (`vterm.go`) | grid, cursor, saved cursor, scroll region, pen, alternate screen, scroll-back view | `putChar`, control characters, CSI/ESC commands, `Resize`, `ScrollBy`, `Snapshot` | read loop, prompt and renderer, under one mutex | index arithmetic at the edges, a cursor that rests past the last column, resizes between any two commands | stays in the slice; scrolls only its region; restores what it saved |
| Parser (`vterm.go` `Write`, `handleEsc`, `parseNums`) | escape and UTF-8 accumulators | `Write` | two writing goroutines | sequences cut anywhere by `Read` or by the other writer; numbers of any length | every byte belongs to exactly one command of the grammar; the cursor goes where the numbers say |
| Scrollback (`scrollback.go`) | ring of lines | `push`, `line`, `Len` | screen only | wrap-around | the newest lines, in order |
| REFLUX (`reflux.go`) | ring of actions, counter | `Dispatch`, `LogSize`, `ActionAt` | prompt, future subscribers | a poll between two dispatches | nothing skipped or seen twice |
| Session (`main.go`) | `running`, event queue, sizes, login flags | the frame loop, the read loop, splash, deferred calls | all goroutines | shutdown from either side, events late, remote that does not read | one end ends the other; sizes agree; credentials once |
| IDUNA prompt (`iduna_prompt.go`) | deadline, interval | start, poll, exchange, show keys | screen, REFLUX, IDUNA | deadlines against sleeps and slow calls | ends; announces only what happened |
| SSH key (`sshkey.go`, `sshconn.go`) | `id_ed25519` | `LoadOrGenerate`, `Dial` | other runs of the program | kill or full disk inside a write; two runs | one key for good |
| GPG key (`gpgkey.go`) | gpg's keyring | `LoadOrGenerate` | other runs, gpg | failures that look like "no key" | never two keys shown |
| Enrollment listener (`idunagame-enroll/main.go`) | `authorized_keys`, `done` channel | `/enroll`, timeout, exit | concurrent requests | unlocked read-then-append, exit under running handlers | old keys still log in; only the code's holder is added |
| Enrollment client (`runSSHEnroll`) | exit status | one request | listener, the device's key | answers lost, retries | exit 0 means that the device can log in |
| GFD poller (`gfdapi.go`) | `State` under a RW lock | `poll`, `Stop`, `Snapshot` | render loop | lock held through HTTP calls | a frame shows one whole poll, waits boundedly |
| Connections (`pty_windows.go`, `pty_linux.go`, `sshconn.go`, `mudconn.go`) | handles | `Open`/`Dial`, `Close` | handle table of the process | up to seven calls that can fail; PTYs are closed twice | leaks nothing, closes only its own |
| SSH output (`sshconn.go`) | two streams, one window | `Read` | remote shell, read loop | one stream is read after the other | what the shell says is shown |
| Selection and clipboard (`main.go`) | drag, last selection | mouse and key events | screen, clipboard of the OS | the text moves under the drag; drags leave the grid; the clipboard fails or changes hands | what is highlighted is copied; what was copied last is pasted |
| Wheel-scroll mod (`scrollmod`) | | one callback | screen | | is `ScrollBy` |
| Fonts, rendering, honor code text | | | | see section 7 | |

## 2. The modules

| Module | Stands for | Extends / uses |
|---|---|---|
| `Grid` | the cell slice and the loops over it: fill, shift rows up and down, delete/insert in a row, the two copies of `Resize` and of leaving the alternate screen | |
| `History` | "the newest `cap` of a sequence" | |
| `Ints` | Go's `int`, with the limit `MaxInt` as a constant: sums and products wrap | |
| `Screen` | `vterm.Screen`: one action per command and exported mutator; `panicked` records an index out of range | `Grid`, `History`, `Ints` |
| `ScreenProperties` | its properties | `Screen` |
| `Printing` | a program that only prints: the screen *composed with* the ring its scrollback is kept in | `ScreenProperties`, `ScrollbackRing`, instance of `Teletype` |
| `Teletype` | abstract: paper fed under a print head | |
| `BoundedLog` | abstract: a log that forgets its oldest items | `History` |
| `ScrollbackRing` | the ring with `head` and `count` | instance of `BoundedLog` |
| `Reflux` | the action log and a subscriber | instance of `BoundedLog` |
| `Parser` | `Write` byte by byte, as a function of parser state and bytes | |
| `Params` | a parameter string, its numbers in an `int` that wraps, and the cursor | `Ints` |
| `SharedScreen` | goroutines whose `Write`s meet in one parser; the grammar | `Parser` |
| `DeviceLink` | `runIdunaPrompt` against IDUNA, the user and the clock | |
| `IdunaPrompt` | the prompt *composed with* the log it dispatches to | `DeviceLink`, `Reflux` |
| `DeviceKey`, `GpgKey` | the two `LoadOrGenerate`, for several processes | |
| `DeviceKeys` | both keys in the order in which a run wants them | `DeviceKey`, `GpgKey` |
| `Enroll` | the listener: handlers, main and the file | |
| `Pairing` | a device and a host end to end: runs that connect or enroll, the request between, the listener, its other clients | `DeviceKeys`, instance of `Enroll` |
| `GfdPoller` | poller and render loop in seconds | |
| `Connection` | opening and closing each kind of connection, and others who use handle numbers | |
| `SshOutput` | stdout and stderr of a remote shell through one channel and one `Read` | |
| `Selection` | mouse, clipboard and scrolling on the main goroutine, beside the shell's output | `ScreenProperties` |
| `Session` | main loop, read loop, prompt's end, remote, user | |
| `MC*` | the instances for TLC | |
| `Screen_proofs` | proofs about the cell loops and the screen | `ScreenProperties` |
| `Window_proofs` | proofs about what stands under the screen, the ring and the paper, and in front of it, the mouse | `Printing`, `Selection`, `Screen_proofs` |
| `Connection_proofs` | proofs about a connection's handles, and about its bytes on their way to the screen | `Connection`, `SharedScreen` |
| `IdunaPrompt_proofs`, `GfdPoller_proofs` | proofs about the prompt and its log, and about the poller | `History_proofs` |
| `Pairing_proofs`, `Session_proofs` | proofs about device and host, and about the session | |
| `History_proofs` | lemmas about the newest `cap` of a sequence and about indices modulo `cap` | |

How state and actions correspond to the code:

* **Screen.** Variables are the struct's fields; the flat slice `cells` is a
  function of rows and columns, and commands that address it linearly
  (`EL`, `ED`, `ECH`, leaving the alternate screen) are written through `Idx`, so
  that running into the next row happens in the model as in the code. A cell is a
  glyph, a colour and a weight. The scrollback is the sequence `sb`, for which the
  run `screen_print` and the theorem `RingIsBoundedLog` show the ring to stand.
  An access outside the slice sets `panicked` (`Fault`), after which no output
  follows, as the read loop's `recover` ends the connection.
  Counts and positions are `int`s: a count can be any `int` but zero, as `parseNums`
  adds up digits without a limit, and sums wrap where the code adds. CUU, CUD, CUF and
  CUB check one edge each, so that the cursor can come to lie anywhere off the grid;
  every command then says what it does there: write another cell, do nothing, or panic.
* **Parser.** Bytes are classes (escape, digit, final, lead of two or three,
  continuation, ...). `Feed` is a fold of `Consume`, whose branches are those of
  `Write`, `handleEsc` and `handleOSC`. Each completed command is an event that
  holds its bytes, which the grammar in `SharedScreen` is checked against.
* **Enroll, DeviceKey, GpgKey, GfdPoller, DeviceLink, Session.** Program counters
  name the place between two calls; every call that reads or writes something
  shared is one action, and every error return is a disjunct. Web services, gpg,
  net/http, SDL, shells and users are environment (marked external in
  `PROJECT.json`), modelled from what the code expects of them.
* **Selection.** The pointer has pixels and the selection cells, as in the code. The
  panic of `make` with a negative capacity sets `crashed`. The rendered highlight is
  an operator (`HighlightedIn`) that says which cells lie between the two ends, and
  is not computed as `selectedText` is, so that the two can disagree.
* **Connection.** Opening is a table per kind: what each call acquires, what it
  releases when it has succeeded and what when it fails; closing is the order in
  which handles are used. A handle is a number that another goroutine can be given
  once it is free.
* Names that begin as an action's and go on with a fault (`PushFullNoWrap`,
  `ShiftUpOneTooMany`, ...) are plausible bugs, defined before the action they
  would replace. No specification uses them: put in its place, each makes TLC
  report the property that it is there for.

## 3. The runs

Every run ends in about two minutes or less with two workers.

| Run | States | Shows |
|---|---|---|
| `screen_print` | 39,690 | *Refinement* `IsTeletype`: to a program that prints, grid + wrapping cursor + scrollback are one roll of paper. `RingIsScrollback`, `IsBoundedLog`: the ring, run beside it, holds that scrollback when it wraps. |
| `screen_commands` | 192,934 | Regions, editing, alternate screen, and every command with numbers at the limit of `int`: `LeavesOnlyByOverflow` and `PanicsAreKnown` say what takes the cursor off the grid of a window that never shrinks, and what panics there; `ScrollStaysInRegion`, `HistoryFaithful`, `AltIsAnInterlude`. |
| `screen_resize` | 555,595 | The window grows and shrinks at any moment: `TypeOK`, and `ViewIsWindow` over lines of several widths. The user drags, copies and pastes: `NoCrashOverTheGrid`, `CopiesTheHighlight`, `PasteIsFreshest`. |
| `screen_shrink` | violation | `ResizedScreenTakesText`: after shrinking, text panics the screen. |
| `selection_drag` | violation | `DragsAreHarmless`: a drag that ends below the grid and to the left crashes the program. |
| `parser` | 258,893 | `ReadsTheGrammar`, `BuffersAreBounded`, and `AsIfAlone` for two writers; `MovesAsWritten` for the numbers of the cursor commands. |
| `parser_unknown` | violation | `UnknownEscEnds`: after `ESC (` the terminal swallows everything that follows. |
| `pairing` | 514,024 | `ShownIsOnDisk`, `KeyIsKept`, `OneShown` for the device's keys through kills, full disks and overlapping runs; `FileOnlyGains`, `SuccessIsReal` and `Ends` (liveness) for the listener; `PairedCanLogIn` for both. |
| `gfd_poller` | 152,328 | `WaitIsBounded`, `SnapshotIsOnePoll`, `SnapshotReturns` (liveness). |
| `iduna_prompt` | 108,286 | `OverrunIsBounded`, `KeysFollowTheLink`, `AuthorizedInTime`, `PromptEnds` (liveness); `RefluxIsBoundedLog` (refinement), `PollsInOrder`. |
| `connection` | 48,906 | `NothingLeaks`, `ClosesItsOwn`; `OutputComesThrough` (liveness). |
| `session` | 713,469 | `SizesAgree`, `CredentialsOnce`, `QuitEnds`, `LossEnds` (liveness). |

**Bounds, and why they are enough.**

* *Screen.* Grids of up to 3 by 3: a first, a last and an inner row and column
  exist, so a region can exclude rows above, below or none and a wrap, a pending
  wrap and both corners occur. `Counts = {1, 2, MaxInt, -MaxInt}` holds
  numbers within the grid, one larger than the grid that wraps when a position is added
  and one that has wrapped to a negative. `MaxInt` is 20 (31 in the other runs of the screen), more
  than twice the cells of the largest grid: the source's `int` reaches far beyond any slice
  that fits into memory. The scrollback holds one or two lines, so it overflows.
  Four scenarios divide the commands, because each command's effect depends on
  the grid and the settings and not on the commands that produced them; one of
  them, of two by two cells, goes on after an overflow has taken the cursor off the grid,
  and the other three end there (`OnGrid`). The
  constraints `FewInks`/`FewSettings` bound how many cells differ from blank and
  how many settings from their default. That commands of different scenarios do
  not combine badly is what the proofs add: they cover every window and sequence.
* *Parser.* Four bytes of the connection, each a `Write`, and one write of the
  prompt, `CsiLimit = OscLimit = 3` for the source's 64 and 256: an escape
  sequence can begin, overflow its valve, and be followed by a byte that shows
  the state it left.
  Parameter strings have up to four characters of `0`, `1`, `9`, `;` and one that is
  skipped, before each of six kinds of command: two numbers, empty ones, and one of
  four digits, which an `int` of seven bits cannot hold, as 64 bits cannot hold one of
  twenty.
* *Selection.* Cells of two by two pixels; one window with a row of pixels below its
  grid, as the status bar is, and one with another number of columns; a pixel each in
  the first and last cell, between, right of and below the grid and outside the
  window. Three scenarios: resizing without a mouse; selecting, up to the first text
  selected; and pasting, in a window that keeps its size.
* *Logs.* Two slots: full, wrapped, and wrapped again (five actions).
* *Pairing.* Two runs on the device (one that tears the file or writes it and one
  that comes after or beside), two requests in all, two starts of the listener, one
  stranger, one failing call of gpg; the old file is empty or ends without a newline.
  `MCNext` keeps apart what shares no state: it leaves the listener out where gpg or
  two generating runs are at work, lets a stranger come only with one run and one
  start, and starts no step of a run at its key while a request is being served (the
  file of the key and that of the host have no step in common).
* *GfdPoller.* Three polls: one before, one at and one after a `Stop`; the real
  timeouts in seconds.
* *DeviceLink.* Codes of 0 and 5 seconds, calls of up to 2, intervals left out, 0
  and 3: the deadline falls in a sleep, in a call, between, or before the first.
* *Connection.* One handle of another goroutine at a time is enough to take a number
  that was given back. The channel's window holds two pieces of output, of four.
* *Session.* Two window sizes besides the first (wider; too low for a row), three
  acts of a shell's user, three writes of a MUD (name, password and one more).

`CHECK_DEADLOCK FALSE` stands where the modelled processes end or have done all that
their bounds allow: `screen_resize` and `selection_drag` (a crash, the first selected
text), `parser`, `pairing`, `iduna_prompt`, `connection`, `session`. The screen alone
and the poller never stop.

## 4. Fairness

Only what the runtime and the clock give is assumed (weak fairness throughout):
goroutines that can run do; time passes; a call that has timed out returns; a timer
fires. Nothing is asked of IDUNA, of the remote, of the user, or of a client that
has connected. In `connection` the read loop reads as long as the connection is up; that
the remote's stderr waits for the end of its stdout is excused by name in
`OutputComesThrough`. A goroutine that waits in a write for a remote that does not read
stays there: `QuitEnds` and `LossEnds` therefore end in `Ended \/ Blocked`, and
`Blocked` says precisely which case is excused. Sleeps in `DeviceLink` end on time;
on a loaded machine they are longer, and `OverrunIsBounded` grows with them.

## 5. The proofs

Every theorem is about the specification that the run instantiates and holds for
every value of the constants that the named `ASSUME`s allow: windows of all sizes,
data of any length, any number of runs, requests, writers and handles. Most of the
properties are not inductive; what is said below of each component is the invariant
that implies them.

### The screen (`Screen_proofs`)

* `TypeCorrect`: `Spec => []TypeOK`. `TypeOK` is inductive by itself; the lemmas
  of the first section say that each loop over the slice yields a grid of the same
  size, also for the two copies between sizes. One lemma per group of commands.
* `OverflowTakesItOff`: `GrowSpec => LeavesOnlyByOverflow`, and `PanicsAreThese`:
  `GrowSpec => PanicsAreKnown`, for every `int` as a count. `GrowSpec` is `Spec` in a window
  that never shrinks; the hypothesis is needed, as `screen_shrink` shows. From a state
  `InBounds` no position in the slice wraps (`Positions`: there is room in an `int` for
  twice the slice), a motion by a count that does not overflow stops at the edge it checks
  (`SteadyMotion`), and each other command leads to a state `InBounds`: the region must be in
  the grid for scrolling to keep the cursor there, and the saved frame no larger than the
  grid for leaving the alternate screen to restore it. Each command is shown to keep its
  indices below `rows * cols` but DCH and ICH where the sum with the column wraps, and EL 1
  with a pending wrap, which exceeds it on the last line only (`RowInSlice`).
* `StaysInBounds`: `CountsFit /\ GrowSpec => []InBounds`, and `PanicsOnlyInCorner`:
  `CountsFit /\ GrowSpec => [][~panicked /\ panicked' => Corner]_vars`. `CountsFit` is a
  hypothesis about the shell, that it sends no number near the limit of `int`; the code
  does not enforce it. Then `TypeOK /\ InBounds` is inductive (`NothingOverflows`), and the
  corner is the only place for a panic.
* `ScrollbackFaithful`: `Spec => HistoryFaithful`, with no condition on resizes: what a step
  adds to the scrollback are the top rows, and the rows below them move up. The
  invariant `Bounded` (the scrollback is no longer than its limit) lets a step
  that saves nothing be `Keep` of the whole; `OnlyScrollsSave` shows that only
  scrolls of the whole screen save, and `SavedBy` that they save its top lines,
  and `ScrolledUpMoves` that the lines saved are the ones that leave the screen.
* `ViewFollowsDocument`: `Spec => []ViewIsWindow`, from `TypeOK` and `ViewInBounds`: the
  view is no further back than the scrollback is long.
* `ScrollsKeepOut`: `Spec => ScrollStaysInRegion`, from `TypeOK` and `Upright`, the region's
  top being no lower than its bottom on both screens: a region that the window has shrunk
  under makes a scroll fault and not reach outside it.
* `InterludeRestores`: `Spec => AltIsAnInterlude`. `OnlyTogglesTouchAlt` and
  `LeavingRestores`; the linear copy of the saved cells is the identity when the
  widths agree (`LinearCopySame`, by division).

### Under and before the screen (`Window_proofs`)

* `RingIsBoundedLog`: `RingSpec => IsBoundedLog`, a refinement. The invariant says that
  `head` is 0 until the ring is full and that the slots in use hold lines; a push into
  a free slot and a push that overwrites the oldest are each `Keep(Capacity,
  Append(Contents, x))`, by `KeepAppend` and `KeepFull` of `History_proofs`.
* `RingKeepsScrollback`: `PrintingSpec => []RingIsScrollback`. `PrintInv` says that the region
  stays the whole screen when a program only prints, so that each scroll saves the one
  line that is pushed.
* `PrintsOnARoll`: `PrintingSpec => IsTeletype`, a refinement. Under `PrintInv` the initial
  states map to an empty roll, and each step to a step of the paper or to a stutter:
  a character in the line, a wrap, a line feed inside the screen, one that scrolls
  into a scrollback with room, and one that scrolls into a full one, where the top
  line of the roll is the one that is forgotten (`RollIs` reads a roll as scrollback
  and grid).
* `CrashesOnlyOffTheGrid`: until the pointer strays, both ends of the selection are cells
  of the grid (`DragInv`), and the row between two of them has no negative length.
* `PastesTheFreshest`: unless a call on the clipboard has failed, the clipboard holds the
  newest text (`ClipInv`). `CopiesWhatIsShown`: row by row, the columns that `selectedText`
  takes are those that lie between the two ends.

### A connection and its bytes (`Connection_proofs`)

* `HandlesComeBack`, `OwnHandlesOnly`: the tables `Kept...` say what each kind of connection
  holds before each call of its opening, and `CallsFit` that the calls lead from one entry
  to the next and that a failing call's clean-up covers what is held. `CloseInv` does
  the same for the first `Close`, and says of the second that nothing is held and, on
  Linux, that the fields say so. On Windows they do not, which `ClosesItsOwn` excepts.
* `NoByteLostOrReadTwice`, `WritersDoNotMix`, `AccumulatorsAreBounded`: the parser, for *all*
  data, any lengths of it, however cut, and all limits. `Reads(p, d)` is what a parser
  that has read `d` satisfies: its accumulators hold the start of a sentence that no byte of
  has ended yet (`Open`), its events are sentences, and their bytes with those of the
  accumulators are `d`. `ConsumeReads`: one byte leads from `Reads(p, d)` to
  `Reads(Consume(p, b), Append(d, b))`, whichever branch of `Write` and `handleEsc` takes
  it. `Tracks(p, q, r)` relates a parser to one with the same accumulators and fewer events;
  it is kept too, so that what another writer did before does not matter at rest.
  `WriteInv` says which parser alone the shared one tracks.
* The folds. `Feed` and `Joined` are folds of the community modules, that is
  functions on sets of indices which are *chosen* to satisfy their recursion. The second
  and third sections of the module show that such a function exists and what it is after
  one more item. The induction this takes cannot use the library's induction rules, whose
  parameter is an operator. It is made from the first-order fact that strict inclusion of
  finite sets is well founded: a set that holds 0 and with each number the next
  holds all (`NumberByNumber`), a set that holds the empty sequence and with each one
  its extensions holds all (`ByteByByte`).

### The prompt and its log (`IdunaPrompt_proofs`)

* `DeadlineOverrun`, `LinkBeforeKeys`, `InTimeIsSeen`: `TimeInv` says since when the prompt is
  where it is (a sleep began before the deadline, a poll at most one sleep after it),
  `AnnouncedInv` what has been dispatched at each place, and `UnseenInv` since when a
  device that no poll has found authorized can have been so.
* `LogHoldsTheNewest` (a refinement) and `NothingMissed`: `SlotsInv` places action `i + 1` in the
  slot of `i` as long as no newer one took it, `SubscriberInv` bounds the cursor.

### The other components

* `Pairing_proofs`: `SettledKeyIsKept` and `KeysShownAreOnDisk` from `KeyInv`, whose part
  `OneGenerator` is the heart: unless two runs have raced, one generates at most, and
  there is no key then. `OneGpgKeyShown`: whatever `gpg` was found to have is the oldest key of its
  ring. `FileGains` and `SuccessMeansEnrolled` from `HostInv`: the file begins with the old one and
  ends a line once written to, and a handler about to append knows that the old one's last line
  has an end. `PairedMeansLogin` joins both sides with `PairInv`: the key a handler has is
  the one that its run has shown.
* `GfdPoller_proofs`: `FrameWaitsOnePoll`, `FrameShowsOnePoll`. `WaitInv`: a render loop that has
  waited has done so in this poll or in the one that has just ended, and the next does not begin
  before the ticker fires. `AskedInv`: between polls all fields are from one poll.
* `Session_proofs`: `SizesSettle`, by `QueueInv`: a change that the grid does not show yet is an
  event in the queue, or one that the splash took. `LogsInOnce`: the two flags say exactly what
  was sent (`FlagInv`).

### Assumptions

`IntAssumption`: `int` has a limit above zero; `SizesAssumption` says that two slices of cells,
and a tab stop beyond, can be counted in it, as a `Cell` takes 12 bytes of memory.
A count is any `int` but zero (`CountsAssumption`), for which `numOr1` and its like give one.
Sizes, capacities and timeouts are positive (`SizesAssumption`, `ScrollbackAssumption`, `CapacityAssumption`, `LogCapacityAssumption`, `GlyphSizeAssumption`,
`LinkAssumption`, `PollerAssumption`, `SessionAssumption`); `main.go` keeps the sizes of windows at one
or more, and `WindowsAssumption` says so of the windows of a drag. The default colour and the space
are among the colours and glyphs. `PollerAssumption` also says that a poll's budget
is shorter than the ticker's period, as 5 and 10 seconds are, and that the field that a failing
fetch sets is one of those fetched. `HandlesAssumption` leaves room for one connection beside the
others' handles. `ChunksAssumption`: what is written are bytes. `RingAssumption`: ring and
scrollback have one capacity and hold lines. `NotAKeyAssumption`, `PairingAssumption`: what stands
for no key, a torn key or no status is none, and a stranger is not a run.

### Model-checked only

* The liveness properties: `Ends`, `SnapshotReturns`, `PromptEnds`, `OutputComesThrough`, `QuitEnds`,
  `LossEnds`.
* `MovesAsWritten`. What is *meant* by a number is a sum of powers of ten; none of the
  installed provers knows a fact about `^`.

## 6. Known disagreements of the source with itself

Three have a run of their own. The others are properties in the part of their module
headed "what the source says and the code does not do"; to see TLC's trace, add the
property to the configuration named (as INVARIANT, or PROPERTY when marked P).

| Property | Configuration | The source says | The code does |
|---|---|---|---|
| `ResizedScreenTakesText` | `screen_shrink` | `vterm.go:94` "Resize adapts the screen to new dimensions, preserving content where possible" | keeps the old region, so that the next line feeds index below the grid and panic |
| `UnknownEscEnds` | `parser_unknown` | `vterm.go:375` "consume and reset if it's a terminator" | only the byte after ESC is ever tested: `ESC ( B`, which `tput sgr0` sends, is never left again and the screen shows nothing more (delimited by `BuffersAreBounded`) |
| `DragsAreHarmless` | `selection_drag` | `main.go:1239` "mouse events firing slightly outside the grid [...] shouldn't produce a negative index" | the row is cut to the grid and the column of the cut row kept, so that the last line may get a negative length, and `make` panics (delimited by `NoCrashOverTheGrid`) |
| `CopiesBetweenTheCells` P | `screen_resize` | `main.go:1253` "extracts the text between two cell positions" | where the lower end is below the grid, the last row is cut at that end's column (delimited by `CopiesTheHighlight`) |
| `ClipboardIsAsFresh` | `screen_resize` | `main.go:824` "the real OS clipboard is always at least as fresh" | not after a `SetClipboardText` that failed, whose error is dropped (delimited by `PasteIsFreshest`) |
| `MiddlePastesOwn` P | `screen_resize` | `main.go:317` "middle-click paste here always pastes PITVIPER's own last selection" | the clipboard comes first, of whichever application (`main.go:828`); the comment there, `main.go:825`, says so (delimited by `PasteIsFreshest`) |
| `MergedLikePTY` P | `connection` | `sshconn.go:132` "same as a local PTY" | stderr waits for the end of stdout (delimited by `OutputComesThrough`) |
| `RenderNeverStalls` | `gfd_poller` | `gfdapi.go:6` "a failed API call never stalls the SDL2 render loop" | `poll` holds the lock through its HTTP calls and `Snapshot` waits (delimited by `WaitIsBounded`) |
| `DefaultRegionIsWholeScreen` | `screen_resize` | `vterm.go:40` "Default: [0, rows-1]" | after growing, text scrolls at the old last row and nothing reaches the scrollback |
| `EraseToStartStaysOnLine` P | `screen_commands` | `vterm.go:511` "erase in line" | with a pending wrap EL 1 erases a cell of the next line (delimited by `PanicsAreKnown`) |
| `LineOpsStayInRegion` P | `screen_commands` | `vterm.go:596` "within scroll region" | IL and DL above the region shift rows outside it (delimited by `ScrollStaysInRegion`) |
| `FullResetIsFull` P | `screen_commands` | `vterm.go:403` "full reset" | region, saved cursor, hidden cursor and alternate screen survive |
| `StrayByteIsReplaced` | `parser` | `vterm.go:131` "invalid byte sequences are replaced with U+FFFD" | a continuation byte with no lead is put as the rune of its value |
| `ConcurrentWritesAreSafe` | `parser` | `vterm.go:26` "Safe for concurrent use." | a sequence cut by a `Read` goes on with the prompt's bytes (delimited by `AsIfAlone`) |
| `CursorKeepsUp` | `iduna_prompt` | `reflux.go:4` "any subscriber can poll from a remembered cursor" | once the log is full the cursor never moves (delimited by `PollsInOrder`) |
| `ExpiredMeansUnauthorized` | `iduna_prompt` | `iduna_prompt.go:170` "expired before it was authorized" | the last poll may fail or come too early (delimited by `AuthorizedInTime`) |
| `OneMeansNoKey` | `pairing` | `main.go:116` "no key was added" | the timer can fire after the append |
| `FirstEnrollmentOnly` | `pairing` | `main.go:12` "exits after the first successful enrollment" | handlers go on until `os.Exit` |
| `NoDuplicateLine` | `pairing` | `main.go:21` "a no-op, not a duplicate line" | two handlers read before either appends |
| `SuccessIsSeen` | `pairing` | `main.go:12` as above | `done` is signalled before the answer is sent |
| `OneKeyPair` | `pairing` | `iduna_prompt.go:182` "never a second, divergent keypair" | two first runs at a time each write one |
| `TornIsReplaced` P | `pairing` | `sshkey.go:22` "generates and saves a fresh one if none exists yet" | a torn file is refused for ever |
| `CloseEndsOwnProcess` | `connection` | `pty_windows.go:219` "Close terminates the child process, tears down the pseudo console" | deferred twice, the second time with numbers given back (delimited by `ClosesItsOwn`) |
| `NoQuitIsLost` P | `session`, with a `gfd` mode | `main.go:1099` "Pump events so the window stays responsive" | a quit in the splash only ends the splash (delimited by `QuitEnds`) |
| `BarOutsideGrid` | `session` | `main.go:365` rows "reserved for the Channel 11 status bar" | a resize gives them to the grid |
| `PanicsAreContained` | `session` | `main.go:649` "should degrade this one connection, not crash the whole terminal" | the prompt's goroutine has no `recover` |
| `LoginAnswersPrompt` | `session` | `main.go:665` "auto-login when GFD_USER + GFD_PASS are set" | a prompt cut by two `Read`s is never seen |

Read in the source and stated by no property of its own:

* `main.go:1330`, "Any non-scroll keypress snaps back to live view": `handleScrollKey`
  returns before that line unless Shift is held, so that plain arrows and Enter do not;
  typed text does, through its own event.
* `pixelToCell` does not divide by the zoom: at any zoom but one, other cells are
  selected than those under the pointer.
* A frame in webmaster mode takes one `Snapshot` for the bar and one for the district
  pane: `SnapshotIsOnePoll` is about each of them, not about the two together.

## 7. Not modelled

* **SGR parameters and colours** (`handleSGR`). The pen is one of a set of values; how
  numbers become it is a table.
* **Zoom, fonts, the district pane's toggle, the window's title**: state of the main
  goroutine that only rendering reads. `Selection` is the screen at zoom one.
* **Rendering, fonts, glyph atlas, emoji, honor code text**: output and tables.
* **SSH protocol, TCP, gpg, net/http, SDL**: libraries and programs outside the source,
  modelled only as environment. That the garbage collector closes the socket of the
  SSH agent, which `Dial` never closes, is excepted by name in `NothingLeaks`.
* **The search for a shell** (`pty_windows.go`), which only reads the environment.
* **A key file that is there and cannot be examined.** `DeviceKey` has the file present or
  absent; any error of `os.Stat` is taken for an absent file by `sshkey.go:29`, as there.
* **Subscribers of REFLUX.** Nothing under `src/` polls the log yet, and a process dispatches
  five actions at most into 256 slots: the subscriber of `Reflux`, and a log that wraps
  under it, are the package's promise and not this program's behaviour.
* **Data races in memory.** What the goroutines of one process share is under a mutex
  (`Screen.mu`, `State.mu`, `globalMu`), a channel or an atomic, so that a step of the
  model is a critical section; what they share without a lock, files and handles, is
  modelled call by call.

## 8. Plan

The order was: the screen, which everything else writes to; the rings under it; the
parser and its two writers; the protocols that survive a run (keys,
`authorized_keys`) or bind goroutines together (session, poller, prompt); then the
mouse over the screen, the connections, and device and host as one system.

The proofs followed in the same order, the parser's last. What remains is to prove more
than the runs ask:

1. An invariant for windows that do shrink: where the region and the cursor may be then, and
   which commands bring them back to the grid.
2. `NoByteLostOrReadTwice` composed with the screen: that what the user sees depends on a
   writer's bytes and not on how they were cut.
3. `SettledKeyIsKept` as a refinement of an abstract store that holds one key.

## 9. Running it

`tlc -config <run>.cfg <module>` for the module that `PROJECT.json` names beside the
run; `tlapm <module>_proofs.tla` for the proofs. Every definition's place in the
source is in `PROJECT.json` under `map`, the hazards the properties are aimed at under
`hazards`.
