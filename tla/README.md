# Verification of unix.lib

unix.lib is a link library that gives Unix programs ported to AmigaDOS the BSD
calls they expect: signals, child processes, descriptors, pipes, select, files,
directories, times. This directory holds TLA+ models of it, the TLC
configurations that check them and proofs checked by TLAPS. Every definition is
translated from the C and assembler sources under `src/src`; the documentation
(`src/Docs/unix.doc`) is only used as a statement of what the code should do.

## 1. The system

A program linked with unix.lib is **one Exec task**. Nothing interrupts it: the
library never installs an exception handler. What looks asynchronous in Unix is
polled. `chkabort()`, called on entry of nearly every library call, and the
`Wait()` inside blocking calls collect the Exec signal bits that arrived, look
at four sources (alarm timer, ctrl-C, ctrl-D, children's exit messages), and
call the program's handlers from there. So a handler runs *inside* a library
call, may call the library again, may close what the interrupted call is using,
may `longjmp` out of it, or may `_exit`. Real concurrency exists between the
program and the other tasks: its children (started by `exec`, running a few
instructions of `child.asm` in the library's own data segment), the tasks at the
other ends of its fifos, timer.device, and the user's break keys.

| Component | State | Operations | Interacts with |
|---|---|---|---|
| signals (`signals.c`, `signal.c`, `sigsetmask.c`, `sigpause.c`, `setjmp.c`) | `_sig_mask`, `_sig_pending`, `_sig_handlers`, received Exec bits | chkabort, `_handle_signals`, `_sig_dispatch`, signal, sigsetmask, sigpause, setjmp/longjmp, alarm, abort | every call polls; handlers call anything |
| timers (`timers.c`, `sleep.c`) | alarm request; `_odd_timer`, shared by sleep and select | `_timer_start/abort/expired` | timer.device replies |
| children (`exec.c`, `child.asm`, `processes.c`, `wait4.c`, `kill.c`) | process table, `_next_pid`, `_child_*` globals, startup port, public "door" port, exit messages | exec, wait*, kill, exit clean-up | child tasks; SIGCHLD |
| descriptor table (`files.c`, `close.c`, `dup.c`, `fcntl.c`, ...) | `files[]`, `max_files`, driver state | open/alloc, close, dup, fcntl, read, write, ioctl | drivers: AmigaDOS files and fifos |
| AmigaDOS files (`amigados.c`, `open.c`, `unlink.c`, `mkstemp.c`, `rename.c`) | handle, lock, protection, deleted flag | read, write, seek, truncate, close, deleting open files | AmigaDOS locks and handles |
| fifos (`pipe.c`, `fifofd.c`) | read/write handles, skip count, request messages, reply port | pipe, socketpair, read, write, select_start/poll, close | fifo.library; the one signal bit all fifos share |
| select (`select.c`) | its masks, `_odd_timer` | select | every driver, timers, signals |
| directories (`dir.c`, `dir_data.h`, `scandir.c`, `stat.c`) | cached entries | opendir, readdir, telldir, seekdir, stat's shortcut | AmigaDOS |
| local time (`ctime.c`, `strftime.c`) | the zone in force, `tzname`, `timezone`, `daylight` | tzset, localtime, mktime, strftime | TZ, zone files |
| time zone compiler (`zoneinfo/zic.c`) | tables of rules, zones, links, leap seconds | reading lines, compiling zones | the files tzset reads |
| pure code (`protection.c`, `longlong.c`, `strtol.c`, `strtoll.c`, `fnmatch.c`, `timeconvert.c`) | none | conversions, parsing, matching | |
| option scanning (`getopt.c`, `getopt_long.c`) | `optind`, the static `sp` | getopt, getopt_long | each other's position |
| start-up (`_main.c`) | argv under construction | command line splitting, wildcard expansion | `exec`'s quoting |

### What is hard here

* **Re-entrancy.** A poll holds the bits it collected in a local variable while it
  runs handlers that poll again. Masks, handlers, descriptors, the process table
  and the shared timer may all have changed when the handler returns.
* **Races with child tasks.** A child reads its arguments from globals of its
  parent; its exit message may arrive before the parent has a table entry for it,
  or after the parent is gone.
* **Asynchronous requests.** Fifo and timer requests are messages that belong to
  another task until they are replied, and must be back before their memory is
  reused.
* **Faked events.** `kill(pid, SIGKILL)` makes the table say the child exited
  while it runs on and will send its real exit message later.

`PROJECT.json` lists each hazard at its line.

### What makes each component correct

* signals: no raised signal and no wake-up is lost; every piece of code runs
  under the mask it asked for; no handler is re-entered.
* children: each child works on its own arguments; each exit is noticed once,
  reported by at most one wait and with the right status; exit messages are freed
  exactly once whichever side dies first; wait4 returns.
* descriptors and files: every descriptor in the table points to live driver
  state; every handle, lock and message is released exactly once.
* fifos and select: no request is outstanding while program code runs; select
  reports what it found; a timeout ends the wait.
* local time: mktime undoes localtime, also in the hours that come twice or
  never; a zone's compiled file and the string that says the same agree; a new
  zone leaves nothing of the old one behind.
* command lines: what a program hands to exec arrives in the child's argv.
* pure code: the functions agree with their arithmetic or set-theoretic
  definition, including at the ends of their ranges.

## 2. The modules

| Module | Models | State and actions |
|---|---|---|
| `Signals` | the signal emulation of one task | the C call stack as a sequence of frames: program code (`User`), a `_handle_signals` half-way through its sources (`Handle`), `sigsetmask`, `sigpause`, `_exit`, and calls waiting for their `chkabort`. One action per step between two points where a handler can run. |
| `Processes` | parent and children | the globals, ports, messages and table; the parent's stack of activations (main, and handlers of any signal on top); one action per piece of the parent's calls and of `child.asm` between two points where a handler or another task can run. |
| `ChildTable` | what exec, kill and wait promise | states unborn, running, zombie, gone and the status. |
| `Select` | fifos, select, sleep and the timer the two share, of one task | requests and replies of fifo.library, the timer, the Exec bits, and the call in progress at each depth; one action per piece of a call between two points where another task can act or a handler can run. |
| `Descriptors` | the descriptor table, AmigaDOS files, unlink of open files | table, driver structures with their handle and lock, existing files; calls are cut at their polls. |
| `LongLong`, `StrTol` | the emulated 64-bit integer; strtol and strtoll | pure; the width `W` of a word is a constant |
| `FnMatch`, `Protection` | fnmatch; modes and protection bits | pure |
| `CommandLine` | exec's quoting, and `_main.c`'s words, extraction and expansion | pure; AmigaDOS's pattern matching is a constant |
| `GetOpt` | getopt, getopt_long | a scan is `optind` and `sp`; pure |
| `Helpers` | composes these: inputs grown step by step, the properties | |
| `Calendar` | the calendar of `tzfile.h` | pure |
| `CTime` | `ctime.c` | the variables of the zone in force; tzset and localtime as actions; mktime pure |
| `StrFTime` | `strftime.c` | pure |
| `Zic` | `zic.c` | pure: from lines to the contents of files |
| `Zones` | composes the three: a program that changes TZ over files zic wrote | |
| `ProcessesProofs`, `SignalsProofs`, `SelectProofs`, `DescriptorsProofs`, `HelpersProofs`, `ZonesProofs` | theorems about the module each is named after (section 4) | |
| `TextProofs` | theorems about the properties of `Helpers` that speak of texts | |
| `Numbers` | lemmas the proofs share: induction and least elements, powers of two, recursion and loops along a measure, folds, sequences strung together | |
| `MCSignals`, `MCProcesses`, `MCSelect`, `MCDescriptors`, `MCHelpers`, `MCZones` | instances for TLC | |

### Signals

`mask`, `pending` and `handlers` are `_sig_mask`, `_sig_pending` and
`_sig_handlers`; `bits` the Exec signal bits received and not collected; `alarm`
the alarm request; `port` and `alive` the children's exit messages and table
entries, and `unsent` the children that have not sent their message, which also
comes, late, from a child whose exit `kill` has faked. `kill` of a child is
modelled for `SIGKILL` only: its breaks go to tasks that are ready or waiting,
never to the running caller. A frame of `stack` is one C activation that a handler can suspend. The
source number of a `Handle` frame is the program counter of `_handle_signals`,
so bits held only in its local `sigs` are visible to the properties. Two ghosts:
`asked`, in a `User` frame, is the mask the code of that activation last asked
for; `typed` holds the break keys whose signal was not dispatched yet.

Program code is abstracted to the calls it makes, chosen from the constants
`MainCalls` and `HandlerCalls`, so that a run says for which programs it speaks.
Left out: signal numbers outside 0..31 and the text `_message` prints.

### Processes

The parent's calls are cut where another task or a handler can run in between:
exec up to `CreateNewProcTags`, then the wait for the startup message; each round
of wait4's loop; the sleep inside it. The child's code is cut at its shared
accesses: copying the globals, the startup message, the result, `FindPort`,
`PutMsg` or `FreeMem`.

`stack` holds an activation for main and for each handler running on top of it,
with the library call it is in. A poll is cut as `_handle_signals` is: the bits
are cleared (`Collect`), then the handlers of SIGALRM, SIGINT and SIGQUIT may run
one after the other (`ChecksOther`), and only then the exit messages are taken
(`ChecksChildren`); the handlers make the calls of `HandlerCalls`, polls among
them. `kill`, `_exit` and the round of wait4 after its sleep are a poll and what
comes after it (`then`). The poll that exec starts with is an action `Poll`, which
any program may take before it. wait4 does not poll before it sleeps, and neither
does the model.

Of the signals `Processes` keeps what decides where handlers run; masks,
`sigpause` and `longjmp` are in `Signals`. So here a handler is the program's or
there is none, a signal is held back only while its own handler runs, and handlers
return or end in `_exit`. `kill` of a child with another signal than SIGKILL
changes nothing the parent keeps.

`ImplementsChildTable` is the refinement: the child of an exec in progress counts
as running from the moment its process exists, because its exit can be noticed
only after exec has returned.

### Select

`Select` takes from `Signals` only that a poll may run handlers: which signal,
and under which mask, is abstracted to the bit "sig" and a choice, so that the
module can say what happens to *requests*. `req` holds each descriptor's two
messages (`rmsg`, `wmsg`), `skip` is `fi->skip`, `wopen` says whether `wfifo` is
not null, `timer` is `_odd_timer`. The other ends of the fifos, fifo.library and
timer.device are the external actions. A fifo's data are counted, not named:
`sent`, `dropped` and the ghost `got` are positions in the stream.

`fifo_read`, `fifo_write` and `select` are cut at `RequestFifo`, at `Wait`, at
each wait for an aborted message and at `_handle_signals`; between these the
code runs without another task being able to see or change what it uses, except
`Replies`, which commutes. Not modelled: descriptors of AmigaDOS files in a
select, its error returns (nothing has changed then but the signals polled), the
closing of descriptors by handlers, and the creation of pipes, which yields the
initial state.

### Descriptors

A call is an entry poll, then its work; only the line-wise write and the loop of
`delete_open_file` poll in the middle, and that loop is cut once more between
closing a descriptor and `DeleteFile`, where another task can come. `files` maps
slots to driver structures, `info` holds `fh`, `lock` and `deleted` of each,
`removed` is a ghost. `give` is `exec` handing a descriptor to a child by
`_pseudo_close`.

`DeleteFile` refuses a file on which anyone has a handle or lock (dos.library,
external). Who that can be is state: a descriptor (`info`), unlink's own lock, a
child (`given`), a lock left by an `open` that could not examine its file
(`leaked`, `open.c:64-69`), another task (`foreign`), which takes and leaves files
at any time. `_AMIGA_DELETE_IF_ME` is modelled with the failure of `DeleteFile` it
ignores and with the freed lock it leaves its caller, whose later `SameLock` may
say anything. The ghost `contended` collects the files that had two users at a
time (`Contended`).

Not modelled: dup and dup2, positions, protections, truncation, a `malloc` that
fails while the table grows, other tasks that create or delete the files, and a
`DeleteFile` that fails for another reason than use.

### The pure functions

A C string is a sequence without its NUL, and a pointer into it the number of
characters before it. Loops are recursive functions over positions, so that the
order of the tests is the code's; a local array or a count of bits becomes a set.
`LongLong` keeps the words of the C struct and takes their width as a constant.
`StrTol` is written with `LongLong`'s operations, as `strtoll.c` is with its
functions. `CommandLine` joins two files: what `CommandOf` (exec) makes of an
argument vector, `Argv` (`_main.c`) takes apart, unless a word ends the program in
`_fail` (`StartFails`): one that is no pattern (`Invalid`, `_main.c:406-410`) or
whose files cannot be read (`Unreadable`, `_main.c:436-437`).

`Helpers` makes inputs: a pair of long longs walks through all pairs of sample
words, a text grows by one character of an alphabet, a set of bits by one bit. So
every text up to a length and every set of bits is an input. Each property
compares the code's operator with a reference definition written from what the
function promises (`Value`, `SignedValue`, `Matches`, `OptionsOf`, ...).

### Local time

`lcl` is `*lclptr` with its arrays as sequences; `typecnt` is a field of its own
because TZ="" changes the first type and not the count. `ZoneOf(name, zone)` is
the zone that tzset leaves when `zone` was in force: it shows what each of the
ways to load a zone overwrites and what it leaves: `GmtZone` for TZ="", `WallZone`
for no TZ (`tzsetwall`), `NamedZone` for a file or a string of rules. `Bisect`, `Hunt` and
`OtherType` are the search of mktime with the order of its loops. The numbers of
a POSIX string are read already (`Texts`); the checks on them are there.

`Zic` folds the lines into tables, with the static variables that keep parts of
the line before, and folds each zone's lines and years into transitions with
`outzone`'s variables: offsets in force, start of the line, what is in force at
that start. `startttisstd` has no value before its first assignment (`zic.c:1346`,
`1372`): `Strays` are the values it may hold. `Zones` writes the files, then lets a
program set TZ, call tzset or not, and look at the moments around every
transition of the zone in force.

## 3. The runs

| Run | Question | Instance |
|---|---|---|
| `signals` | handlers that return: are signals, wake-ups, break keys or masks ever lost? | two children, ctrl-C, alarm, handlers for SIGINT and SIGCHLD, masks {} and {SIGINT}, program code nested two deep |
| `signals_jump` | handlers that `longjmp` or programs that exit, abort or trap | handlers for SIGINT and SIGALRM, one descriptor to close in `_exit` |
| `processes` | two children and handlers inside polls, every interleaving, safety, refinement and liveness | `MaxPid = 2`, handlers for SIGINT and SIGCHLD that poll, exec and wait for a child or any |
| `processes_door` | violation: an exit message sent to a deleted port | `MaxPid = 1` |
| `select` | are requests back whenever program code runs; is a stream read in order; can two calls wait for one message? | a descriptor open both ways and a writer, two bytes, handlers that read and write inside waits |
| `select_live` | do timeouts and data end the waits? | a reader and a writer, all calls and timeouts, handlers that read, under fairness |
| `select_count` | violation: a count without bits | one reader, no handler code |
| `sleep_nested` | violation: a wait without a timer | sleeps only |
| `descriptors` | does anything dangle or leak, is anything used after its end? | two files, two structures, a table that grows once, handlers that open, close, read, write and unlink, other tasks that use the files |
| `helpers` | do the pure functions agree with their reference definitions? | words of 8 bits, 81 x 81 pairs of long longs; every text of up to 4 or 5 characters of an alphabet with all the characters the function treats specially; every set of mode and protection bits |
| `strtoll` | violation: no number is converted | texts as above |
| `zones` | do mktime, localtime, tzset, strftime and zic agree with each other? | zones north and south of the equator, one with three lines, one with leap seconds, one that changes on a last Friday; twelve strings and files for TZ; times from 1965 to 1974 |

**Bounds.** `MaxNest` limits how many activations of program code may still make
calls: with 2, a handler interrupts main *and* calls the library, whose poll runs
another handler on top (which then may only return). That gives every pair of an
interrupted poll and a poll inside it, the situation all properties are about.
Two children are the least that put two messages behind one signal bit. `MaxExits`
only stops the user from typing ctrl-C for ever at a program that is already
exiting. `MaxPid` bounds the number of execs; two children suffice for one exec to
overwrite the globals of another, for one child's message to arrive while another
is waited for, and for a kill to race with an exit. One signal besides SIGCHLD puts a
handler between the clearing of the bits and the look at the children; that
handler and SIGCHLD's interrupt each other, three activations deep.

In `select`, one descriptor has both directions, so that one reply port carries
messages of both, and the other shares its signal bit; two bytes are the least
for which discarding and returning can get out of step. `MaxDepth = 2` lets a
handler run inside a wait of main; its own waits may be interrupted but run no
third activation. The sets a select asks for and the timeouts are all those
possible. In `descriptors` one of the two structures is the console's until that is
closed, so that two descriptors of one file, a slot freed below a used one, and a
file whose structure is reused all occur.

In `helpers`, nine sample words have a zero, the ends of the signed and unsigned
range and their neighbours, so that every carry, borrow and sign meets every
other; shifts are checked for all counts. Four or five characters are enough for
a sign, a prefix and a number beyond a long of 8 bits; for a star, a class and a
literal; for a quoted word with an escape beside another word; for a cluster of
options with an argument. The run may stop, when an input is complete: it does
not check for deadlock.

In `zones`, `TimeBits = 27` and `LastYear = 1975` shorten the range of a time_t to
nine years (TLC's own integers have 32 bits); that has leap years, a leap second
in the middle and at the end of a year, ten changes of summer time on each
hemisphere and negative times. The moments looked at are one second, half an hour
and one or two hours from each transition, where a wrong offset or a wrong type
shows.

**Fairness** of `select_live`: the task runs on until it blocks
(`WF(LibraryStep)`; program code need not call anything), fifo.library replies
what it aborted or what is ready, and timer.device replies when the time is up.
Two premises are in the properties because the code cannot provide them: the
handlers end (`HandlersEnd`), and for `DataWakes` signals do not come for ever
(`SignalsEnd`), since each of them makes select start another round.

**Fairness** of `processes`, for `WaitReturns`: Exec schedules every ready
task, so every child step and every step of a library call that can go on is
weakly fair; a handler, at each depth of the stack, eventually returns (strong,
since its own calls come and go in between); every command eventually ends, which is part of `ChildStep`'s
fairness and without which wait4 rightly waits for ever. Break keys and alarms are premised to
end (`SignalsEnd`), since each makes a wait4 that is woken go round again.

**Violations.** `OnlyToLivePort` fails because `child.asm` does not forbid task
switches between `FindPort` and `PutMsg`. `SelectCounts` fails because a round
that finds nothing already clears the caller's bits, and a later round counts
what it finds without setting them. `WaitIsTimed` fails because a handler's
sleep stops the timer of the sleep it interrupts; `sleep(0)` fails it alone.
`StrtollConverts` fails for the text "0": `will_overflow` divides the least long
long, which the division leaves negative and takes for smaller than the divisor.
`TimedReturns` and the other properties hold in the runs that exclude these
cases: no handler of `select` or `select_live` sleeps, selects or unlinks,
and no handler of `signals` jumps (a `longjmp` out of a SIGALRM handler forgets a
ctrl-C collected by the same poll).

### What the premises of the properties leave out

Where a property has a premise, the code does something else beyond it:

* `WaitReturns` and the **deaf wait**: `_handle_signals` clears all bits, dispatches
  SIGALRM, SIGINT and SIGQUIT, and only then looks at the children
  (`signals.c:153-160`). A handler of one of these that calls `wait4` sleeps in
  `Wait()` without a poll (`wait4.c:11-35`), although the child's message is queued:
  its bit is gone. It sleeps until another signal comes, for ever if none does.
  The run reaches this state (`DeafWait`), and the property excuses a wait4 only
  while it lasts. Callers of wait4 who want to be safe must not wait in these
  handlers. `QueuedIsSignalled` says exactly what is true: the bit is set, *or* a
  poll further down has yet to look.
* `NothingMisused` and `DeletedMeansGone`: `unix.doc:330-334` promises that unlink of
  an open file deletes it. A file with two users at a time is left behind when
  `DeleteFile` is refused, with its descriptor marked deleted, and unlink goes on
  with a lock it has freed and frees it again (`amigados.c:254-263`,
  `unlink.c:15-29`). Every user other than the one descriptor does it: a lock left
  by a failed open (`open.c:64-69`), another task, a child, a second descriptor,
  or a handler's unlink of the same file. Each happens in the run; the properties
  say that nothing else goes wrong then but the use of that lock, and that nothing
  at all does while no file has had two users. Once a freed lock has been used
  they say nothing about which files are gone, since what `SameLock` answers
  for it is arbitrary.

* `DivisionTruncates`: a dividend of a quarter of the range or more makes the
  shifted divisor reach the sign bit, where it compares as negative and is
  shifted on (`longlong.c:291`); the least long long as divisor stays negative
  (`:270`). A product of long longs may lose the carry of its two middle terms
  (`:161`).
* `FnmatchSound` asks for completeness only without stars: a star takes the first
  place that could match and does not come back (`fnmatch.c:26-42`), `*` does not
  match the empty string, and what follows a star is compared literally.
* `StrtolClamps`: "0" and "0x" in base 0 have no digits left after the prefix,
  and are reported as no number (`strtol.c:36-47`).
* `ExtractsFit`: the empty word `''` is tested as "a", two bytes where one was
  allocated (`_main.c:196`, `:388`).
* `ArgumentsSurvive`: an argument that is no AmigaDOS pattern, such as "(", cannot
  be passed by exec at all: exec quotes only quotes and stars (`exec.c:78-86`), so
  the child's `_main` takes the text for a pattern and ends in "Invalid wildcard"
  (`_main.c:406-410`), or in "Error expanding arguments" when its files cannot be
  read (`:436-437`). The property says that the child fails in just these cases,
  and that otherwise the arguments arrive. exec counts room for quotes but not for
  escaped stars (`exec.c:63`).
* `GetoptReadsAll`: a long option at the end whose argument is missing is
  reported without moving `optind`, so a program's loop sees it for ever
  (`getopt_long.c:57-62`).
* `MktimeCarries`: a negative field that is a multiple of its base, two or more
  of them, is left at the base (`ctime.c:1190-1192`), and a day before the start
  of the month is moved back by the length of the year before, also when it is
  counted from a month after February (`:1236-1240`): 0 March 1969 becomes 1
  March, and 0 March 1972 becomes 28 February, not the 29th.
* `ZonesAgree` leaves out the hours between the first rule after a continuation
  line's start computed with the line's offset and with that of the line before
  (`zic.c:1447-1457`), and a file whose uninitialised flag tzset refuses. A rule
  such as `lastFri` or `Fri<=25` can begin **a day early**: the search for the day
  steps back from Sunday to a weekday 7 that does not exist (`zic.c:1814-1815`), so
  it takes a step too many whenever it passes a Sunday, for every weekday but
  Sunday itself, whose search ends there. `zic.8:215-218` promises the last such
  day of the month. The zone "Friday" of the run shows it against the POSIX string
  M4.5.5: the two differ, and only in the day before the change.
* `TzsetForgets` leaves out TZ="": types other than the first, and its summer-time
  flag, stay from the zone before (`ctime.c:893-901`).

## 4. The proofs

Each `...Proofs` module EXTENDS the module it is about. The theorems hold for
every value of the constants that the module's `...Assumption` admits; hypotheses
beyond that are stated below, each with what the code does without it. TLC finds
every inductive invariant named here true on the instances of section 3, except
`MasksAgree`, whose witness is a function it cannot enumerate; it implies
`MaskAsAsked` and `HandlerNotReentered`, which TLC checks.

### Processes

For every `MaxPid`, every set of exit codes and of signals with handlers, and any
calls that main and the handlers make:

* `TypeCorrect`: `Spec => []TypeOK`;
* `ArgumentsSafe`, `MessagesSafe`, `ExitsSafe`, `WakeupsSafe`: the four
  invariants of the run;
* `Refinement`: `Spec => Abstract!CSpec`.

The inductive invariant `IInv` adds to these `Handshake` (an exec in progress is
the running call, with nothing on top of it; while it waits, at most one child is
between its birth and its startup message, it is the one of that exec, and the
globals hold its arguments), `Unused` (numbers not handed out have no process,
message or entry) and `Messages` (where a message is, as a function of where its
child is). Without `Handshake` the argument for `OwnArguments` fails at
`ChildCopies`; without `Messages` a message could be freed by a child after its
parent freed it. For `WakeupsSafe` each step is shown to leave a poll on the stack
or the bit set (`Announced`) until the exit messages are taken.

### Signals

For every set of signals, masks and children, and for a C stack of any depth:

* `TypeCorrect`: the types. They follow from `Shape`, which all the other proofs
  use too: every frame of the stack stands on one that can have called it or been
  interrupted by it (`WellFormed`), and SIGKILL is never pending.
* `PendingSafe`: `Released` says whatever frame is on top, not only program code,
  that a signal pending and not masked is still ahead of the *last* loop of
  sigsetmask on the stack. An earlier loop would not do: it goes on only when the
  later one has returned, and that one returns only when nothing is left.
* `WakeupSafe`: `Announced` says likewise that the last poll on the stack has yet
  to look at a source whose bit is gone. It must be the last one, since a jump may
  skip all that are below; with that it holds for handlers that jump as well.
* `BreakSafe`, if no handler calls `longjmp`: `BreaksKept`. A jump throws away the
  bits that the interrupted poll collected, so the hypothesis is needed; it is
  that of the run `signals`.
* `MaskSafe` and `ReentrySafe`, if no handler calls `sigsetmask`: `MasksAgree`
  gives every frame the mask before and after it, each as the frame needs it (a
  handler the mask below it with its own signal added, sigpause the one it will
  put back). The hypothesis is needed: a mask that a handler sets stays in
  force when it returns, in code that did not ask for it.

### Select

For every set of descriptors, number of bytes and depth of handlers:

* `TypeCorrect`, `RequestsSafe`, `StreamSafe`, `OwedSafe`: the type invariant and
  the three invariants of the run;
* `CallsSafe`: a call that goes on after a wait or a handler does so with a
  descriptor open for it, and select counts no descriptor twice (`FrameOK`).

`RequestsQuiet` speaks of the moments when program code runs and is far from
inductive. `IInv` adds where *each* message is at every moment, from where the
running call stands (`RequestsAsWaited`: pending or replied once asked for,
aborted or replied while its return is awaited, idle otherwise), and that a call
that a handler interrupts has none out (`BelowSettled`). With these,
`OwedIsComing` is a corollary: what the abort waits for is aborted or replied,
and the handler did not take it.

### Descriptors

For every number of slots, structures, names and growth steps of the table:

* `TypeCorrect`, `OwnersSafe` and `OnlyLocksMisused` in every program. The
  invariant `Structural` adds to `OneOwner` that a structure in use has an open
  handle on an existing file or is deleted, and that a line-wise write works on
  an open handle until a handler runs.
* `MisuseFree` and `DeletedSafe`, in every program and whatever other tasks do. The
  invariant `Promise` says what an unlink in progress has in hand: as long as no
  file has had two users, the lock carried around its loop is not one that was
  freed, the descriptor it has closed is the only user of its file, so that
  `DeleteFile` cannot refuse, and no second unlink meets it. `TwoUsers` must be
  contained in `contended` at every step for this, so the ghost is part of the
  invariant. `OnlyLocksMisused` says that a freed lock is all that any program can
  come to misuse.

### The pure functions

* `SumsSafe`: for words of *every* even width, and any two-word integers whatever,
  sums, differences, negation, complement and the comparisons are those of two's
  complement. The instance of the run has 8 bits. The argument follows the carry
  and the borrow between the two words.
* `ShiftsSafe`: for words of every even width, the three shifts keep, divide and
  round down as they promise, `clz` and `ctz` find the ends of a number, and the
  logical operators act on each bit. A word is taken as the set of its bits: it is
  the sum of the powers of two at them (`WordOfBits`, `BitsOfWord`), so or-ing
  what two shifts leave on either side of a place adds them (`OrAdds`).
* `DivisionSafe`: for words of every even width, quotients and remainders are those
  of C within the premises above, and the product of two longs is exact. The first
  loop shifts the divisor as far as the dividend reaches and no further
  (`Aligned`). Each round of the second keeps `AfterRound`: the dividend is the
  divisor times the quotient so far plus a rest below the shifted divisor, which
  at the end is the divisor itself (`RoundsDivide`). The signs come last
  (`SignsTruncate`). The partial products of half words lose no carry when both
  factors are longs (`MulOfLongs`).
* `ModesSafe`: for every mode and every protection, the subsets of the bits the
  code knows, with no walk through them.

`TextProofs` has the theorems about texts, for every text over any alphabet, of
any length. A loop of the code is a recursive function over positions; that such
a function exists and obeys its equation has to be proved first (`Recursion`: each
call is at a place with a smaller measure), and what it returns then follows by
induction over a *set* of good numbers, which the provers can instantiate.

* `ExtractsSafe`: a word extracted from a command line fits in what was allocated
  for it. Each character of the source gives at most one character, and the quotes
  give none.
* `FnmatchSafe`: what `fnmatch` accepts matches, and without stars everything that
  matches is accepted. The walk through pattern and text is a function of a pair of
  positions; a class is entered and left at the same place in code and reference.
* `StrtolSafe`: for words of every width and base 0 (a prefix tells) or 2 to 36, the
  result is the number that the digits stand for, or the end of the range. The
  invariant of the walk is that the value so far is that of the digits so far
  unless it has overflowed, and then it stays overflowed.
* `ArgumentsSafe`: the words that `_main.c` makes of the command line that `exec`
  wrote are the arguments it was given, and the child fails before main just when
  one of these is no pattern or cannot be expanded. The argument follows where each escaped
  character stands, that the first unescaped quote is the closing one, that the
  words begin one after the other, and that extraction undoes the escapes; room is
  counted along.

### Local time

* `YearsAddUp`, `YearFound`, `MonthFound`: `Calendar` has a closed form where
  the code's loops add up years and months. These prove that the closed form grows
  by each year's length and that the year and month it yields are those where the
  loops stop, for every day a 32-bit time reaches.
* `NormalizeKeeps`: `normalize` keeps the time two fields stand for, and how far a
  field can be left from its range (the cause of the premise of `MktimeCarries`).
* `WeeksOfDays`, and from it `WeeksSafe`: %U and %W count Sundays and Mondays.
* `TzsetSafe`: `TzsetForgets` for every set of TZ strings and files and any order
  of setting them. The invariant `ZoneInForce` says that the zone is the one a
  program that never had another would have (`Fresh`) and that its arrays hold
  what `localsub` indexes (`ZoneFits`).
* `LocaltimeSafe`: in every zone all fields of a local time are in range and of
  one day; without leap seconds they are the moment asked for, moved by the
  offset.

* `StrftimeSafe`: for every format and every two sizes, a call with less room
  writes what the one with more room does, NUL included, or reports 0. The fold
  over the items is followed in both at once (`Beside`).
* `MktimeFinds`: mktime in a zone with one offset, for every time whose fields are
  not two units of the next field below zero. Three arguments meet: the carries
  keep the moment that the fields promise (`CarriesOver`, `DayLands`; the loops over
  years and months end at a day of the month, `MonthsLand`); broken-down times with
  every field in range are in the order of their moments, so that `tmcomp` compares
  moments (`OrderOfMoments`); and a bisection over an increasing function closes in
  on the moment asked for, which after each round lies within the step that is left
  (`BisectFinds`, with the invariant `Within`).
* `CarriesSafe`, `OneOffsetInverts`: from it `MktimeCarries` in every zone and for
  every local time, and `MktimeInverts` in the zones with one offset.

`WeeksSafe`, `TzsetSafe`, `LocaltimeSafe`, `CarriesSafe` and `OneOffsetInverts` have
the hypothesis `[](ran = Len(Runs) => FilesFit)`: once zic has
written the files, they pass the checks of `tzload`, and there is a file for GMT.
It is a property of the inputs: without a GMT file the code reads what the zone
before left there, since a `tzload` that fails returns having changed nothing
(`ctime.c:893-906`). It holds in the run `zones` (TLC checks that the hypothesis
and `ZoneInForce` hold there), and `Zic` cannot be proved to establish it without a
proof of the whole of its folds over lines.

### Only model-checked

* `WaitReturns`, `TimedReturns`, `DataWakes`: liveness under fairness is out of the
  prover's reach.
* `StrtollConverts`, like the other violations, is refuted by TLC.
* `GetoptReadsAll`: its reference is recursive over whole command lines, and one
  step of the scan is not one step of the reference.
* `MktimeInverts` in zones with two offsets: what the bisection meets there depends
  on the gaps and overlaps of the particular zone.
* `ZonesAgree`: it compares particular zone files and strings.

## 5. Plan

In the order of importance:

1. `Signals`; `Processes` with `ChildTable` and its proofs; `Select`;
   `Descriptors`; the pure functions; local time and its compiler (done).
2. Proofs: the safety of `Select`, `Descriptors` and `Signals`; the sums,
   comparisons, shifts, products and quotients of `LongLong` and the protection
   bits; the calendar, tzset, strftime and mktime in zones with one offset; strtol,
   fnmatch and command lines (done).
3. `Descriptors`: dup, truncation, mkstemp, failing allocations, fifos as a
   second driver whose close a handler may call inside a wait.
4. `Directory`: readdir, telldir/seekdir, scandir, and stat's use of the entry
   read last.

## 6. Not modelled

* Directories (`dir.c`, `scandir.c`, `stat.c`): planned. `dir.c:104` takes the
  error code that ends every listing for a failure.
* dup and dup2, file positions, truncation, rename, links, temporary files, the
  creation of pipes, popen: planned as far as they keep state.
* `gmtime` with its own copy of a zone, `asctime`, the conversions between
  AmigaDOS dates and times, `gettimeofday`, `utime`: no decision depends on them.
* In `zic.c`: the splitting of lines into fields and words, the options -l, -p,
  -s, -v and -y, and its exits when a table is full.
* In `_main.c`: environment, stack and Workbench start; in `exec.c` the memory on
  the error paths (the command buffer is freed twice at `exec.c:132` and `:141`).
* The printf family, error texts, user and group data, host names: formatting,
  constants and thin wrappers. `alloca.c`, `basename.c`, `dirname.c`, `strsep.c`.
* `zoneinfo/getopt.c` and the other vendored sources of the tools.
