# Carroll in TLA+

Carroll is a voice assistant for Linux written in C: a server (`crserv`) takes
requests from a socket, lends each an entry of a table, has a directory of
loadable modules work on it, and is switched off through a character device.
This directory holds TLA+ modules translated from its source (`src/`), TLC
configurations that check them on small instances, and theorems that TLAPS
proves for every instance.

```
tlc -config MCLibrmc.cfg MCLibrmc      # any run: module and .cfg of PROJECT.json
tlapm LibrmcProofs.tla                 # the proofs, one *Proofs module after the other
```

## 1. The system: components, state, operations

### Request table: `library/librmc`
*State*: a linked list of `CORE_BITS` (2048) entries, each with a status
(enable, process, final), a code, and time stamps; a stamp of the current pass
in the head of the list. *Operations*: `librmc_init` builds the list;
`librmc_create` leases the first free entry; `librmc_select` finds the entry in
process with a given code; `librmc_find` (reaper thread, once a second) visits
entries at random and frees those that timed out; `librmc_final` (finaliser
thread) frees finished ones; `librmc_exit` frees the list. *Hard*: three threads
share the list without a lock; time is a minute and a second only; codes come
from ten static buffers; the reaper's random number is one too low.
*Correct when*: a lease ends for a reason, an answer belongs to its request, no
request waits for ever, entries come back.

### Clock: `library/libcrt/ctime.c`
*State*: none (the result is in static buffers). *Operations*: `get_time_start`
notes minute and second; `get_time_final` counts how many seconds ago a stamp
was, by walking the clock in a loop with seven ways out. *Hard*: wrap of the
hour, zero as "no stamp". *Correct when*: a stamp is found to be overdue when it
is, and not before.

### Server main loop and shutdown: `runexec/crserv`
*State*: the value read from the driver, the percentage computed, `ctrl_state`,
`close_final`, the counters of the freed. *Operations*: start, load modules,
reset the driver, the loop (look, report, act), the closing thread, the signal
handler, and the callback that serves a request with the table and the modules.
*Hard*: main and the closing thread advance and read the same counters;
memory is freed beside the threads that use it; signals at any time.
*Correct when*: one teardown, started because somebody asked, finished before the
process ends.

### Control driver: `driver/ctl10` (with `library/libdev`)
*State*: `progress_value`, `poweroff_value`; it outlives every program.
*Operations*: five ioctls; loading and unloading, which `ice10` and `qtl10` share
word for word. *Hard*: values left over from earlier runs; a kernel call that
fails half-way; a class of one name for all three.

### Power-off tool: `runexec/croffw`
*State*: a count of polls without progress, the last progress. *Operations*: ask,
poll once a second, withdraw. *Hard*: it withdraws by a number, not by an
acknowledgement.

### Microphone and input programs: `runexec/crmicp`, `runexec/crinp`
*State*: as the server's main loop, with one system node and no table or modules.
*Operations*: start, reset the driver, the loop, the closing thread, which only
says that it is done. *Hard*: they share the driver's two integers with the
server; none knows whose number or request it reads. *Correct when*: a request
stops all of them, and nothing but a request does.

### System nodes and counters: `libcrt/sysnode.c`, `libcrt/libcrt0.c`
*State*: a list of named nodes and two counters (made, freed). *Operations*:
append, free all, count, percent. Only the counters influence anything.

### Module stack and thread registry: `libcrt/mod.c`, `module/thi0`
*State*: a list of loaded modules (symbols, status) and one of their threads.
*Operations*: `mod_update` (load, initialise with up to thirty rounds),
`mod_find`, `mod_post`, `mod_getmod_func`, `mod_disable_service`, `mod_free`,
`mod_thread_update`, `mod_thread_close`, `mod_thread_exit`. *Hard*: the order of
the directory decides who is found; one broken file is met by every walk; threads
are cancelled, not waited for, before their records, data and code are freed, and
`thi0` walks the registry meanwhile. *Correct when*: a module is ended as often as
it was begun, a message reaches the module it names, nobody is left running.

### Modules: `module/*`
*State*: a few pointers each (`mod_struct_t`), set by messages. *Operations*:
initialise (a data module opens its folder, a service module starts its thread),
and one handler of messages. *Hard*: who keeps which pointer, and what its thread
takes it for.

### Request queue: `module/cor0` (with `libcrt/cache.c`)
*State*: a list of slots keyed by code, mirrored in a temporary file that nobody
reads back. *Operations*: search, set, append, update, select, exit. The worker
does all of it in its own call: an update through `bcdx`, which writes the mirror
record by record, then the result, which empties the slot again. *Hard*: codes are
shared between requests; every file operation may fail; the closing thread ends
the module under the worker's hands. *Correct when*: the result is the request
that was put, and the mirror shows no other.

### Socket session: `library/libsck`, in `crserv -s` and `crinp`
*State*: descriptors of the listener and of a session, a line buffer.
*Operations*: set up, accept, read a line, answer `+OK`. *Hard*: bytes come in any
pieces, clients leave at any time, descriptors are not given back. *Correct when*:
an answer for each line, to whoever waits for it.

### Configuration file and environment list: `libarc/config.c`, `libcrt/cenvp.c`, `runexec/crenconf`, `runexec/crdeconf`
*State*: a file, plain or encoded; the settings read from it; a list of names and
values. *Operations*: encode or decode the file in place, load it, parse its
lines, set a name. *Hard*: the file is rewritten in place beside a server that may
be loading; a parser with early exits. *Correct when*: the configuration survives,
and a server runs with what its file says.

### The rest
String and allocation helpers, the encoders of modules (`crenmod`, `crdemod`), the
sound library, the tray icon, a test tool, and vendored Bluetooth, compression and
cipher code: section 8. `PROJECT.json` lists each part with what is modelled of
it, or why nothing is.

### How they interact
```
client --line--> libsck_callback --callback--> worker of crserv --create/select--> request table
                     | descriptors                  |                                ^      ^
                  map0's thread                     +--mod_post--> bcdx --mod_post--> reaper, finaliser
                                                                    |  cor0 (queue, mirror), dbi0, dbo0
croffw --POWEROFF/RESTART--> ctl10 <--STATEOFF/PROGWRITE-- main of crserv, of crmicp
                                                              | starts
                    closing thread: cancels threads, frees table, registry, modules
crenconf, crdeconf --rewrite--> server.conf --_conf_load--> settings --> folders of the modules, socket
```

## 2. What is modelled, and how it corresponds to the code

| module | stands for |
|---|---|
| `Ctime` | `get_time_final`: the loop as it is written, its seven exits, the static results, and its closed form |
| `Librmc` | the request table and its three threads |
| `CtimeProbe` | what the clock will show of stamps taken from the present on |
| `LeasePool` | the abstract promise: slots are lent to one holder and come back through one collector; `Librmc` implements it |
| `Ctl10` | the driver in use: two integers, the ioctls as actions |
| `Drivers` | loading and unloading `ctl10`, `ice10`, `qtl10`, with every kernel call that may fail |
| `Croffw` | the power-off tool |
| `Crserv` | main thread and closing thread of the server |
| `Poweroff` | composes driver, server and tool, with restarts, interrupts and signals |
| `Shutdown` | the abstract promise: a run serves, closes once and on a wish, frees all it has bit by bit and only then leaves; `Poweroff` implements it |
| `Crmicp` | main thread and closing thread of each microphone program |
| `Station` | composes server, microphone programs and tool on one driver |
| `Teardown` | the closing thread beside main, worker, reaper, finaliser and the modules' threads, over the memory it frees |
| `ModStack` | the list of modules: broken files, retries, search, broadcast, freeing |
| `Modules` | the modules of the repository: names, certificates, what each handler keeps; who gets which message |
| `Cor0` | the request queue and its mirror file |
| `Libsck` | the socket thread: set-up, accept, line reader, answer |
| `Descriptors` | composes `Libsck` with the thread of `map0` on one set of descriptors |
| `Confile` | encoder, decoder and loader on one file, with crashes and short writes |
| `Settings` | from the lines of the file to the settings in use and the environment list |
| `LibrmcProofs` | theorems about the request table (`Librmc`, `LeasePool`) and its clock (`CtimeProbe`) |
| `PoweroffProofs`, `StationProofs` | theorems about the two compositions on the driver; `CrservProofs` has the lemmas they share |
| `QueueSocketProofs` | theorems about `Cor0` and about `Libsck` in `Descriptors` |
| `ConfigurationProofs` | theorems about `Confile` and `Settings` |
| `LoadingProofs` | theorems about `Drivers` and `ModStack` |
| `ModuleThreadProofs` | theorems about `Teardown` and `Modules` |
| `MC*` | sizes for TLC |

**Grain.** In `Librmc` a step reads or writes one entry: the scans of
`librmc_create` and `librmc_select` take one step per entry and
`librmc_find` two (the two stamps it looks at), so the reaper can run in between,
as it can in the program.
In `Poweroff` and `Station` a step is one ioctl, or the reading of the counters
that precedes one; the closing thread frees in steps of its own, so `main` compares
a percentage that may be old. When a process ends by a signal its variables go back
to what a new one starts with (`Fresh`, `MicFresh`): nobody can read them.
In `Teardown` a step of a thread is a stretch of code between two places where what
it uses may have been freed; each step names that memory, and `Uses` records whose
use of what came too late. A cancellation is deferred (the default of the threads
library): it is acted upon at the next sleep, or inside a call on a file.
In `Cor0` a step is one file operation, one test of the queue's pointer or one use of
the list behind it, so the module's exit can come between a test and the use it guards
(`Scan`, `Store`, `TakeBack`), and between two of the tests; in `Libsck` one
byte; in `Confile` one system call on the file; in `Drivers` one kernel call with
the branch on its result.

**Faithful to the letter.** The modules keep what the source does where it differs
from what it seems to mean:
- `librmc.c:217` compares with `CRMC_FINAL` where an assignment was meant, so
  `librmc_select_hit` leaves the status alone;
- `proc.c:36` draws `rand()%CORE_BITS-1`, so `RandomCodes` holds 65535 and lacks the
  last entry; `librmc_find` returns the number it was given if no entry has it, so
  the reaper keeps 65535 once it has it;
- `get_time_final` writes its result over the stamp of the pass it was given;
- `cdigest` hands out ten buffers in turn, so `Code(e)` is `e % Ring`;
- `RESTART` in the driver copies from a user address that is never valid, and
  leaves 0 for every value but 1;
- `croffw` compares an unsigned value, so the driver's initial -1 counts as
  complete;
- the branch of `crserv/main.c:431-435` for `libcrt_sysnode_run() == 0` is never
  taken, as nothing sets what makes that function return 0, and is no action;
- the counter of missing symbols in `mod_update` is not reset between rounds, so
  one missing symbol means all thirty rounds (`RoundsFor`);
- `STACK_VERIFY` compares nothing: modules that know it store an address, the
  others leave the certificate, so the first module passes for any (`Verified`);
- `find_init` has no return value on its failure path, and what the build returns
  is not NULL;
- `cread` restarts its match at a byte that does not fit without looking at that
  byte as a first one (`Matched`);
- at the end of a connection `libsck_callback` closes nothing (`Disconnect`);
- the server decodes the memory that holds its callback's address, not the line
  (`libsck.c:165`), so the callback is never given the text of a line (`Answer`);
- `libmsx` hashes `sizeof(keys)`, eight, bytes of the code whatever its length, so a
  short code's key has bytes of what lies behind it (`Key`);
- `_envp_set` changes an entry and then adds another one (`_envp_set`);
- `_envp_add` gives only the first entry of the list a null pointer for its next one;
  what a later entry has there is what its memory held (`tail`), and the next add
  follows it. If that is no null, it reads what is no entry, and the process is not
  followed any further (`spc = "astray"`);
- the cipher's key and start are digests of the text, kept in the header of the file
  beside the hash of the user's code (`stream.c:108-126`, `349-363`), so a body decodes
  under any header of the same text (`Belongs`);
- the drivers compare what `class_create` returns with NULL, where the kernel
  returns an error pointer.

**Floating point.** `percent` divides as floats and truncates to an unsigned
integer; with the totals of the configurations (4159 and 4102 records) this equals
integer division for every count, which is what `Percent` uses.

**Mutants.** A definition headed `MUTANT of X` is a plausible mistake in `X` (a
dropped guard, a missing reset). It is used by no behaviour. Put in place of `X`
it makes a named property fail (`PROJECT.json`, "mutants"): that is how each
property is known to depend on the code.

## 3. The runs

| run | asks | answer |
|---|---|---|
| `librmc` | is the table a `LeasePool`? who may release a lease? what becomes of the table once the reaper is lost? And of the clock: does the loop count what its closed form says, is a stamp found overdue, and never early? | it is; an expired stamp, or a tick during the pass; it fills up and stays full; yes, but for three stamps |
| `poweroff` | does a run of the server keep the promise of `Shutdown`: one teardown, asked for, complete before exit? the driver's numbers | it does |
| `poweroff_complete` | is a server off once croffw has said "complete progress"? | **no**: below |
| `station` | with a microphone program on the same driver: what stops a program? whose progress is shown? does a request that stands stop both? does croffw end? | a request, or for the microphone program a failed load; its own 100 over the server's; yes; yes |
| `modstack` | what does a broken module file cost the others? | what it hides by its name, its position or its silence, and nothing else |
| `teardown` | who can be caught using freed memory, and does the shutdown end? | below; it does, by itself or by a signal |
| `cor0` | does the queue keep the worker's request, and the mirror only that, whatever fails? when is the module's exit the end of the process? does a removed mirror come back? | yes, unless the mirror could not be truncated; when it falls into an update or a result; no |
| `descriptors` | an answer for each line? what do descriptors that are not given back lead to? | yes, but for the lines the reader cannot see; to the end of the process |
| `confile` | is the configuration ever lost, or a load left without settings, without a cause? | only after a crash or a short write; the second also beside a decoder, but not beside an encoder |
| `modules` | which messages depend on the order of the directory? | those by certificate and those to namesakes; not the posts of a request |
| `settings` | does the server run with what its file says? when is it lost in its environment list? are values set later found? | below; not before the third entry; yes, until then |
| `drivers` | is a file in `/dev` ever left without the driver behind it? | no |

The properties each run checks; each is stated in words above its definition, in the
module of that name or in one it uses:

| configuration | properties |
|---|---|
| `MCLibrmc.cfg` | `PastTheLeaseMeansReaped`, `LoopIsClosedForm`, `NeverOverdueEarly`, `OnlyTheHourEdgeIsMissed`, `ReleaseHasCause`, `LostReaperReleasesNothing`, `LastEntryNeverFreed`, `PoolSpec`, `LostReaperExhaustsTheTable` |
| `MCPoweroff.cfg` | `OffMeansAllFreed`, `TeardownWasAsked`, `ReportNeverAhead`, `ShutdownSpec` |
| `MCPoweroff_complete.cfg` | `CompleteMeansOff` |
| `MCStation.cfg` | `StopsHaveCause`, `OverstatedByClientsOnly`, `StandingRequestStopsAll`, `CroffwEnds` |
| `MCModStack.cfg` | `InstancesEnd`, `UnreachableHasCause`, `ToldUpToTheFirstDeaf` |
| `MCTeardown.cfg` | `ReaperCaughtInItsPassOnly`, `WalkerCaughtLate`, `TeardownEnds` |
| `MCCor0.cfg` | `RequestIsQueued`, `MirrorOfTheLatest`, `CrashInsideOnly`, `MirrorStaysRemoved` |
| `MCDescriptors.cfg` | `OkPerLine`, `OneLateAtMost`, `DiesOfClientsOnly`, `FullMeansDeath` |
| `MCConfile.cfg` | `Survives`, `LoadedWithoutCause` |
| `MCModules.cfg` | `NamesakesHide`, `PointersGoToTheFirst`, `RequestsIgnoreOrder` |
| `MCSettings.cfg` | `FileDecides`, `TwoEntriesAreSafe`, `SetIsSeen` |
| `MCDrivers.cfg` | `NodeHasItsDriver` |

Each `MC` module extends the module of the same name (`MCLibrmc` through
`CtimeProbe`) and holds only values for its constants.

**What they show that is worth knowing.**
- *The reaper is lost sooner or later*: one draw in 2048 is 65535, after which it
  releases nothing until the process ends (`LostReaperReleasesNothing`), and if
  sound keeps coming every entry ends up leased and every request is dropped
  (`LostReaperExhaustsTheTable`). The last entry is never released at all
  (`LastEntryNeverFreed`), and the finaliser has nothing to do.
- *When the clock ticks during a pass, any lease may be released*: without the
  exception `ticked`, `ReleaseHasCause` fails. An answer goes past the request's
  own entry only after the reaper took the lease (`PastTheLeaseMeansReaped`).
- *croffw may withdraw too early* (the finding of `poweroff_complete`). It leaves at
  99 percent, which the server can report while modules are still being freed.
  `main` then reads 0 and stays in its loop with its table and modules gone, until a
  second `croffw` asks again.
- *croffw takes old numbers for new ones*: started while no server is in its loop it
  reads what the driver last held, -1 or an earlier run's 100, and reports completion at
  its first poll (`Complete`). `ReportNeverAhead` is about a server in its loop, and no
  property forbids this.
- *A microphone program's 100 is taken for the server's*: it has one node to free and
  reports 100 a round after it sees a request, so a `croffw` that polls then
  withdraws a request the server may not have seen. While the server is in its loop
  only such a program makes the driver show too much (`OverstatedByClientsOnly`). One
  that starts withdraws the request that stands, hence the antecedent of
  `StandingRequestStopsAll`. A failed load of the server's modules stops the
  microphone programs (second disjunct of `StopsHaveCause`), while the same request
  is lost on the server itself (`TeardownWasAsked`).
- *The reaper is the only thread cancelled before what it uses is freed*, and is
  caught only in the middle of a pass (`ReaperCaughtInItsPassOnly`). `thi0`, walking
  the registry, is caught late only if it was in the walk, or if another module with
  a thread is loaded before it (`WalkerCaughtLate`). Three places cancel threads, and
  still none is cancelled twice, and all are before the first module is unloaded
  (the theorem `ThreadsAreCancelledOnce`).
- *Order of the directory*: whoever `readdir` returns first gets the module list, the
  request table and the nodes (`PointersGoToTheFirst`); `mod0` then reads a request
  table as a list of modules if it comes first. Of two namesakes (`stk0`/`map0`,
  `dbm0`/`dbv0`, `sys0`/`vid0`) the second is never posted to (`NamesakesHide`).
- *A server with many connections ends*: every connection keeps a descriptor, and
  when they are used up `map0`'s next look at `/proc` follows a pointer that
  `find_init` never set (`FullMeansDeath`). Before that only a client that leaves
  ahead of its answer ends it (`DiesOfClientsOnly`).
- *The module's exit ends the process some steps after it*: freed inside of an update
  the queue is missed by the tests of `c00_libmod_search` and `c00_libmod_append`, which
  give up quietly, and then read through NULL at `init.c:247`, with the request in no
  queue. Freed between the update and the result, it is not missed (`CrashInsideOnly`).
- *The start of a server depends on what `malloc` returned*: `load_config` adds five
  entries, and each from the third on follows a pointer that was never set. crmicp adds
  one and is safe (`TwoEntriesAreSafe`). Nothing in the sources calls `_envp_get` or
  `_envp_set`; the model has them as the library offers them (`SetIsSeen`).
- *A load beside an encoder is safe, with whatever code the encoder works, beside a
  decoder it may succeed without any setting* (`LoadedWithoutCause`).
- *A line without `=` drops the rest of the file; a line beginning with `$` makes the
  server free a pointer it has moved*; a directory or address without a line is a
  null pointer at its first use (`FileDecides`).

## 4. Bounds, and why they are enough

- `librmc`: `N = 3`, `Ring = 2`: two entries that share a code, one that does not,
  and the last that the reaper never visits. `Times` are two readings twenty seconds
  apart with a limit of fifteen: a lease is either fresh or overdue, and the duration
  that overwrites the pass stamp reads as overdue too. The clock may go back, as
  minute and second do after an hour. `Delays`: the stamps of a minute in the middle
  of the hour, and all those around its end; each is followed for 200 seconds, longer
  than any is found late (121), and those never found for the whole hour. The
  invariants about the clock speak of the start of the server only (`AtStart`): they
  quantify over what it will show, which no later state can change.
- `poweroff`: the sizes are the program's (2048 entries, 20 modules). The closing
  thread frees entries in jumps between `Looks`: the counts on the two sides of
  each percentage that a program compares with (60, 90, 99), 0 and the ends. Between
  two of them every comparison of `main` gives the same result; `poweroff_complete`
  uses one side only. Two runs of the server and two of `croffw` let one see the
  other's leftovers in the driver.
- `station`: one microphone program (each further one would write the same two
  numbers), one start of each program and one request, no count of freed entries
  between none and all: the stages of the closing thread are `poweroff`'s subject, the
  other writer is this one's. What earlier runs leave behind is covered by the
  theorems, for any number of programs and starts.
- `modstack`: three files, so that one can stand before and behind a broken one, and
  two names. `Rounds` is the program's 30. A file lacks one symbol or all of them.
- `teardown`: two modules: the first takes the worker's posts and writes files, the
  second is `thi0` with its walk. More modules repeat the same walk; more posts the
  same post.
- `cor0`: four requests, two codes: the slot is filled, emptied and filled again,
  with the same code or another one. The module's exit may come at any step of any of
  them.
- `descriptors`: two connections, two descriptors, a buffer of three bytes; one
  script fills the buffer and ends with an empty line, the other hides its end behind
  a second CR and grows too long.
- `confile`: six runs of a program: encode, decode and load, and each again; a code
  that fills the key and one that does not, with two things behind it.
- `modules`: every order of three selections of modules that matter to each other,
  and the whole directory in the rotations of the alphabet and their reverses.
- `settings`: a text that sets every field, with up to two odd lines anywhere, or
  without one of its lines; two calls of `_envp_set`, so that the second comes to a
  list the first has grown. `drivers`: the program's three; they are symmetric.
- Deadlock is not checked except in `librmc`: elsewhere the system comes to its end
  once the bounds are used up, or the process is over.

## 5. Fairness

Threads that can run do run: weak fairness on the worker and the reaper
(`Librmc!FairSpec`), on main, the closing thread and the poll loop of croffw
(`Poweroff!FairSpec`, and `Station!FairSpec` for each program), on each thread of
`Teardown` and on the delivery of a cancellation to a thread that sleeps, on the
thread of `map0` (`DFairSpec`). None of them waits for a lock, and their sleeps end.
No fairness on what the program does not control: sound arriving, the clock, starting
a program, interrupting one, a signal, a module that fails to load, a request for
power-off, what a client of the socket does, or the socket thread itself, which may
wait for a client for ever. `LostReaperExhaustsTheTable` assumes in its own statement
that sound keeps coming.

## 6. The proofs

Each theorem holds for every value of the constants that the module's assumption
admits. Beside the properties of the runs some are proved that no run checks (they
are marked *): TLC was used on them while the invariants were being found.

| module | assumption | theorems |
|---|---|---|
| `LibrmcProofs` | `LibrmcAssumption`: any table below 65535 entries, any ring of codes, limit, clock (and for the last three `ProbeAssumption`) | `TableIsAPool` (`PoolSpec`), `ReleasesAreCaused` (`ReleaseHasCause`), `LostReaperIsLostForGood` (`LostReaperReleasesNothing`), `LastEntryStaysLent` (`LastEntryNeverFreed`), `PastTheLeaseIsReaped` (`PastTheLeaseMeansReaped`), `AnswersAreAliased`*, `LeasesEndByTimeoutOnly`*, `RequestsGetNearer`*, `TypeCorrect`*, `LoopComputesClosedForm` (`LoopIsClosedForm`), `NoStampIsOverdueEarly` (`NeverOverdueEarly`), `OnlyThreeStampsAreMissed` (`OnlyTheHourEdgeIsMissed`) |
| `PoweroffProofs` | `CrservAssumption`, `PoweroffAssumption`: any sizes, any numbers of starts | `RunsKeepThePromise` (`ShutdownSpec`), `OneCloserOnly`*, `OffIsComplete`, `ShutdownIsAsked`, `ReportIsNeverAhead`, `OffShows`*, `ShutdownTyped`* |
| `StationProofs` | the same, any number of microphone programs | `StopsAreCaused`, `OverstatementIsAClients`, `StationTyped`* |
| `QueueSocketProofs` (queue) | `RAssumption`: any number of requests, any codes | `NoRequestIsLost`, `MirrorShowsTheLatest`, `CrashIsInside` (`CrashInsideOnly`), `RemovedForGood` (`MirrorStaysRemoved`), `QueueStaysShort`*, `RequestsAreOwn`*, `QueueTyped`* |
| `QueueSocketProofs` (socket) | `LibsckAssumption`: any clients, any bytes, any length of the buffer, any number of descriptors | `EveryLineIsAnsweredOnce` (`OkPerLine`), `OneConnectionIsLate` (`OneLateAtMost`), `OnlyClientsKill` (`DiesOfClientsOnly`) |
| `ConfigurationProofs` (file) | `ConfileAssumption`: any codes, anything behind them, any number of runs | `ConfigurationSurvives`, `LossHasCause` (`LoadedWithoutCause`), `OtherKeysAreSafe`*, `FileTyped`* |
| `ConfigurationProofs` (settings) | `SettingsAssumption`: any texts made of the kinds of lines, any values, any number of sets | `SettingsAreTheFile` (`FileDecides`), `LatestIsFound` (`SetIsSeen`), `LostFromTheThirdOn` (`TwoEntriesAreSafe`) |
| `LoadingProofs` (drivers) | `DriversAssumption`: any set of drivers | `NodesHaveDrivers`, `OnlyOneNode`*, `NothingElseIsLeft`*, `DriversTyped`* |
| `LoadingProofs` (stack) | `ModStackAssumption`, `ReservedNames`: any directory, any names, at least two rounds | `CompleteModulesEnd` (`InstancesEnd`), `EarlierModulesHide` (`UnreachableHasCause`), `FirstDeafStops` (`ToldUpToTheFirstDeaf`) |
| `ModuleThreadProofs` (threads) | `TeardownAssumption`: any number of modules, any of them with a thread, any posts | `ReaperIsCaughtInItsPass` (`ReaperCaughtInItsPassOnly`), `WalkerIsCaughtLate` (`WalkerCaughtLate`), `ThreadsAreCancelledOnce`* (`CancelledOnce`), `EverythingIsFreedOnce`*, `ClosingIsBounded`*, `CancelledThreadsGetNearer`* |
| `ModuleThreadProofs` (messages) | `ModulesAssumption`: any selection of the shipped modules in any order, any number of requests | `NamesakesAreHidden` (`NamesakesHide`), `PointersAreTheFirsts` (`PointersGoToTheFirst`), `RequestsFindTheirModules` (`RequestsIgnoreOrder`) |

*The request table.* Few of its properties are inductive alone. `Inv` conjoins
`TypeOK`; `Locals`, what the program counters say of the local variables (the worker
has a lease in "select" and "send" and an answer in "send"; the reaper in its second
half holds the number of an entry; all entries are free until the table is built);
`NoRequestFinishes`, as a finished entry would be freed by a third thread; and
`StampOfPass`: while the clock has not moved since the pass began, the stamp of the
pass is the present or `<<0, 0>>`, neither of which is overdue. `MovesOfTheLeases`
reduces every step to one of three: no status changes, the worker is lent a free
entry, or the reaper frees the leased entry whose number it holds, for one of the two
causes in the code. The action properties follow from `Inv` and this lemma. The
properties of answers are inductive relative to `Inv`: the scan of `librmc_select` can
only step over the request's own entry if it is free by then, and what has been freed
is not lent again while the only worker is busy. `WorkLeft` counts the steps a request
may still take; the reaper may take the lease from it, but not its place in the scan
(`RequestsGetNearer`). For the refinement the first half of
a reaper's visit maps to `Collect` or a stutter, the second half to `Collect`, `Stop`
or a stutter: it may free an entry and draw 65535 in one step, which is why `Collect`
leaves `alive'` free. `UShort` stays unexpanded; all the proofs use of it is that
`(-1) % UShort` is the number of no entry.

*The clock.* `LibrmcProofs` (its last part, with `ProbeAssumption`: stamps of any
seconds, followed for less than an hour) proves `NoStampIsOverdueEarly`
(`NeverOverdueEarly`) for every limit, and `OnlyThreeStampsAreMissed`
(`OnlyTheHourEdgeIsMissed`) under the further hypothesis `Limit = 15`, the number in
`librmc.c:266`: which stamps are missed depends on it. `AfterIs` replaces the divisions by 60
by the minutes that have begun; then the first follows from `ElapsedIsNotAhead` (what
is measured is at most one second more than the age), and the second from naming the
poll that finds the stamp: the 16th if its second is 43 at most, the 61st if it is 59,
and the 121st for those between. These speak of the closed form that the modules use;
`LoopComputesClosedForm` (`LoopIsClosedForm`) says that the loop as it is written
comes to one of its seven breaks and has then counted just that, for every stamp of the
clock and every stamp the loop itself can leave (`LoopComputes`). `GetTimeFinalLoop` is
a recursive function over the states of the loop, which is a `CHOOSE`: that there is
such a function at all is `WalksEnd`, which takes as the end of a walk the state of
`B` in the least set that contains its start and goes on until `B`. No induction is
used for it, nor that the loop ends from every state (from a state nobody reaches it
need not). `Trail` names the states it does pass through, `EveryTrailIsTheWay` that
each is a round from the one before and that none but the last breaks, and
`LoopEndsItsTrail` follows the function along the trail: a least place where its value
is no longer that of the start would follow a place where it still is.

*The shutdown.* `CrservProofs` has what both compositions need: that `Percent` grows
with what is freed and stays within 100, that one freed node shows in it, and what the
server keeps true by itself whatever it reads in the driver (the closing thread runs
only once `ctrl_state` says so, and its stage and the counters agree). `PoweroffProofs`
adds `Shown` (what main read of the counters is not ahead of them, and what it has
published is what it read) and `Caused` (a request in the driver or in main's hands
was asked for since the driver was reset). For the refinement the six stages of
`Shutdown` are read off where main is, the number of closing threads and where the
closing thread is; two closing threads are no stage, so that the implementation includes
`OneCloser`. Beside the invariant it needs `Untouched` (without a closing thread nothing
is freed): then `ActStarts` says that main acts on a percentage of 0 exactly if the
thread does not run yet, so the round that starts it is the one step `Close` and every
later round is a stutter or, once `close_final` says so, `Leave`. A step of the closing
thread is `Free` or `Closed`. `StationProofs` generalises `Caused` to
every program, adds `ClientsBegin` (a microphone program shows 100 only with its node
freed) and `ShownBy` (the driver shows a part of the server's percentage, or the 100
of a program that has freed its node).

*The queue.* `QueueInv`: one slot at most, empty while the worker is between requests,
and holding the request (`Kept`) from the update to the result; `WorkerInv`: what the
worker has in hand is its request; `MirrorInv`: at each place in the worker's round,
how much the mirror holds. The slot is found by `First` over a queue of one
(`FirstOfOne`); nothing is known of codes, which is why the property is about search
and xset disagreeing. `Window` compares where the worker is with where it was when the
queue was freed (`caught`): a worker that uses a queue that is gone was already inside
then, since each stretch begins with a test that would have sent it elsewhere.
`RemovedForGood` needs nothing but that no file operation of the worker makes a file.

*The socket.* `OkPerLine` counts the line ends in the text that was sent, the reader
goes byte by byte. The lemmas about `Owed` say what one more byte does to that count:
nothing if it ends no line, one if it ends a line and all lines so far fitted, and
nothing ever again after one that did not. `Session` ties the reader to the text: it
has matched a CR if an odd number of them came last, what it stored is what came after
the last end of line, and every line so far was good, or else the session would be
over; `Answers` then compares what a client has been given with what it is owed,
the one being written apart. `Queued` says that a client waits in one place only,
`Counted` that descriptors are within the limit, `Lateness` that once a connection was
accepted late the thread is not about to accept another.

*The configuration.* `Writing`: what a writer has in memory is made from the file it
read and its key; `Undamaged`: without an accident the file is the whole configuration
whenever nobody is half-way, and so is what a writer holds; `Undisturbed`: without a
decoder beside it a load that has begun sees no writer but an encoder about to write a
body, and header and body are of one text, whichever encodings they come from.

*The settings.* `Reading`: what was read are the lines before the first bad one;
`Followed`: each field has what its last line among those says (`Says`), or the
directory that replaces it without `-k`; `Listed`: unless the process is astray the first entry of a name has the value set
last (`Shows`), which is inductive because a set changes the first entry and appends
behind it, and a list of fewer than two entries ends with a null, which is why the third
add is the first that can go astray.

*The drivers.* `Holds(d)` says what driver `d` has from how far its initialisation has
come; a file in `/dev` needs a class, and the class has one owner.

*The module stack.* `Once`: a file is in the stack once, and there if `readdir` has
returned it; `Made`: it has made one instance for each of its rounds; `Informed` and
`Ended` say how far the two walks of the shutdown have come. The two walks are why the
properties need more than themselves: they count instances and the told at the end.

*The threads.* `Registered` is the heart: which records of the registry still name a
thread at each stage of the closing thread (`Holders`), that each thread has one
record, and that a thread was cancelled exactly if its record is gone. `FreedAfter`:
while the reaper's record is there so is the table, and while the first one is there no
record has been freed; `BusySeen`: a cancelled thread still at work was at work when it
was cancelled. `InOrder` says what is freed at each stage of the closing thread, exactly:
so nothing is freed twice, and at the end everything is (`EverythingIsFreedOnce`). A step of a thread is reduced to `Moves` (it moves nobody else, frees
nothing, begins nothing once cancelled), so the many places of its code need no case
each. The walk of `thi0` can meet a freed record only if one was freed before its own,
and records are freed in the order of the registry; hence the assumption that it
has the order of loading.

*The messages.* `Hidden` and `KeptByTheFirst` say of each module what it was given, by
its place in the stack; `Posting` goes through the posts of one request, which end with
the request completed exactly if `bcdx` and `dbi0` are loaded. They need that `mod_find`
and `mod_getmod_func` return the first match (a non-empty set of numbers has its least,
by the well-foundedness of the natural numbers), and that the only namesakes of the
catalogue are the three pairs, none of which a request is posted to.

## 7. Only model-checked

Every liveness property (`LostReaperExhaustsTheTable`,
`StandingRequestStopsAll`, `CroffwEnds`, `TeardownEnds`, `FullMeansDeath`), since
TLAPS does no `ENABLED`. For one of them the part that is about single steps is proved
for every size: a measure that each step of the thread in question lowers and no step
of another raises. `ClosingIsBounded` and `CancelledThreadsGetNearer` give it for the closing
thread and the cancelled threads of `TeardownEnds` (`ClosingLeft`, at most 2M + L + 5;
`LeftOf`, what is left of a pass, a request or a walk, and two steps to end). What remains to TLC of it is
that the threads can always take their next step, that every thread is cancelled in
the end, and the broadcast of main. Every other property of a passing run is a theorem of
section 6.

## 8. Not modelled

- *Vendored and reference code*, most of the 51,000 lines: BlueZ (`library/libvbt`,
  `include/bt.h`), zlib and the ciphers (`library/libmsx/libcrypto`), arecord and
  aplay (`library/libalsa/libap.c`, `src/libmic`). `Confile` takes from the ciphers that
  a body decodes with the digests of its own text, which any header of that text holds,
  and with other digests fails the test of its last four bytes (`stream.c:383`).
- *Sound detection and capture.* Nothing that is built runs the detector:
  `librecord_wave` opens and closes the device, and the loop that feeds
  `sound_detection` is only in `src/libmic`, which the build leaves out.
- *The client's side of the socket*: `libsck_client` puts connect's result, 0, in the
  descriptor it then writes to, so no line of `crmicp` reaches the server at this
  commit, and a model of the two ends together stops there.
- *crenmod and crdemod*: the calls of `crenconf` and `crdeconf` on other files.
- *Freeing the lists* (`_envp_clean`, which reads the next pointers of entries it has
  freed, `_conf_clean`, `librmc_free` entry by entry): `Teardown` and `Crserv` take the
  table as one piece, or count its entries.
- *What comes of a stray pointer* in the environment list: the settings end there.
- *One failed allocation of the table* is a step of `Librmc` that leads to the phase
  "crashed"; what else the server does then is not followed.
- *Settings*: the last line of a file without a newline, and lines of up to four
  characters.
- *Options* but for `-k` and `-s`; `search` in `libcrt0.c`, log lines, printing
  helpers, string helpers, the tray icon (`crgui`) and the test tool (`crtestw`).
