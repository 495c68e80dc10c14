# TLA+ models of ics-trafficgen

The repository holds two programs that generate control-system traffic: a DNP3
generator in C++ (`src/dnp3generator`, on opendnp3 and Lua) and a Modbus
generator in Python (`src/modbusgenerator`, on pymodbus and lupa).  Both read a
configuration, give addresses and network interfaces to the stations in it, and
run a thread per station that calls a user's Lua script and serves or polls its
peers through a protocol stack that has threads of its own.  This directory
holds TLA+ specifications of both programs from their start to their end, TLC
configurations that check them on small instances, and TLAPS proofs of the
properties that matter most.

    tlc -config MCLuaSwitch.cfg MCLuaSwitch      # any run below
    tlapm LuaSwitch_proofs.tla                   # any module *_proofs

## 1. The system

| Component (source) | State | Operations | Who interacts | What is hard |
|---|---|---|---|---|
| Lua switch (`dnp3app.h`, `dnp3app.cpp:137-167`, `Station.cpp:94-102`) | `currentCount`, `keyPresses`, `quitFlag`, the pipe; per station `localLuaFlag`, `currentLuaFileIndex` | `unconditionalWriter`, `readCount`, `readInputStr`, `GetNextLuaFile`; main's loop | main writes, every station thread reads | two acquisitions of the lock per look; a bounded cache under slow readers; a pipe that cannot be opened; joining |
| Mapping outstation (`MappingOutstation.cpp`, `MappingSoeHandler.cpp`) | input arrays and flags per source, output arrays, mutex, DNP3 database | three storing callbacks, `ConfigureInputMultiplexingArrays`, `passThruDataChanges`, `injectDataChanges` | master callbacks (stack threads) and the destination's thread share arrays, flags and mutex; main fills `DestinationList` late | updates during configuration, half-stored responses, flags cleared and set, several mutexes per callback |
| Lua table walks (`OutStation.cpp:25-163`, `MappingOutstation.cpp:246-417`, `MasterStation.cpp:126-193`) | the Lua stack of a station | `lua_next` loops, nested, with breaks | a script's tables | what a path leaves on the stack |
| A master's commands (`MasterStation.cpp:126-287`) | `cmdList`, two command sets, two flags | the walk over `data`, `FireOffMasterCommand` | a script's table becomes requests to the DNP3 master | fields in any order or missing; three kinds of command parted and gathered again |
| DNP3 configuration (`CfgJsonParser.cpp`, `CidrCalculator.cpp`, `Node.cpp`) | the nodes, the last address given out, the list of DNP3 addresses, the host's interfaces | reading entries, allocating IP and DNP3 addresses, bringing interfaces up and down | before any thread exists; the destructors run from every thread | carries and wraps, addresses set by hand, an exception half way |
| Start and end of dnp3app (`dnp3app.cpp:24-170`, `OutStation.cpp:165-232`, `MasterStation.cpp:27-97`, `Station.cpp:104-213`) | the pipe file, the threads, the map of point classes | start, set-up of the stations, SIGINT, `x`, joins | station threads share a map; a process meets what an earlier one has left | leftovers, exit with threads running, an unlocked map |
| `ReadWriteLock` (`readwritelock.py`) | `queue`, `readers`, `writer` | acquire and release, for readers and writers | Modbus request handlers and `ping_outstation` threads | waits that end by timeout, out of turn; starvation |
| `ThreadSafeDataBlock` (`threadsafe_datastore.py`) | the registers | `validate`, `getValues`, `setValues` | the same threads | torn reads |
| Modbus configuration (`cfg_json_parser.py`, `cidr_calculator.py`, `node.py`) | masters, addresses given, outstations by address, interfaces | `process_nodes`: grouping, refusing, drawing addresses | before any thread exists | who shares an address; giving up half way; a bare `except` |
| Modbus master (`master_station.py`, `mymodbusclient.py`) | remaining sleeping times | the polling loop | polls the blocks through TCP; looks at the stop event | ties and zero intervals |
| Modbus outstation (`outstation.py`) | a context of blocks per unit | the server, one ping thread per name | ping threads write the blocks and take the server down | several names on one server; scripts that die |
| Modbus application (`modbus_app.py`) | an event, the process | start, SIGINT | everything | seven seconds, whatever the threads do |
| `DataPoint`, strings, scripts, packaging | none of interest | records, one-shot conversions | | |

What makes each correct:

* **Lua switch**: every station acts on every press of its own key exactly
  once, in order, whatever the others do; no key a station still needs is
  evicted; `x` ends everything.
* **Mapping outstation**: what a response brings reaches the database; a pass
  sees whole responses; nothing but what was sent is published; nobody waits
  for ever.
* **Table walks and commands**: `lua_next` finds the table below the key on
  every path, a call leaves the stack as it found it, and every command of a
  table goes out once, with its own fields, in the right request.
* **DNP3 configuration**: allocated addresses are distinct, and inside their
  block as long as it has room.
* **Start and end of dnp3app**: a running station has its interface; a
  regular end takes down the interfaces of its own stations, also those that a
  killed process has left under the same aliases (what a killed process of a
  larger file has left under others stays up, and must be of no station of
  this one); points lie in their database; a master has the scans it asks for.
* **Lock and block**: readers and writers exclude each other, a read returns
  the registers of one moment, neither side starves.
* **Modbus configuration**: in a file that is accepted every master finds its
  outstations, at one address, with the same units; no interface is shared.
  It does not always find them at the port that the file specifies: see the run
  `modbus_ports`.
* **Modbus threads**: each data type is polled at its own frequency; scripts
  write blocks of their own; SIGINT takes the interfaces down in time.

The hazards, each at its line with the properties that watch it, are listed in
`PROJECT.json`.

## 2. Modules

| Module | Role |
|---|---|
| `KeyLog` | the promise of the Lua switch: a log all stations read in order |
| `LuaSwitch` | the cache, main's loop, the stations' loops |
| `MCLuaSwitch` | its instance for TLC |
| `LuaSwitch_proofs` | types, cache window, aborts, faithful switching, refinement of `KeyLog` |
| `PointMirror` | the promise of a mapping outstation: responses arrive, and are copied, as a whole |
| `MappingOutstation` | the callbacks, the start and the passes of a destination, and how they map to `PointMirror` |
| `MCMapping` | its instances for TLC |
| `MappingOutstation_proofs` | types, no lost update, a clean database, refinement of `PointMirror` |
| `LuaStack` | the Lua stack through the three walks |
| `MasterCommands` | extends `LuaStack`: what the master's walk collects and `FireOffMasterCommand` makes of it |
| `MCMasterCommands` | its scripts for TLC |
| `MasterCommands_proofs` | the stack through the walks; every command goes out |
| `CidrCalculator` | the count through a CIDR block (operators only) |
| `CfgJsonParser` | the constructor of the DNP3 parser, one entry at a time |
| `Dnp3App` | extends it: main, kills and restarts, the set-up and the end of the stations |
| `MCDnp3App` | configuration files for TLC |
| `Dnp3App_proofs` | the count through a block; types, databases and scans |
| `CfgJsonParser_proofs` | extends it: addresses and interfaces |
| `ReadWriteLock` | the lock, used by the next |
| `AtomicBlock` | the promise of a data block: indivisible reads and writes |
| `ThreadSafeDataBlock`, `ThreadSafeDataBlock_proofs` | the block under its lock; exclusion, the queue, and refinement of `AtomicBlock` |
| `JsonParser` | `process_nodes` of the Modbus generator |
| `ModbusApp` | extends it: main, the masters' polling, the servers and ping threads, time, SIGINT |
| `MCModbusApp`, `ModbusApp_proofs` | configuration files for TLC; its safety properties proved |
| `FoldFacts` | lemmas: induction over the naturals; what folds and flattened sequences are |

In the modules a definition whose comment begins with "Mutant:" is a plausible
error in the definition that follows it.  None is part of a specification;
`PROJECT.json` names the property that each of them breaks.

### LuaSwitch

`readCount`, `readInputStr` and `unconditionalWriter` hold `_accessMutex` for
their whole body and are one step each.  A station goes through `Top` (the
test of `quitFlag`), `Poll` (`readCount() > localLuaFlag`, with the increment)
and `Lookup` (`readInputStr`, the comparison and `GetNextLuaFile`); main may
press between any two.  `LookupMiss` is the `return '\0'` of `dnp3app.h:21`,
which constructs a `std::string` from a null pointer and ends the process:
after it only `Ended` steps.  `MasterStation` and `OutStation` test `quitFlag`
at the head of their loop and `MappingOutstation` at the start of its body,
which comes to the same.

Main opens the pipe, reads a line and acts on it.  `PipeVanishes` removes the
file, which its user is told to do when an earlier run has left one; then
`OpenPipe` fails and the line read last is acted on again.  `ReadLine` chooses
any line, also after lines were lost at `pipe.close()`; at end of file
`usr_input` is empty, which is `OtherInput`.

`pressed` is a history variable.  `Seen(s)` counts the presses a station has
dealt with.

### ReadWriteLock and ThreadSafeDataBlock

Every method of the lock runs with `self.lock` held and gives it up only in
`condition.wait(1)`.  An action is the stretch between two waits.  A wait ends
by `notify_all` or after a second, and a thread that finds its condition false
waits again without changing anything, so a waiting thread may look again at
any time and `notify_all` needs no action of its own.  `PopHead` is
`self.queue.pop(0)`: the head goes, whoever's it is, and a condition that
belongs to the thread that has just got in stays in the list as `Nobody`.

A block copies its registers one at a time (`ReadCell`, `WriteCell`, pymodbus's
part).  `setValues` is called by `ping_outstation` with a list as long as the
block (`outstation.py:88`); a call is abstracted to one value for all registers,
which is enough to tell two calls apart.  A thread in both `Readers` and
`Writers` is a request handler.

### MappingOutstation

A channel is a source and a kind of point, that is, one input array and its
flag.  `Receive` is the call of `Process` by the stack; `LockDest`, `StoreItem`
and `RaiseFlag` are its loop over `DestinationList`, with one step per item.
The three `Process` functions are one, the kind being data.  The destinations
are taken in any order, which stands for every order a configuration may give;
a master that is not linked yet has an empty list, and a response to it changes
nothing.

A destination starts in three steps, without the mutex: `Resize`, `ZeroArrays`
(only analogs and binaries are set to zero again) and `ResetFlags`.  Callbacks
may come in between.  Two data races are abstracted there: within a step, on
the maps and vectors being resized, and on `DestinationList` while main assigns
it.  A race of that kind is undefined behaviour; the model has only what falls
between the steps.  Then come passes: `BeginPass` takes the mutex,
`VisitFlagged` and `VisitUnflagged` handle one channel each, in the order of
the code (sources by name, then analogs, binaries, counters), `EndPass` applies
the builder and releases.  The test of `quitFlag` is a step before these,
`GoRound`: behind it the thread sleeps and goes for the mutex (`"ready"`), and
makes its pass even if `quitFlag` is set by then.  With a script each visit applies to the database at
once, and the counter script runs at every visit of a counter channel.

`HasSlot` is the size of an input array, which
`ConfigureInputMultiplexingArrays` takes from the output indices;
`Element` is an unchecked read, which gives `Garbage` behind the end.
`missed` is a history variable: channels whose flag `ResetFlags` threw away and
that no response has reached since.  Their values stay in the array and are
published after the next response.

### LuaStack

The stack is a sequence of slots, each a name for what lies there: a table, a
key of that table, nil, another value.  A step is what lies between two calls of
`lua_next` or `lua_gettable`, so that the invariant is about what these calls
find.  `Init` chooses which of the three routines the station runs; the tables
a script returns have any number of entries up to a bound.

### MasterCommands

`LuaStack` has the walk of a master with the contents of the tables left out;
`MasterCommands` adds the contents, each action being one of `LuaStack`'s with
what it does to the commands. A script's table is a sequence of inner tables
(and of values that are none, which the walk skips). `lua_next` gives the fields
of an inner table in any order, so `ReadField` takes any that is unread; a field
that is missing keeps the value of `new cmdStruct()`, which is
value-initialised. `Gather`, `ScanAtOnce` and `Unrecognized` are the branches of
`FireOffMasterCommand` for one command, `Send` its end. `Unrecognized` prints a
`std::string` with `%s` (`MasterStation.cpp:243`): undefined, modelled as going
on or as the end of the program. Two assumptions on the constants say what the
code relies on: `ScriptAssumption`, that a table has finitely many fields and
`data` is a list, and `NameAssumption`, that the string `CROB` is none of the
names `AnalogOutput...` (`MasterStation.cpp:247-277`). The width of a number in
a DNP3 object is left out, and so is what opendnp3 does with a request.

### CidrCalculator, CfgJsonParser and Dnp3App

`CidrCalculator` translates the mask of the constructor and `GetNextIpAddress`
as operators on four octets; `Carried` says that an octet moves on, which in the
code is the nest of `if`s.  `CfgJsonParser` reads one entry of the file per step
(`ReadNode`), since each entry allocates for its master first, then for its
outstation: the states between are the operators `AfterMaster` and
`AddrsWithMaster`.  `MasterAddr` and `OutstationAddr` are ints and are cut to
`uint16_t` where they are stored.  What an entry brings along unchanged (ports,
script names, sleeping times) stays in the entry.

`Dnp3App` is the program on its host.  `up` (the interfaces) and `pipe` survive a
process, everything else is forgotten (`Forget`, `ParserReset`).  Every start
chooses a file anew, as `-c` does: `Later` says which files may follow the one of
the process before, and the proofs hold whatever it says.  `Kill` is SIGINT, whose
handler calls `exit()`, and every other end without destructors; `ParseFails` is
the exception that property_tree throws at a missing key, after the addresses of
that entry have been allocated.  After `StartStation` a station's thread is in
`"setup"`, where it handles its polls or points one by one while the others do
the same: `ScansClass` looks into `pointClassVarMap`, and `ConfigurePoint` enters
a class into it with `operator[]`.  `Held` tells the stations that main keeps in
its own lists, whose interfaces stay until it returns, from those that die with
their threads.  `drawn`, `outside` and `strays` are history variables: what
was drawn, the points configured behind a database (each with its station), and
the interfaces that were up when a process was last killed or failed.  `strays`
is read by no action; `CleanExit` uses it to tell what is left from what a process
has brought up itself.

### JsonParser and ModbusApp

`JsonParser` handles one master per step: it is dropped (`DropMaster`: the bare
`except` of `cfg_json_parser.py:34` also catches the `SystemExit` of an
exhausted generator), the program gives up (`RefuseMaster`), or it is accepted.
`hosts` is the sequence that `cidr.get_addr()` returns.  Then the outstations are
gathered by address, in the order of a dict filled from a set: any order.

`ModbusApp` starts the threads as `modbus_app.py` does.  Time is `Tick`, a
second, that passes only when no thread is due to wake; connects, polls and
scripts take any time, so any number of Ticks.  `LoopHead` is the test of the
stop event and the sleep; `Least`, `BeginPoll` and `Remaining` are the
arithmetic on `sleep_dict`.  A ping thread is `"busy"` in its script, dies of an
exception, sleeps a second, or stops and takes the server and the interface
down.  `InterruptEarly` is a SIGINT before `signal.signal`: main ends, and the
process lives on as long as there are threads (`"abandoned"`).  A second SIGINT
runs the handler inside the first one's sleep and starts the seconds anew.
`since` is a history variable: how many seconds the master has slept since it
polled a type; the seconds that its polls take are not counted, in `sleep_dict` as
here, so `OnTime` is about sleeping time.

## 3. Runs

| Run | Checks | Result |
|---|---|---|
| `switch` | types; the window of the cache; every station runs the file its presses select; an abort only of a laggard; every press is seen; `x` ends the program; `KeyLog` is implemented | holds |
| `switch_pipe` | no input is processed while the pipe is not open (`dnp3app.cpp:149`) | violated: the last trigger repeats |
| `datablock` | types; mutual exclusion with exact counters; `pop(0)` never on an empty list; `AtomicBlock` is implemented; writers make progress | holds |
| `datablock_readers` | readers wait "until the current writer is finished" (`readwritelock.py:39`) | violated: a stale condition blocks them for ever |
| `mux` | types; no update lost; nothing from behind an array; `PointMirror` is implemented | holds |
| `mux_live` | no update lost with a script; each response gets to the database; callbacks return; stations stop | holds |
| `mux_inputindex` | nothing from behind an array, for an InputIndex beyond every Index | violated |
| `luastack` | in all three routines `lua_next` and `lua_gettable` find their table (`WalksTables`); every command of a master's table goes out once, as written, in the request of its kind (`CommandsGoOut`) | holds |
| `luastack_master` | "stack empty again" (`MasterStation.cpp:191`) | violated: four slots stay |
| `dnp3app` | types; allocated DNP3 addresses are new until the number wraps, IP addresses until the count ends; a block is left only when it is full; threads have their interfaces, and a regular end leaves none of its own; points lie in their databases; scans are those of the polls | holds |
| `modbusapp` | types; masters meet their outstations; interfaces and blocks are nobody else's; each type is polled on time, and in the end; interfaces are down after the seconds of grace, but for threads that are stuck | holds |
| `modbus_ports` | a `Port` that is specified is the one in use (`config_spec.txt:40`) | violated: for several outstations at one address the server listens at 502 |

The five violations are described in `PROJECT.json` under "findings".  One more
disagreement needs no run of its own: "limit size of cached keys to 10"
(`dnp3app.h:27`).  `CacheWindow` says, and is proved to say rightly, that the cache
holds the latest ten keys and for ever the first one, which makes eleven.

### Bounds, and why they are enough

* `switch`: `Limit` is 2 where the code has 10, and four keys may be pressed
  (`MaxPresses`).  The cache then fills, overfills by one and evicts; a
  station can lag by less than, exactly and more than the limit.  One station
  has a key and two files, one has no key, and key `b` belongs to a node that
  runs no script.  The proofs hold for every `Limit` and every number of presses.
* `datablock`: two readers, a ping thread and a handler that is both, two
  registers, at most four conditions in the list (`MaxQueue`: a writer that
  would queue beyond that does not call).  With three waiting threads of which
  two write, stale conditions build up and are popped by others.
* `datablock_readers`: two readers and two writers; a block of one register
  and one value, since the lock does not depend on them.
* `mux`: one destination, two sources, points from both with indices that
  differ between input and output, and three responses: two items without time,
  two items with a time, and a single one.  Source 2 has a slot for index 0 only,
  so the dropped item occurs.  `mux_live`: two destinations of one source of
  counters, one with a script; counters are the kind the code treats apart.
* `luastack`: a master's scripts are all tables of up to two entries from ten
  inner tables and a value that is none, and two tables of four: each kind of
  command occurs with and without effect, with missing and with surplus fields,
  and with others between.  The tables of the other routines have up to
  `MaxEntries` = 5 entries, as many as the longest inner table.  `MaxStack` is 8
  where Lua has a million, so a master reaches it.  An overrun master is gone,
  hence `CHECK_DEADLOCK FALSE`.
* `dnp3app`: octets of two bits (`Bits`) where the code has eight, so that a
  block can be enumerated and every octet carries; DNP3 addresses modulo 8
  (`WordSize`, 2^16 in the code) from 5 (`FirstDnp3Addr`, 90), so that they wrap
  after three.  Six files: polls of known and unknown classes beside points that
  make one of them known; a block with two usable addresses for six stations; a master
  alone, an outstation alone and addresses set by hand, with prefixes that end in
  different octets and without a CIDR key; eleven pairs, which bring the count to
  its end and around, with a missing key in the last.  Starts are unbounded.
  The files that take turns on one host (`Hosts`, `Later`) are those of which one
  needs many aliases and another few, so that a process meets more aliases than it
  has, fewer, and the same ones with other addresses; the file of the classes has a
  host of its own.  All six on one host are too many sets of leftovers for TLC; the
  proofs cover them.
* `modbusapp`: two seconds of grace (`Grace`) where the code has seven, unit
  identifiers up to 3 (`MaxUnit`) where Modbus has 247, up to three masters and
  outstations.  Fifteen files: frequencies that tie (2 and 3, which meet at 6), a
  frequency of 0, a master that polls nothing or more rarely than the grace, shared
  outstations, addresses given, drawn and exhausted at each place, a master
  without a name, stations that are not simulated, each reason to refuse a
  file, and (alone in `modbus_ports`) two outstations at one address that agree on a
  port.  The history `since` needs no bound: the code keeps it below the frequency.

### Fairness, and why the code justifies it

* `LuaSwitch`: weak fairness of every station, of `JoinThreads` and of `Quit`
  (main acting on an `x` it has read).  The system schedules every thread.
  Nothing is assumed of the user, the pipe, or of main's other steps.
* `ThreadSafeDataBlock`: weak fairness of each thread once it has called, since a
  wait ends within a second; nobody has to call.  A writer that waits is served
  only as "some writer": the docstring's "write order" (`readwritelock.py:5`) is
  not the order of the queue, as a newcomer may take a free lock first.
* `MappingOutstation`: weak fairness of the steps of a callback, of a
  destination and of `UpdateDestinations`; strong fairness of taking a mutex
  (`LockDest`, `BeginPass`).  A `std::mutex` promises none, but the thread of a
  destination sleeps for `msToSleep` between passes and a master polls at
  intervals of seconds, so the mutex is free nearly always, and a thread that
  keeps trying gets it.  Nothing is assumed of `Quit`.
* `ModbusApp`: strong fairness of `Tick`, since time passes and threads that wake
  at once do not stop it; weak fairness of each master's thread, whose requests
  end by pymodbus's timeout if by nothing else; weak fairness of waking from a
  ping thread's sleep.  Scripts need not return, servers need not bind, SIGINT
  need not come.  `AllPolled` excludes a master with a type of frequency 0: it
  polls that one without end, and time does not pass for its other types.
* `LuaStack`, `MasterCommands` and `Dnp3App` have only safety properties.  In
  `Dnp3App` nothing has to happen: the user may never enter `x`.  That the joins
  end is `QuitEnds` of `LuaSwitch` and `QuitStops` of `MappingOutstation`.

Deadlock is checked in every run but those of `LuaStack` and `MasterCommands`;
where a program has ended, its module has a step for it (`Ended` in `LuaSwitch`,
`Exited` in `ModbusApp`, a new start in `Dnp3App`).

## 4. Proofs

TLAPS checks these for every value of the constants that satisfies the modules'
`ASSUME`s (TLC evaluates those in the runs): any file, any number of stations,
types and scripts, any width of octets up to 8 bits, any frequency and grace.

| Theorem | Statement |
|---|---|
| `LuaSwitch_proofs!Typing`, `Window`, `AbortsOnlyIfLagging`, `FaithfulSwitch`, `Refinement` | `TypeOK`, `CacheWindow`, `AbortOnlyIfLagging`, `SwitchFaithful`, `KeyLog` is implemented |
| `ThreadSafeDataBlock_proofs!Typing`, `Exclusion`, `QueueCovered`, `Atomicity` | `TypeOK`, `MutualExclusion`, `QueueCoversWaiters`, `AtomicBlock` is implemented |
| `MappingOutstation_proofs!Typing`, `NoLostUpdate`, `CleanDatabase`, `Mirrors` | `TypeOK`, `Published`, `NoGarbage` if every InputIndex has a slot (`InputsFit`), `PointMirror` is implemented |
| `MasterCommands_proofs!Typing`, `TablesWalked` | `TypeOK`, `WalksTables`, for the three routines of `LuaStack` |
| `MasterCommands_proofs!CommandsWalk`, `CommandsTyped`, `GoneOut` | both of these under `CommandsSpec`, `CommandsTypeOK`, `CommandsGoOut` |
| `Dnp3App_proofs!NextIncreases`, `NextStaysInBlock` | the count goes up, and through all that can be used of a block before it leaves it |
| `CfgJsonParser_proofs!AllocatedDnp3Distinct`, `IssuedIpsDistinct`, `BlockFullBeforeLeaving`, `InterfacesOfThreads`, `OwnInterfacesDown` | `AddressesDistinct`, `IssuedDistinct`, `FullBeforeLeaving`, `ThreadHasInterface`, `CleanExit`, over the steps of `Dnp3App` |
| `Dnp3App_proofs!TypesInvariant`, `PointsInDatabase`, `ScansArePolls` | `TypeOK`, `DatabaseHoldsPoints`, `ScansMatchPolls` |
| `ModbusApp_proofs!TypesInvariant`, `PollsOnTime`, `OwnAddresses`, `SeparateUnits`, `MeetOutstations`, `CleanAfterGrace` | `TypeOK`, `OnTime`, `AddressesOwned`, `UnitsSeparate`, `MastersMeetOutstations`, `CleanWithinGrace` |

The arguments:

* **LuaSwitch.**  `CacheWindow` is inductive over `TypeOK`: by counting, the
  cache has more than `Limit` keys exactly when more than `Limit` were pressed,
  and then the key to drop is there (`WriterSlidesWindow`).  That a laggard's
  key is missing only when it lags by `Limit` follows from the window.
  `SwitchFaithful` speaks of a remainder, which does not add up step by step, so
  the proof carries `SwitchInv`, the same with the quotient named.  The
  refinement maps `Lookup`, and `Poll` of a station without a key, to `Observe`,
  `Press` to `Press`, and all others to stutters.
* **Lock and block.**  `MutualExclusion` relates counters to threads and is
  inductive over the types alone: whatever is in the queue, `Busy` protects a
  writer and the readers' test of `writer` protects them.  `QueueCoversWaiters`
  counts positions of the queue that are not the readers' condition against the
  writers that wait: an `append` adds the last position, and a `pop(0)` moves all
  others down by one, which is a bijection, so that the count falls by one at
  most.  Atomicity needs more: while no one writes all registers are equal to the
  last (`Uniform`); a writer's first `pos` registers are new and the others old
  (`HalfWritten`); a reader's copy agrees with the block as far as it goes
  (`Copied`); who has not got in has not begun (`Outside`).  A write takes effect
  with its last register.
* **MappingOutstation.**  `Published` speaks of settled channels and is not
  inductive.  `Inv` says more: an output point equals its input element whenever
  the channel is at rest, even in the middle of a pass (`Coherent`); the database
  shows the output point unless the builder holds it (`InStep`); a builder is
  empty outside passes and with a script (`Collected`); before the loop nothing
  has been copied (`Untouched`).
* **Refinement of PointMirror.**  A callback stores one item per step, under
  the mutex of one destination; in `PointMirror` a response arrives as a whole.
  It is taken to arrive when the callback gets the mutex: while the mutex is held, the abstract inputs are
  therefore the present ones with the rest of the response stored on top
  (`Unsent`), a fold.  A step of the loop takes one item from the rest and stores
  it, so the fold stays as it was (a stutter); at the start of the loop the rest is
  the whole response, and at its end nothing.  A pass holds the same mutex, so it
  meets no rest.  `InTurn` is the part of the invariant that
  `Published` did not need: a master is inside at most one destination, with a
  response of `Batches`, and its index is back at 1 when it is inside none.
* **LuaStack.**  One conjunct per place of the routines says how deep the
  stack is at least and what its top slots are; within a command it includes
  the six slots down to the key of the outer walk.
* **MasterCommands.**  `CommandsGoOut` speaks of the end of a call only; `CInv`
  adds what holds on the way.  While the walk goes on, `cmdList` is what the entries
  behind it bring (`AtWork`), and the command at hand has the values of the fields
  that have been read, those of `NewCmd` elsewhere (`AtField`, `Filled`): this does
  not depend on the order in which Lua gives them.  When the list is fired off
  (`Firing`), the commands done and those left are together the list; the sets hold
  the objects of those done, in their order, and the scans have been asked for
  (`Midway`).  TLC checked
  `CInv` as an invariant before it was proved.
* **FoldFacts.**  The library's induction theorems take an operator, which no
  prover here can instantiate.  `NatInduct` states induction over a *set* of
  numbers and follows from the library's theorem that `<` is well-founded;
  with it, `FoldExists` and `IterationExists` show that the recursive functions
  behind `FoldSeq` and `FlattenSeq`, which TLA+ defines by `CHOOSE`, exist and so
  satisfy their equations.  The rest is what these do to a sequence that grows.
* **Addresses of dnp3app.**  A DNP3 address is one more than the greatest in
  use, which includes the file's and those drawn, so it is new unless it wraps;
  the invariant says that what was drawn is in use.  For IP addresses the
  invariant (`IpInv`) says that all addresses given out come before or are the
  last one (`NextIncreases` keeps this), and that whatever can still be used of the
  block and is not given out lies behind the last one (`NextStaysInBlock`).
* **Interfaces of dnp3app.**  `UpInv`: the aliases of the nodes are
  0..(`vnictrack` - 1), each used once, and each has its interface until its
  thread is done.  `OwnInv`, for what killed processes have left: an interface
  that is up is of a node of this process, or it was up when the last one was
  killed; and where a thread is done whose station main does not hold, no
  interface has its alias, whoever brought it up.  At a regular end all threads
  are done and main takes down the aliases it holds, so that what remains is of
  killed processes and of no station of this one.  The argument does not look at
  the file, so that each process may have another one.
* **Set-up of the stations.**  The shared map has the known classes and those of
  points of stations that are there (`ClassInv`), and what a master has set up or
  has still before it covers the polls of known class (`ScanInv`), whatever the
  order of the threads.
* **ModbusApp.**  `IInv` has three parts.  `ParserInv`: every outstation that was
  gathered has one address, the masters know the whole of theirs, and a station
  has all outstations of its address.  `ThreadInv`: the remaining time of a type
  and the time slept since its poll add up to its frequency, but for the least
  remaining time while a poll runs; threads exist only for masters and stations
  that exist.  `UpInv`: aliases come in order, and addresses are drawn in order,
  so no two interfaces share either, even if the file is refused.
  `CleanWithinGrace` takes an invariant of its own, `CleanInv`: every interface has
  an owner; a thread that has ended has taken its interface down; whoever sleeps
  began to sleep before SIGINT, so that what it has slept since and what it has still to
  sleep are at most its frequency, or a second.  When the grace is over, nobody
  can be asleep that was not to sleep longer than that.

Every invariant of a passing run, and every refinement, is a theorem.  **Only
model-checked** is liveness, which is outside the prover's reach (`PressObserved`
and `QuitEnds` of `LuaSwitch`, `WritersProgress`, `EventuallyPublished`,
`CallbackReturns`, `QuitStops`, `AllPolled`).

## 5. What is not modelled, and what is left

* The wire protocols and the internals of opendnp3, pymodbus and Lua, which are
  modelled as the code uses them; what a Lua script computes; formatting,
  wording and logging; scripts, packaging and examples; `DataPoint` and
  `StringUtilities`, a record and a function that splits a string.
* `OutStation`: the values that a call puts into its `UpdateBuilder`, which is
  local to the call.  `Station::ConfigureDatabase`: the variations and their
  defaults, a table of constants.
* Data races within a step of the model (on a vector or map while it changes)
  are undefined behaviour; only what falls between the steps is modelled.
* DNP3 configuration: `ifconfig` succeeds; a generated IP address may coincide
  with one of the file (`IssuedDistinct` is about generated ones only), since
  nothing in the code looks at those; numbers of a file are in the range of their
  type; settings that are only copied, such as ports, stay in the entry.
* Modbus configuration: the virtual interface is there; a list of outstations
  has no repetition; frequencies are not negative.  A SIGINT that the bare `except`
  swallows is left out.  (`test_parser.py:29` expects two masters of a file without
  a CIDR key.  There `self.cidr` is `None`, so line 33 raises and both are dropped:
  the model follows the code, and one of the files of `modbusapp` is such a file.)
* Liveness of `Dnp3App` (see fairness), and dropped lines of the pipe, which the
  model allows and no sentence of the repository excludes.

Next would be: a Modbus outstation with several blocks under one poller, to ask
what one request may see of the four calls of `outstation.py:83-91`; a DNP3
destination whose script is switched while it passes data.
