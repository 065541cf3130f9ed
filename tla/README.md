# ucan-monitor verification

TLA+ models of [ucan-monitor](../src/README.md), a desktop program that watches, configures and commands
CANopen devices ("servers") over SocketCAN, with TLC runs on small instances and TLAPS proofs for every
value of the constants. Paths below are relative to `src/src/`.

## 1. The system

Two threads share everything. The **UI thread** (`main.cpp`) draws a frame of Dear ImGui again and again; each
panel reads and sets fields of its server, and a button may call into a service. The **CAN thread**
(`ucanopen/client/client.cpp`, `Client::_run`) turns a loop: the client's own periodic messages, then
`Server::_send` of every server, then it receives frames until none has come for 1 ms, handing each to the
server it is routed to. Short-lived `std::async` threads wait in the blocking readers. There is no queue
between the threads: they meet in mutexes, in atomics and, in places, in nothing at all.

| component | state | operations (thread) | what makes it correct |
|---|---|---|---|
| `ServerConfigService`, bulk transfer of parameters | list of steps, index of the current one, attempts, silent steps in a row, outcome | `start`, `cancel` (UI); `send`, `handle_sdo` (CAN) | steps settled in order, verdicts final, ends whatever the server does, outcome truthful |
| `ServerSdoService`, requests and answers | the objects asked for quietly, the subscribers | `read`, `write`, `exec` (both); `handle_frame` (CAN) | an answer settles the request it is an answer to; what is logged is what was asked for aloud |
| `ServerRpdoService`, periodic commands | a switch for all, a switch, a time stamp and an interlock per RPDO | `send` (CAN); `enable`, `disable` (UI) | a command that gave way to another master does not resume by itself; others go on |
| `ServerHeartbeatService` | NMT state and time of the last heartbeat | `handle_frame` (CAN); `good` (both) | good only while the node is heard and operational |
| `ServerTpdoService` | time stamp and payload of each TPDO | `handle_frame` (CAN); `good` (UI) | goes bad by itself when frames stop |
| `Client` and `Server`: ids and routes | servers, ids, map of frame ids | registration, renumbering (UI); look-up (CAN) | ids distinct, routes exact, no frame taken by another's server |
| `can::Socket` | descriptor, pollfd, two mutexes | `connect`, `disconnect` (UI); `send` (both); `recv` (CAN) | no use of somebody else's descriptor, no thread waits for ever |
| PDU server and its control panel | atomics of RPDO1 and TPDO1; mode and levels on the panel | a frame of the panel (UI); `_create_rpdo1`, TPDO handlers (CAN) | old commands are not given again; manual levels only in the purge |
| settings panel | rows of a table, transfer under way; one parameter and the texts about the device | read all, load, compare, write (UI) | what is shown as written was written; the parameter shown is the node's |
| settings file (`config_file`) | lines of text | save, read, match with the dictionary (UI) | what is saved reads back; no line is dropped without a note |
| blocking readers (`server_od_utils`) | the object asked for, the pieces so far, a result | `read_string`, `read_scalar`, `read_expdata` (UI); `handle_sdo` (CAN) | a string is whole; a late answer belongs to nobody else |
| `ServerWatchService` | a switch and a value per object, a period, a cursor | `send`, `handle_sdo` (CAN); switches (UI) | every object that is on gets its turn |
| `ServerLogService` and the plots | a circular buffer per object; a copy while paused | `handle_sdo`, `handle_tpdo` (CAN); copy, resize, export (UI) | what is drawn is what was received; a file is whole |
| servers and command panels of eight other devices | atomics; switches, references and a mode on the panel | a frame of the panel (UI); creators of RPDOs (CAN) | old starts are not given again, a mode begins with references of zero, a guest is silent until told |
| reference manager | rows of a test program, the row at hand and its time | `read_file` (UI); `get`, `restart` (UI, each frame) | while a program runs its rows are given, in order, each for its time |

The behaviours that are hard to test here: the interleaving of the two threads (a frame handled between a
look and the action it justifies), a request that is repeated while its answer is on its way, a device that
falls silent or comes back, a second master on the bus, a window that is closed while what it controls goes
on, a socket that is replaced under the thread that reads from it, a reader that is gone before the answer
comes, and commands that are stored cell by cell while frames are made of them cell by cell. `PROJECT.json` lists each hazard at
its line, with the properties that would catch it.

## 2. Modules

| module | models | abstract or composes |
|---|---|---|
| `BulkTransfer` | what a bulk transfer promises the operator | abstract specification |
| `ConfigService` | `ServerConfigService`, each of its four calls one step (they run under `_mtx` from first to last line) | implements `BulkTransfer` |
| `ConfigOnBus` | `ConfigService` asking through `ServerSdoService` over a bus that loses frames, of a node that may be slow; mark and send, mark and notify are separate steps of the two threads | extends `ConfigService`, implements it |
| `RpdoInterlock` | `ServerRpdoService` with the interlock, the master's heartbeat, both switches | |
| `PduPanel` | the PDU's control panel frame by frame, the cell-by-cell stores into `_rpdo1`, the cell-by-cell loads of `_create_rpdo1`, TPDO1 | extends `RpdoInterlock`, implements it |
| `ClientRouting` | registration, renumbering and look-up of routes, service by service and route by route | |
| `CanSocket` | `can::Socket` between the threads, at the granularity of mutex operations, loads of `_socket` and system calls; the loop of `_run`; the kernel's descriptor table | |
| `SetupPanel` | `ServerSetupPanel`'s tables over a bulk transfer: read all, load and compare, pick, write and read back | extends `ConfigService`, whose steps it takes as they are |
| `SettingsFile` | `config_file` and what the panel does with it: saving a table as lines, reading lines, matching them with the dictionary; texts of numbers and what they are read as | joined with `SetupPanel` in a run |
| `OdReaders` | the blocking readers as the panel's two other sections use them, poll by poll, against the CAN thread storing answers field by field, a bus and a node | |
| `WatchService` | `ServerWatchService::send` and its switches, object by object | |
| `LogService` | what becomes of answers and TPDOs: the watch service's values, `ServerLogService`'s buffers, the plots' copies and files | joined with `WatchService` in a run |
| `CommandPanels` | the command panels of eight devices and their RPDOs, cell by cell on both sides; the devices are rows of tables | joined with `RpdoInterlock` in a run |
| `TestProgram` | `ReferenceManager` and BRKDRIVE's run mode, frame by frame | joined with `RpdoInterlock` in a run |
| `MC*` | the constants of the instances TLC checks. `MCClient`, `MCSetupPanel`, `MCWatchLog` and `MCPanels` hold components whose steps do not meet: a behaviour is one of either, as its first state decides, and the part that takes no steps begins in one way only | |
| `*Proofs` | the theorems | |

Actions are named for the code they stand for (`CanSend`, `UiStore`, `TimeOut`, ...); a comment before each
definition and the `map` of `PROJECT.json` give the lines. Definitions introduced as "Mutant" are plausible
bugs: replacing the definition they vary makes TLC report the property the mutant is listed with.

### How state and actions correspond to the code

* **ConfigService.** One variable per field; `expired` is the comparison of the clock with
  `_request_timepoint`. Steps are the source's `ConfigStep`. `Send` is one call of `send` that does something,
  split by what it does (`Request`, `RefuseLocally`, `TimeOut`); the calls that return early change nothing.
  A refused `start`, an irrelevant answer and a cancel of nothing are stuttering steps.
* **ConfigOnBus.** `CanMark`/`CanSend` are the two halves of a request (the mark of a quiet object is made
  under its own mutex before the frame goes out), `CanReceive`/`CanNotify` those of an answer. Frames carry two
  fields that are not on the wire, for the properties only: the step of the present transfer that sent them, if
  any, and whether it was aloud. `UiStart` looks at what `start` looks at, the index of the step, so a transfer
  may begin with frames of former transfers and of requests made aloud under way.
* **RpdoInterlock.** Sets instead of flags per RPDO; `due` is the comparison of the clock with the period,
  `fresh` with the heartbeat's timeout. `send` is one step: it holds `_mtx`, and the only thing it reads that
  others write without that mutex is `_is_enabled`, once. The switch of the service as a whole is the options
  window's, for every server.
* **PduPanel.** A UI frame is five kinds of steps (keyboard in two, widgets, `_update_refs`, one store per
  atomic), so that the CAN thread's loads fall between any of them.
* **ClientRouting.** Each erased or inserted route and each `update_node_id` is a step. A look into the map
  while it is rewritten is undefined in C++: the model lets it yield any server, or nothing more happen.
* **CanSocket.** `at` holds where each thread stands. A descriptor that was closed is given by the kernel to
  whatever is opened next (`OtherFile`, external).
* **OdReaders.** A reader lives on the UI thread's stack, subscribed from construction to destruction. The
  handler's stores (`_charbuf`, `_result`, `_ready`) are steps of their own, between any two of which the UI
  thread may give up; the rest of the handler then finds the next reader, or none. A string's handler asks
  for the next piece itself.
* **WatchService.** `send` is one step under the lock. `elapsed` stops one above the longest period.
  The panel's box for all objects locks for each: `clicking` is the rest of that loop.
* **LogService.** A TPDO is handed to the buffers field by field. The copy for a paused plot is made buffer by
  buffer without a lock; that a copy of a buffer while it grows yields the old or the new contents is the
  kindest outcome of a race that is undefined. The capacity is a static member, so `UiSetOthers` changes it
  for this server without resizing its buffers.
* **SettingsFile.** A line is what its characters make it (blank, section, entry, junk) and a value is a word
  or a number in one of the forms people write; `charconv` is modelled by what it promises (exact or refused;
  the shortest text of a float gives the same float). Floats are patterns in their order. A file is one state
  per line, so that what is said of the lines so far is checked at each.
* **CommandPanels.** One UI frame is: widgets (the operator uses one at most), `_update_refs`, one store per
  cell; one frame on the bus is: one load per cell, then the sending. `Update`, `Frames` and `Modes` are the
  tables of what the eight panels and servers do, in the order of their code. After a click on a radio button
  comes a frame without one, as ImGui takes press and release in two frames.
* **TestProgram.** A frame is one step, for the CAN thread touches neither the panel nor the manager. The
  clock is read twice in `get`, so a comparison may be off by less than a tick (`Over`).
* **SetupPanel.** A frame of the panel that changes something is one step: the other thread reaches the
  panel's own fields never, and `config_service` only through its locked calls.

## 3. Runs

Runs that must pass:

| run | question | instance | why it is enough |
|---|---|---|---|
| `config_service` | do bulk transfers keep order, verdicts, outcome, give-up count, and end | three objects (read-write, read-only, write-only), two values, the five shapes of list the panel builds, `MaxAttempts` 2 and `MaxUnanswered` 3 as in the code | lists are longer than the give-up count, hold refused, repeated and unreadable objects, and the empty list |
| `bus` | when is a step settled by its own answer; does the mark of a quiet request tell what to log; is what is shown as written and as read true (each with the exception of the table below) | two objects, two plans, one request aloud, three frames in flight; transfers cancelled, given up and started anew with frames under way; `MaxUnanswered` 2; a node that answers at any time or never | a request, its repetition or one of a former transfer, and one made aloud may be on the way at once; the count of silent steps is `config_service`'s question |
| `rpdo` | commands stay off after the master has been heard; what is on and due goes out; the master gets its way. The other devices: an old start or level stays off, a mode begins at zero, a guest does not break in with a single frame. A test program is followed | three RPDOs, one interlocked, as the PDU has; both switches. Eight devices, one after the other. Three programs: two rows, one row that is over at once, one for the other mode | beside an interlocked RPDO there are others to be kept or lost; each device has all its cells and RPDOs that a property speaks of; a program can be replaced, repeated and run in either mode |
| `pdu_panel` | no old level is given again once the panel was drawn; trouble takes levels off; the purge begins with every manual level off | one contactor beside the inverter, two modes; the window opened and closed and the service switched at will | the order of stores matters between two cells, and there are three; the safety properties are proved for any number of contactors |
| `client` | ids, routes and takers; no use of another file's descriptor, the read waits on what was polled, connect returns, the loop turns | two servers, four ids; three descriptors: a lost one, the present one, one that changes hands; sockets that cannot be made or bound | one server moves to an id the other has left; a descriptor can be closed, given to another file and still be remembered |
| `setup_panel` | the table tells what became of each parameter; results fit its rows; nothing is put down before it is written; the node's ids need a hand; a saved file reads back, the last line counts, nothing is dropped silently | a parameter, the node's id and the restart flag, two values, any answers; `MaxAttempts` 1, `MaxUnanswered` 2. The file: four parameters of all kinds in two subcategories, patterns of three bits, every table of six values, every text of up to four lines from nine | a write and its read-back per row, two rows, one flag; refusal, cancel and give-up at every place; repetition is `config_service`'s question. Four lines hold two sections of one name, each with a line about one parameter |
| `od_readers` | strings are whole; the parameter shown is the node's; a call comes back empty for the named reasons only (all with the exceptions below) | a string of two pieces, a number the dictionary lacks, two parameters, two values, two frames under way in all | a late answer, a request of a former call or the acknowledgement of a write may be under way beside what the call at hand asks for |
| `watch_log` | objects are asked in turn and again and again; the value shown is the last one drawn; an export is whole | three objects, periods 1 and 2; two buffers, one of them a TPDO's as well, capacities 1 and 2 | one object on, one off, one switched meanwhile; a capacity can be lowered and raised |

Some properties state what holds unless something the code does not provide for has happened. A history
variable records that. What happens then is shown by a run of its own where the last column names one;
elsewhere the column says it and no run shows it:

| history | set when | until | condition of | otherwise |
|---|---|---|---|---|
| `overtaken` (ConfigOnBus) | a step asks with a frame about its object under way that is not its own: of a transfer cancelled or given up, of an earlier step, of a request made aloud; it holds the kinds of those frames | the step is settled | all kinds: `InOrderUnlessOvertaken`; a write: `WrittenWasExecuted`; a read: `ReadIsCurrent` | `bus_order` |
| `muddled` (ConfigOnBus) | an object is asked for quietly with another frame about it under way, a repetition's first included, or aloud with a quiet one: two answers are to come, and there is one mark | it is asked for with none under way | `LogTellsTheTruth` | the quiet answer gets a line, or the loud one none |
| `missed` (RpdoInterlock) | the service is off, or is switched, between the master's heartbeat and the next `send` | the master is heard with the service on | `StaysOffOnceSeen` | `rpdo_all` |
| `skipped` (PduPanel) | the window is closed when the panel should draw the frame that notices the trouble | the next trouble | `OldCommandGoneOnceDrawn` | `pdu_closed` |
| `stale` (OdReaders) | a call begins with an earlier read of its object under way, or with the CAN thread still in a former reader, of whatever object | the call returns | `ParamIsCurrent`, `NothingForAReason` | an old value is shown, or none, until it is read again |
| `acks` (OdReaders) | a call begins with a write of its object, or its acknowledgement, under way | the call returns | `NothingForAReason` | no value is shown until it is read again |
| `disturbed` (OdReaders) | a call for a string gives up half way, or begins or ends with the CAN thread in a reader | a call for it begins afresh: at the string's beginning, nothing about it under way, the CAN thread in no reader | `WholeString`, `NothingForAReason` | the rest of the string is shown as the whole, or pieces of two answers mix |
| `lowered` (LogService) | a capacity is set below that of the buffers a plot has copied | the plot goes on | `ExportIsWhole` | the file lacks samples |

Runs that show a disagreement of the code with its own text; the findings in `PROJECT.json` quote it:

| run | shows |
|---|---|
| `bus_order` | a transfer cancelled and started anew takes the answer to the former one's request for its own, contrary to "one request in flight keeps the server's answers in order" |
| `rpdo_all` | with the switch for all RPDOs off the interlock is not looked at, and old commands resume, contrary to "it stays off once the master is gone" |
| `pdu_closed` | with the panel's window closed its levels are not reset and are given again when the link returns, contrary to the comment in `_update_refs` |
| `file_blank` | a parameter whose name in the dictionary ends in a blank (SHM80 has one) is saved and not found again, contrary to "values are written the way they read back" |

Three more were met and need no run of their own. A quiet request that is sent twice and answered twice gets a
log line for the second answer, although neither is to be logged (`muddled` in `LogTellsTheTruth`). A write
made aloud whose acknowledgement is still to come when a transfer asks for the object gets no line: the
transfer's mark swallows it (`muddled` again). A
cancelled step may have its request on the bus, although "the transfer stopped before it got here": the
history of `ConfigService` counts it as cancelled, and `InOrder` allows it.

`CHECK_DEADLOCK FALSE` stands in `Client.cfg` only. There the system really may stop: if a socket could be
made but not bound, `_socket` keeps it, and the CAN thread may wait in `read` on it with `_recv_mtx` held,
and the UI thread behind it in `connect`. The socket's properties about waiting and turning speak of sockets that could be bound.

**Bounds.** `MaxInFlight` (frames on the bus, requests and answers together) and `MaxLoud` (requests aloud) bound
queues; `noticed` stops counting UI frames at two; `elapsed` stops above `MaxPeriod`, the ages of
`TestProgram` above `Longest`; `Capacity` bounds the logs, which the code bounds too. The histories that excuse last
as long as the table above says; those that record that something went wrong (`foreign`, `hurried`) are never
cleared. Nothing else is unbounded: time is abstracted to the comparisons made with
it.

**Fairness.** The CAN thread calls `send` of every service on each turn of its loop, and the clock advances:
weak fairness of `Send` and `Expire` (ConfigService), of `Send` (RpdoInterlock). The main loop draws frame
after frame: weak fairness of a UI frame (PduPanel), and of the taking of a result while the window is open
(SetupPanel; a closed window is not drawn, and the result waits). WatchService: weak fairness of `send` and
of the clock. `CommandPanels`, `TestProgram`, `OdReaders`, `LogService` and `SettingsFile` have safety
properties only and no fairness; where they share a run with a component that has some, it is given to that
component's behaviours alone. Nothing obliges the operator, a node or the master to do anything. In
CanSocket both threads go on once inside a call; no fairness is given to the UI thread for a mutex, because
`std::mutex` promises none and the CAN thread takes it in a loop; the CAN thread is given a mutex that is
free again and again, because the UI thread takes it a few times in a session; and the bus is quiet for 1 ms
again and again, which `Client::_run` counts on.

**Environment.** A turn of the loop is shorter than the timeouts of heartbeats and of TPDO1, and a master's
heartbeats are further apart than a turn. A loss of the link that the panel is to notice lasts a frame of
the UI at least. Node ids are valid ones. The dictionary is what the code's generated tables are: fixed.

## 4. Proofs

All by tlapm with Z3, Zenon and LS4; nothing is assumed but the named `ASSUME`s of the modules.

* **ConfigServiceProofs.** The types, `InOrder` and `OutcomeTruthful` of the bulk transfer for any dictionary,
  lists and limits, that verdicts are final (`VerdictsAreFinal`, which no run repeats), and that the service
  implements the safety part of `BulkTransfer`. The inductive invariant adds to the properties that the
  service has not given up while a transfer runs (`StillHopeful`: fewer silent steps than the limit); without
  it the step that gives up cannot be told from one that has passed the limit, and `OutcomeTruthful` is not
  preserved. `SilenceCounted` relates `_unanswered` to the list of verdicts: it is the number of timeouts
  since the last answer, and the transfer is given up exactly when that is the limit; a request is outstanding
  only for a step without a verdict. `SilenceInv` says so of some last answer, which the steps hand on; that
  there is but one gives the property.
* **ConfigOnBusProofs.** Every step of the composition is a step of the service or leaves it alone, given that
  frames on the bus are about objects of the dictionary (`FramesSound`); so what is proved of the service
  holds on the bus (`InOrderOnBus`). The run's four properties are proved from the assumptions on the
  constants alone: for any lists, and for transfers started with anything under way. One invariant
  (`OrderInv`) says that every frame under way is of the step in flight or of an older one, that those of the
  step in flight tell what the node did or what it holds still, and that one about its object that is not its
  own is of a kind `overtaken` names (`Own`); and that the requests of the step in flight are behind all
  others, so with one of them answered no other request is left that could make the answer an old one
  (`Line`). The other (`MarkInv`) says of objects that are not `muddled` that the mark tells of every frame
  about them how it was asked for (`MarksTell`), that a marked one has one frame under way at most
  (`OneQuiet`), and what is so between the mark and the frame (`MarkedFirst`).
* **PanelsProofs**, the interlock. `StaysOffOnceSeen`: commands stay off, unless the service as a whole was
  off when `send` should have seen the master. The invariant needs `SwitchedOffInTime`: an RPDO that should
  have yielded is still on only while the master is heard, the service is on and `send` has not run since the
  heartbeat. Without the condition the theorem is false (`rpdo_all`). The PDU's panel with everything around
  it, the options window's switch of the service included, implements the RPDO service, so `StaysOffOnceSeen`
  holds of it with the same condition (`PanelStaysOff`). `PurgeStartsOpen` holds for any number of contactors.
  `StoresInv` says how far a frame's stores have come: the mode is stored first, and until the last store the
  contactors stored so far are off unless the mode is the purge. `OldCommandGoneOnceDrawn`: the first whole
  frame drawn in the trouble empties the references and then stores them cell by cell (`Emptying`), after
  which no old level is left in either (`ForgottenInv`).
* **PanelsProofs**, test programs. `ProgramIsFollowed` for any files, durations and bound on the clock. `get`
  looks at the manager only, the property is about what was given and since when; the invariant says that the
  two agree (`InStep`): while the manager's clock runs, its row is the one given last and its time the time
  since; a clock that stands begins a new round. Loading, forgetting and restarting all stop the clock, which
  is why they cannot cut a row short.
* **PanelsProofs**, command panels. All three properties, for the eight devices alike; the devices' tables
  come in as facts (`Tables`, `BoundTables`: where a cell is stored, that it is stored once, which references
  a mode owns). `NotASingleFrame` needs to know how far the switching of the RPDOs has come (`SingleInv`):
  while they are switched off, those that are on are the ones still to come, and while they are switched on
  the operator has asked and, where there is an interlock, nothing is on before. `OldSwitchesStayOff` needs
  what the frame under way has stored (`OldInv`): what goes is off in the panel, and off in the cells as soon
  as its store has passed. `ModeBeginsAtZero` turns out to hold for a stronger reason than it states: no
  reference that is to be set anew is in the cells at any time, whatever mode they hold, so no frame carries
  an old one (`ModeInv`). That rests on a mode being tidied up before another can be picked, in the frame in
  which the button is released at the latest (`Tidy`).
* **ClientProofs.** `IdsDistinct`, `RoutesExact`, `TakenByItsOwner`, and that all services of a server use its
  id after a change (`ServicesListen`), for any servers and ids. The invariant says which part of a change has
  been done: the routes are those of all other servers and a prefix, in key order, of the changing one's; the
  id it leaves stays unused until it is done. Of the socket, `DescriptorsKept`: no call is made with a
  descriptor that is somebody else's by then, and the read waits on what was polled. Its invariant says who
  holds which mutex, and that a descriptor taken from `_socket` under one is open until it is let go.
* **SetupPanelProofs.** For any dictionary, files and answers. `IdsWrittenByHand`: the comparison does not
  pick the node's own ids, a row left picked by a failed write was picked by hand, and the rows of a transfer
  are rows of the table, which no click replaces until the result is taken. The other four properties rest on
  one invariant, `TableInv`. Results are found by their place alone, so it says, while a transfer runs or
  waits to be taken, which step is about which row; that each object is asked for once, and read back only
  after it was written; and that what a step shows is what the server told of its object since the transfer
  began. Taking the result carries that into the rows (`ResultsFitRows`, `GreenIsProven`,
  `TableTellsTheTruth`, `PutDownOnceWritten`). And the panel uses the service as its specification allows
  (`PanelImplementsService`: every step is one of `ConfigService` for `Plans` all lists, or leaves it alone),
  so what is proved of the service holds under the panel.
* **SettingsFileProofs.** For any dictionary, text and table. `LastLineCounts` and `NothingDroppedSilently`:
  the reader keeps the section it is in and the promises speak of the section a line is in by the text;
  `FileInv` says that these agree and that each line read is accounted for. `SavedReadsBack` rests on three
  things: where `Save` puts its lines (no two on one place, each parameter's between the name of its
  subcategory and the next), that each value's text is one its type reads back as the same value, and that no
  two lines give one parameter. The last is a hypothesis, `NamesReadBack`: the names of a subcategory's
  parameters differ and none has a blank at an end. TLC evaluates it on the run's dictionary (`MCSetupPanel`),
  and the configuration parameters of all the code's dictionaries are so but SHM80's "field_current ", for
  which the theorem's conclusion is false (`file_blank`).
* **OdReadersProofs.** `WholeString`, `ParamIsCurrent` and `NothingForAReason` for any objects, pieces and
  values and any number of frames under way. A string nobody has disturbed is in a chain: there is one request
  or answer for it at a time, or the CAN thread has it in hand, and its piece is the next the buffer lacks and
  the one before the node's cursor. A scalar's read is the last request for it, behind the writes, so that
  what its answer says is still so when it comes. What the histories record breaks these, and nothing else
  does; a string's chain is whole again as soon as a call for it begins afresh.
* **WatchLogProofs.** `RoundRobin` for any number of objects and any periods. The property is kept by a
  history (`owed`: for each object, those that were on ever since it was asked for and have not been asked for
  since); the invariant says that what an object is owed lies between the cursor and it (`OwedAhead`), so that
  the cursor cannot come to it while any is left. `ShownIsDrawn` and `ExportIsWhole` for any objects and
  capacities: the value shown is the last of its buffer, or the one the CAN thread is about to put there
  (`Drawn`); and no buffer, and no copy of one, has more samples than its room, and that is no more than the
  capacity as long as none was lowered (`WithinRoom`).

The type invariants (`TypeOK`, `RpdoTypeOK`, `RoutingTypeOK`, `WatchTypeOK`) are theorems and no run's
properties: they are parts of the inductive invariants, as are `Typed` and `CommandShapes` and the like of the
other modules.

What the proofs assume of the constants is named where they are declared, and TLC evaluates it on each run.
Worth a look: the objects of a dictionary are listed once each (`SetupAssumption`, `FileAssumption`: they are
keys of a table); a log has at least one buffer (`LogAssumption`); a
type's values come in two halves of equal size and there is a float above infinity (`TypeAssumption`); no
whole string is the mark for no data (`ReadersValues`).

Only model-checked: liveness, which the prover does not do under fairness: the part of
`ImplementsBulkTransfer` that says a transfer ends, `YieldsToTheMaster`, `CommandsFlow`,
`TroubleClearsLevels`, `ConnectReturns`, `TurnsGoOn`, `ResultIsTaken`, `AskedAgainAndAgain`. Every invariant
and every action property of the runs that pass is a theorem.

## 5. Not modelled, and what is left

What could still be done, in order of worth:

1. The panel and the bus in one model: what is proved on the bus is so for any lists, and the panel makes its
   lists and hands them on as the service's specification allows (`PanelImplementsService`), but no module has
   both; a single parameter edited by hand is in `OdReaders` only.
2. The client's own SYNC, heartbeat and TPDO messages: three timers in one thread. That the turns of the
   loop go on is `TurnsGoOn`; the rest of it is a comparison with the clock.
3. ATVVCU's dashboard, which stores each switch where it draws it and takes none off; BRKDRIVE's track mode
   (its program is `TestProgram`'s once more); the control loop's references of the inverters.

Left out of the modelled components: the text fields about the device other than those read; saving to the
device's memory and erasing it; power and emergency, on which no other command depends; what TPDOs tell
beside the trouble.

Not modelled for good: the data, status and dashboard panels, which show what the services hold; SHM80's
operator panel, a mock-up that is only drawn; drawing, logging, CSV output, scripts, generated dictionaries,
icons and vendored headers. More than two thirds of the repository's lines are these. Undefined behaviour of
the unlocked `std::list` of SDO subscribers, of the `std::set` of servers, of a reader that is written to
after its destruction and of a log that is copied while it grows is named among the hazards and modelled no
further than the kindest outcome: any other would be allowed.

Met while reading, too small or too far from what is modelled for a place among the hazards:

* `server_log_service.cpp:32`: the condition that is to "avoid duplicating objects" is inverted, so that a
  TPDO's field that is not watched is logged but not offered for choice. Line 36: a field and a watched object
  of one name share a buffer (vDC of the SRM drive), which `ShownIsDrawn` leaves out. Line 40: a mask is built
  in `int`, wrong for four bytes and more, which no dictionary maps.
* `watchplot.cpp:361`: a plot of one object over another pairs samples by place, not by time.
* `serversetuppanel.cpp:661`: restoring all defaults does not read the parameter shown again; restoring one does.
* `server_od_utils.cpp:163`: `Executor` compares an iterator that was never set; its only user is called nowhere.
* `brkdrive/controlpanel.cpp:278`: a program that is stopped keeps its place and its clock. Line 421: with a
  program that does not run, the track mode stores an uninitialized angle. Line 50: in trouble, a start that
  goes leaves a calibration entered before it to begin.
* `loco/controlpanel.cpp:32`, and the SRM drive's: the start is not taken off in trouble.
* `shm80/controlpanel.cpp:39`: while the emergency is toggled its request goes out with every frame drawn.
* `throttlecontroller.cpp:63`: the time stamp of the last sending is never set anew. Line 44: from reverse to
  drive in one click the throttle stays.
* `atvvcu_server.cpp:73`: a gear one past the last is accepted; only `gear_str`, which no one calls, would look it up.
* `client.cpp:72`: servers are registered after the CAN thread has started to walk the set of them.
* `cansocket.cpp:159`: `disconnect` waits for a mutex the CAN thread gives up only to take it again; that it
  returns is up to the C library, whereas `connect` returns even so (`ConnectReturns`).

A command of RPDO1 is not atomic: a frame may carry the mode of one UI frame and a level of another.
`PurgeStartsOpen` and `ModeBeginsAtZero` are what the order of the stores gives; nothing is claimed of torn
frames beyond them. A mode selected on the panel is not reset when the link is lost, only levels are; the
code says so and the model has it so. In the frame after the last row of a test program the drive is given
what lies beyond the last row in memory; `ProgramIsFollowed` calls it `Beyond` and makes no claim about it.
