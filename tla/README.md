# SIMNOS: a verification project

SIMNOS simulates network devices: for every host of an inventory it opens an
SSH or Telnet server whose clients talk to a command shell that answers from a
table. This directory holds TLA+ models of the parts of the program in which
threads, events, timeouts and failures meet, the TLC configurations that check
them on small instances, and TLAPS proofs of what matters most.

Run `tlc -config X.cfg M` for a run of the table below and `tlapm M_proofs.tla`
for the proofs.

## 1. Inventory of the system

| Component | Source | State | Operations | Talks to |
|---|---|---|---|---|
| Fleet | `core/simnos.py`, `core/host.py` | `hosts`, `Host.running`, `Host.server` | start/stop over hosts, sequential or in a thread pool, with a global deadline on stop; context manager | creates and drops servers |
| Inventory | `core/simnos.py`, `core/host.py`, `core/pydantic_models.py` | `hosts`, `allocated_ports`, each host's shell configuration | validate, merge with the defaults, allocate ports, make replicas | builds the fleet |
| NOS definition | `core/nos.py`, `core/command_contract.py` | name, prompts, `commands`, `device` | load and merge from dict, YAML, module; commit after validation | shared by all shells of a host |
| TCP server | `core/servers.py` | `_is_running`, sockets, selector, `_listen_thread`, `_connection_threads` | start, stop, listen/accept/track/prune | one thread per connection |
| Connection | `plugins/servers/telnet_server.py`, `ssh_server_paramiko.py`, `tap_bridge.py` | `run_srv`, `shell_replied_event`, two `TapIO`s | login, two taps, watchdog, cleanup | shell, transport, server's `_is_running` |
| Line queue | `plugins/servers/tap_io.py` | deque, condition, `run_srv` | `write`, `readline`, `drain` | between taps and shell |
| Login and byte reading | `tap_bridge.py` (`read_line`, `interactive_login`), `telnet_server.py` (IAC) | buffer, `skip_lf` | read a line byte by byte, negotiate | before the taps, same bytes |
| Shell | `plugins/shell/cmd_shell.py` | prompt, `commands` | resolve, check prompt, invoke, render, reload | stdin, stdout, `_is_running` |
| Hot reload | `plugins/shell/utils.py`, `cmd_shell.py` | module-wide table of file times | poll, reload the changed files | all shells |
| SSH authentication, keys, moduli | `ssh_server_paramiko.py` | `auth_method_used`, class-level caches | paramiko callbacks, the wait for a channel, channel login after "none" | paramiko |
| Command line, platform data, scripts | `plugins/utils/cli.py`, `plugins/nos/platforms_*`, `tasks.py`, `sync_ntc_commands.py` | none | | |

How they interact. `Host.start` makes a server; `TCPServerBase.start` starts
the listener; the listener starts a connection thread per client and hands it
`_is_running`; that thread logs the client in, makes two `TapIO`s and an event
`run_srv`, starts the two taps and the watchdog, and then *is* the shell: it
runs `cmdloop` until the shell ends, clears `run_srv` and closes the transport.

What is hard here:

* **Nobody is told that the session is over.** `run_srv.clear()` notifies no
  one; four threads that block in four ways (receive, event, queue, sleep) have
  to find out by polling, and each has a path on which it ends the others.
* **Two writers and two readers of one stream.** The echo of a newline and the
  shell's answer are queued by different threads and sent by a third, which
  assembles batches with pauses in between; a lock protects only half of the
  queue's operations.
* **An event used as a gate.** `shell_replied_event` is set per batch and
  cleared after the line is handed over, in different threads.
* **Stop against accept.** `stop()` clears a flag, writes to a socket and joins
  threads while the listener accepts, starts, appends and prunes.
* **Timeouts and partial failure.** Every join has a timeout; binds, accepts,
  sends and thread starts fail half way.
* **Work that outlives its call.** A parallel stop that meets the deadline
  leaves `Host.stop` calls running that still write to the hosts; a parallel
  start takes a host's `TimeoutError` for a deadline and leaves `Host.start`
  calls running.
* **Sends that break off.** A send that times out may have sent part of its
  batch, and the whole batch is sent again.
* **An unlocked table.** Hot reload compares the files with one module-wide
  table that every shell of every host reads and replaces, and loads what has
  changed into objects that other shells use, while an editor half-writes them.
* **Commands inside data.** Telnet commands may stand anywhere in what a client
  types, cut up by timeouts, in drains and in lines that are being read; what
  is left of the stream must be what was typed, for it is compared with the
  credentials.
* **One rule in several places.** Whether an inventory is good is decided by a
  schema before the defaults are merged, by checks after it, by assertions, by
  the allocation of ports half way through the hosts, and by each host.
* **Errors of a platform's author.** Broken templates, missing targets of
  aliases, handlers that raise and tables without `_default_` are tolerated
  one by one; none may give a line an effect that the table does not.

## 2. Modules

| Module | Models | Extends / uses |
|---|---|---|
| `LineQueue` | what a line queue promises: a FIFO queue that can be closed | |
| `Server` | what a server promises the host that owns it: it comes up or fails, is stopped once, and has its port while it is up | |
| `Connection` | what a connection is to its server: waiting, in its login, in its session, over, with traffic in its session only | |
| `Selections` | places and ranks in a sequence, for what `Session` and `Login` say of lines in a stream | |
| `TapIO` | `tap_io.py`, one action per access to the deque, the lock, the condition or `run_srv` | instance of `LineQueue` as `Queue` |
| `Login` | one connection up to its session: the IAC layer, drains, `read_line`, `interactive_login`, SSH authentication and the wait for a channel | instances of `Session`, as `OverTelnet` and `OverSsh` |
| `Session` | one connection: connection thread and shell, both taps, watchdog, and client, network and server as environment | its `stdin` and `stdout` are queues as `LineQueue` promises them; instance of `Connection` |
| `TcpServer` | `servers.py`: starting/stopping thread, listener, connection threads | instance of `Server`; an instance of `Connection` per client |
| `Fleet` | `SimNOS.start`/`stop` and `Host.start`/`stop` over hosts, sequential and in a thread pool | an instance of `Server` for every server ever made |
| `HotReload` | `shell/utils.py`, `reload_commands` and `precmd`, the commit phases of `core/nos.py`, and the making of a shell's command table | stands alone: a line that comes is a step of its shell |
| `Inventory` | `SimNOS.__init__` and `Host.__init__`: from an inventory to hosts with ports | |
| `Dispatch` | `CMDShell`: what a shell does with a line | a reload is what `HotReload` leaves in the table |
| `Hosting` | a client connects to a host of the inventory and types | extends `Inventory` and `Dispatch` |
| `MCTapIO`, `MCSession`, `MCLogin`, `MCTcpServer`, `MCFleet`, `MCHotReload`, `MCHosting` | the instances TLC checks | |
| `SequenceFacts` | lemmas on sequences: popping, appending, counting | |
| `TapIO_proofs`, `Session_proofs`, `Login_proofs`, `TcpServer_proofs`, `Fleet_proofs`, `HotReload_proofs`, `Hosting_proofs` | theorems and proofs | |

The layers fit together as follows. `TapIO` implements `LineQueue` (checked and
proved), so `Session` uses atomic queues. `Session` takes a login for one step
that succeeds, with CR or LF as its last byte, or fails; `Login` is that step
in detail, and each of its steps is a login step of `Session` or one that
`Session` does not see (`ImplementsSession`, checked and proved); that a login
ends once its client is gone, which `Session` assumes, is `LoginEnds`.
`Session` implements `Connection` (proved), and every connection of `TcpServer`
goes through the phases of `Connection` (proved). `Session` shows that a
connection ends after its server's `is_running` is cleared unless it is in its
login (`SessionEnds`), and `TcpServer` uses exactly that: its `SessionEnds` is
fair once `is_running` is false, `Login` is not fair at all.
`TcpServer` implements `Server` (proved), and every server a `Fleet` ever makes
for a host is used as `Server` allows (proved). Thus each layer relies on a
specification of a page that the layer below implements, and no pair of them
has to be checked together. `Session`'s shell answers a line with some lines; what they are is
`Dispatch`, of which `Session` needs only that every path writes, ends the
shell or does neither. `Hosting` puts a `Dispatch` behind every host that
`Inventory` makes, with the base prompt it has made for it.

### TapIO

`lines` is the deque, oldest first (`appendleft` and `pop` in the code); `lock`
the holder of the condition's lock, `waiting` whether the reader is in
`wait()`, `rpc`/`wpc` where reader and writers are. `write()` is three actions:
the append outside the lock, acquiring it, `notify` and release. `readline()`
is: acquire, look at `run_srv`, look at the deque, wait, and after the loop the
pop of a leftover line. `drain()` pops without the lock. `ClearRunSrv` is any
thread's `run_srv.clear()`.

### Session

One action is one access to shared state. `conn` is where
`connection_function` is, and from `"intro"` to `"output"` where the shell is;
`cpc`, `spc`, `wpc` are client tap, server tap and watchdog. A byte is text,
text that is not UTF-8, CR, LF or NUL. An item of output is a kind and its
serial number. Histories (`heard`, `inlog`, `ran`, `outlog`, `sent`, `wire`,
`cuts`) record what passed each place; nothing reads them but the bounds and
`current`, the line that is being run.

A send that times out may have sent any number of the batch's items
(`BreaksOff`), the last of them perhaps only in part, and the whole batch is
sent again, as the comment at `tap_bridge.py:260` accepts. `sent` holds the
batches of the sends that returned, `wire` all that the transport was given,
and `cuts` where in `wire` a send broke off and which item its batch began
with, so that the next send has to begin with that one again.

Abstracted: the login dialogue, to success with CR or LF as the last byte, or
failure (`Login`); what a command answers, to the number of lines, whether it
ends the shell and whether output is blank (`Dispatch`); how `sendall` ends, to
ok, timeout or error by what the transport can do in that state. An empty prompt and a shell whose
constructor raises are left out.

### Login

`conn` goes through both `connection_function`s and `interactive_login`;
`parse` is where `_recv_byte` and `_skip_subnegotiation` are in a command,
`"idle"` when nobody calls them. The client sends units, a byte of data or a
whole Telnet command, whose bytes arrive one at a time (`coming`); timeouts,
the end of the stream, a failing send and the drain's deadline may come between
any two. `buf` and `skip_lf` are `read_line`'s, `entered` the two lines read.
On SSH `auth` is `auth_method_used`; `Attempt` and its callers are the
callbacks paramiko makes while `accept()` waits, in any order and any number.

Histories: what the client meant by its unit and the answer it is waiting for
(`meant`, `due`), whether it was disappointed (`confused`), a timeout inside a
command (`stalled`), the bytes a login was given (`heard`), the last attempt
(`shown`). `meant` and `due` are written down when a unit is sent and know
nothing of the parser; `TypedLine` knows nothing of `read_line`.

A name is a sequence with a possible `"+"`; a secret is right or wrong, since
the callbacks only compare it. Left out: host keys and their caching, moduli,
the banner's content, a client that sends the rest of its command after a
timeout (from there on `Transparent` promises nothing, and the client sends no
further commands).

### Inventory, Dispatch, Hosting

`Inventory` is the constructor, one action per step that can raise: the schema
on the whole inventory, the checks on one merged entry, the allocation of one
port, one host. `at` is where it is; `"failed"` is an exception, whatever its
class. A value that may be missing or null is a record with `is` and `of`,
because the code tells missing, null and empty apart and not always the same
way. `base_prompt` is the shell configuration of an entry, which all its
replicas share. A replica's number has one digit (`MaxReplicas`); two-digit
numbers would only make more coincidences of names.

`Dispatch` is the shell between two prompts: one action per method `onecmd`
ends in, with `default()` in three (choosing, calling a handler, the end) because
a handler may raise and the server may stop in between. A command is a function
from the attributes it has. A template is a text and what `str.format` makes of
it: the name of the host in it, itself, or an error. `ReadLine` takes over what
a reload has changed in the table. `from`, `crashed` and `answer` are
histories of the line.

`Hosting` is both, one after the other: it connects a client to any host that
was made, with any of the platforms' tables.

### TcpServer

`caller` is the thread in `start()` or `stop()`, `listener` the listener
thread (`"crashed"` when a thread could not be started, which the code does
not catch), `tracked` is `_connection_threads`, `joining` and `alive` are the
progress and the result of `join_threads_with_deadline`. `late` remembers that
the join of the listener timed out; the code does not look at that.
`wakeup` stays set when the sockets are closed: a `select()` that was woken
stays woken, and one that was not is ended by its own timeout only, since
closing an epoll descriptor does not end a wait on it. A server is started
until that succeeds once and stopped once, as `Host` does it.

### Fleet

One thread calls; `func`, `mode`, `workers` and `asked` are what it called,
`todo` the hosts whose turn has not come, `jobs` the `Host.start` and
`Host.stop` calls that are running, one record each with where it is. `servers`
keeps every server object ever made for a host and `server` which of them
`Host.server` refers to, so that a server nobody refers to can be seen. Each
read and write of `Host.running` and `Host.server` is an action of its own.
`crowded` is a history: a call was made while an earlier one was still running
in the background. What the code guarantees, it guarantees until then;
`Fleet_orphan` shows what happens afterwards.

A job may raise TimeoutError (`RaiseTimeout`) or anything else (`Raise`). In a
pool the first failure that `as_completed()` hands out decides: any other
exception is raised once the pool is done (`NoticeFailure`, `Return`), but a
TimeoutError ends in the handler of the deadline (`TakenForDeadline`), although
a start has none: queued hosts are cancelled, `Host.start` calls run on, and
`start()` returns as if all had started. `timeouts` holds the hosts that raised
it. A program is then taken to wait for what it has left starting before it
makes another call (`StartsAwaited`, a restriction of the environment): a
server's own `start()` is one step here, and a second `start()` or a `stop()`
in the middle of it is not modelled. Left out: a host named twice in
one call, and the safety-net join of `SimNOS.stop`, which changes no state.

### HotReload

A file's modification time is the number of the edit that made it, and what is
in force for a command, the prompt or the device is a file at a time. `disk` is
what the editor makes of the files: it saves them, well or broken, and removes
those that may vanish. `table` is `_files_lasttime_changed_old`; `files`,
`times` and `changed` are the locals of `get_files_changed`, `loaded` those of
`from_dict` and `_from_module` between the read and the commit; `nos` is the
`Nos` of each host, `serve` the command table of each shell. One action is one
access to the table, the files, the `Nos` or the shell's commands; each loop
that stats all files is one action, since edits of different files commute and
every file is looked at once. A load is a read (with validation), for a module
the reading of its configuration template, and a commit.

`unseen`, `raced`, `broken`, `overtaken` and `undone` are histories, read by
the properties only. Abstracted: what makes a definition valid, to whether a
file loads; the five scalars, to `prompt`; the commit, which nothing
interrupts in a way a shell could tell, to one action. Left out: a
configuration file from the inventory, which takes the place of the module's
template; files that are made after the start and platforms that are added.
An edit before the first poll of the process is not counted as unseen: that
poll fills the empty table, so the code takes whatever it finds as the state
the platforms were loaded in.

## 3. Runs

| Run | Shows |
|---|---|
| `TapIO` | `NoLostWakeup`: a reader that sleeps over a line has a `notify` coming. `QueueSpec`: refinement of `LineQueue`, order, conservation and end of file included. `ReadlineReturns`: a line wakes the reader without the 0.1 s timeout, and the timeout lets it see a shutdown. |
| `Session_telnet` | `OutputConserved`, `InputConserved`: nothing lost or reordered through readline, drain, second readline and second drain, and every item in one send that returns. `WireInOrder`: whatever a send that times out half way has sent, the client gets the output in order, without a gap, and twice only that part of its batch. `LinesAsTyped`: the shell gets the lines an independent definition says were typed, CR/LF/NUL and the login's leftover included. `EchoPrecedesReply`. |
| `Session_ends` | `SessionEnds`, over SSH with an overridden `exit`: whoever clears `run_srv`, a stopped server, a dead transport each end all four threads. `OutputIsSent`: no output is held back for ever. |
| `Login` | `Transparent`: bytes and answers through any mixture of commands. `CredentialsDecide`: a session for the configured credentials only, and no refusal of them. `LoginEnds`, `DrainIsBounded`. `ImplementsSession`: refinement of `Session`'s login. |
| `TcpServer` | `StopAccounts`: no connection slips through `stop()`. `Released`: nothing is left open. `StopReturns`, `ListenerEnds`, `Served`, `Pruned`. |
| `Fleet` | `Consistent`: with nothing running on a host, `running` says whether its server is up. `NoOrphanUncrowded`: every server that is up can be stopped. `StartStarts`, `StopStops`: a call that returns has done what it says; a `start()` that has not is one in whose pool a host raised TimeoutError. `CallsReturn`. |
| `HotReload` | `NothingForgotten`: an edit that no poll has reported is not in the table. `BrokenNeverServed`: nothing of a broken file is in force. `NoDowngrade`: a commit goes back to an older version only if another shell's commit overtook it. `EditIsLoaded`: an edit is loaded in the end, whatever the other files are. |
| `Hosting` | `PortsOwned`: no two hosts on one port. `InventoryDecides`: the constructor returns exactly for the inventories that make sense as a whole (`Sensible`), with the hosts they declare. `AnswersByMode`: a refused line has no effect, a command has its own and no other, a crash is answered, the help tells the truth. |

Runs that must fail, each with a property that quotes the repository:

| Run | Property | What the code does |
|---|---|---|
| `Session_disconnect` | `DisconnectEndsSession` (a test: "Closing the client socket should propagate to shell.stop()") | the shell's reply is sent between `stdin.write` and `shell_replied_event.clear`; the tap waits for ever for a reply that came and does not read the end of file |
| `Fleet_orphan` | `NoOrphan` (`Host.stop`: "this guards against double-stop calls") | a `Host.stop` left in the background by the deadline drops the server of a later start |
| `HotReload_raced` | `EveryEditIsSeen` (docs: "automatically reload it each time a change is made in the code") | an edit between the two stats of a poll is recorded and never reported |
| `Hosting_prompt` | `PromptNamesHost` (docs: "the final prompt will be `R1>` for the host `R1` in the inventory") | replicas share their entry's shell configuration, where the first puts its name; all prompt with it |

### Bounds, and why they are enough

* `TapIO`: two writers (client tap and watchdog on stdin; client tap and shell
  on stdout), one reader, three writes: one line popped, one queued, one being
  appended.
* `Session`: the client sends at most `MaxBytes` = 2 bytes after the login's
  last one, one in `Session_ends`. Two lines are enough for a reply,
  a second line that races with it, and a tap that waits; with the login's byte they hold every CR/LF/NUL triple.
  `Session_telnet` has bytes that are no UTF-8 as well; `Session_ends` sends one
  byte, a CR: a tap reads no second one while it waits, and what a line says does
  not matter to how threads end; the watchdog's line is the second. A command
  writes at most `MaxOut` lines. In `Session_telnet` a send that
  times out may leave the first item of its batch on the wire, whole or in part
  (`MaxRepeats` = 1), and any number of sends may time out before anything is
  on it: the break-off falls on an introduction, a prompt, an echo or a reply,
  alone or with more behind it in the batch. Breaks further into a batch, and
  several of them, are covered by the proof of `WireCorrect` only, which
  holds for every bound. The other runs, about how sessions end, have
  `MaxRepeats` = 0. The client may disconnect, the transport die and the server
  stop at any point.
* `Login`: a user and a password of one byte each, and at most `MaxData` = 4
  bytes of data in a login: both lines with their ends, or one line too many,
  CR LF and CR NUL across the two lines, and an end of the stream before,
  within and after each. Commands are not counted: the client may send any
  number, with each verb and an option the server offers, accepts or does not
  know, and a subnegotiation that contains a doubled 255 and the byte SE. The
  names hold the user's own, one with a `+` suffix, one that has the user's
  name as its suffix, and one that has it as a prefix.
* `TcpServer`: three clients: one tracked, one being accepted, one queued.
* `Fleet`: two hosts, calls for both or for the first, pools of one thread
  (one host waits for the other) and of two, four calls: the orphan needs start,
  late stop, stop, start. Any job may raise at any place where it can, with
  TimeoutError too. Deadlock is not checked: after the last call nothing
  is left to do.
* `HotReload`: one host, since hosts share nothing but the table and two shells
  of one host share that and the `Nos`. A module, its template and the YAML
  file of another platform: each of the three ways a file is loaded. Two edits
  (`MaxEdits`) are a broken file next to a good one, or a removal and a save;
  only the module vanishes (`Vanishing`). `HotReload_raced` needs one shell and
  one edit. Shells poll again and again, so nothing else is bounded.
* `Hosting`: inventories of up to two entries in either order over ports 1 to
  4, with 0 and 5 next to them: every kind of port value with every kind of
  replicas, defaults of each kind, platforms and shells missing, null, known
  and not, and a second entry whose name is that of a replica of the first.
  Two entries are enough for an overlap and a collision. Tables have a
  command with every combination of attributes, an alias of every kind, and a
  `_default_` with text, with a handler or missing. Once a client is
  connected nothing reads the variables of the constructor, so the view
  (`View`) identifies states that differ in those only; until then it has them
  all. No deadlock check: a shell that is over does nothing, nor does a
  constructor that has failed.

### Fairness

`Session`: every started thread keeps taking steps (the scheduler is fair);
the `accept` loop polls; a login fails once its client is gone. Nothing is
assumed of a client that stays. `OutputIsSent` alone assumes a client that
reads (`ReadingClient`), since the code retries a send that times out for ever.
`Fleet`: the pool's threads and the caller, which looks at what failed, run,
and a server's start and stop end, which `StopReturns` of `TcpServer` shows; the deadline need never pass.
`HotReload`: every shell's thread runs and lines keep coming, which is when the
code polls; the editor need do nothing.
`Login`: the connection's thread runs, the clock reaches a deadline, and
paramiko notices in the end that its peer is gone. Nothing is assumed of the
client; that it stops sending commands some time is a premise of
`DrainIsBounded`, since the code names that case as the one it does not bound.
`TapIO` and `TcpServer` leave the safety-net timeouts out of the specification's
fairness; the properties that hold only because of them assume them
(`Polling => ...`), the others show that the wakeups suffice. Strong fairness
of lock acquisition stands for a lock that is granted in the end; strong
fairness of `ListenAccept` for accept errors that do not last for ever.

## 4. Proofs

All proofs hold for every value of the constants.

* `TapIO_proofs`: `TypeCorrect`, `FifoCorrect`, `WakeupsKept`,
  `EofCorrect`, `Refinement` (`Spec => QueueSpec`). The invariant adds to the
  four properties who holds the lock (`MutualExclusion`); `WakeupsKept` rests
  on the append coming before the lock: a reader that looked before the append
  cannot enter its wait between append and notify without the notify to come.
* `Session_proofs`: `TypeCorrect`, `OutputCorrect`, `InputCorrect`,
  `EchoCorrect`, `TypedCorrect`, `WireCorrect`, `ConnectionImplemented`. The
  two conservation equations are inductive together with the types; one lemma per queue operation (`WriteStdinKeeps`, ...) and one for
  all steps that touch no queue (`QuietSteps`). `EchoCorrect` needs that there
  are as many echoes as lines of the client in `stdin`'s history, and one more
  while the tap is between the two (`Echoed`); the lines the shell ran are a
  prefix of that history by `InputConserved`, and `SequenceFacts` has what
  appending and prefixes do to a count. `WireCorrect` needs that items are
  numbered as they are written, so that by `OutputConserved` a batch begins with
  the first item no send has returned with (`BatchNumbers`), and that nothing
  broke off beyond the end of the wire (`WireInv`).
  `TypedCorrect` compares the tap, which keeps one flag and a buffer, with
  `typed`, which looks at all that was ever received. Both sides are sets of
  places counted by their rank (`Selections`), so that the proof needs no
  induction over the stream: its invariant (`Assembling`) says that the buffer
  is the text since the last end of a line, that `skip_lf` is set just when an
  LF now would be the second half of a pair, and that at most one line is typed
  and not yet forwarded; a byte adds at most one place, at the end, and changes no
  rank (`PlacesGrow` and the lemmas on `Rank` in `SequenceFacts`).
  `ConnectionImplemented` needs that neither the shell nor a tap runs before the
  session has started (`PhaseInv`); once the transport is closed, it lets
  nothing through.
* `Login_proofs`: `TypeCorrect`, `TransparentCorrect`, `CredentialsCorrect`,
  `RefinesSession`.
  `Transparent` is not inductive: between the bytes of a unit its truth depends
  on what is still to come. The invariant therefore says, for each place of the
  parser, which bytes may be left of a unit and what is then still meant and
  due (`Intact`, of `WholeUnit`, `AfterIAC`, `AfterVerb`, `AfterSB` and
  `AfterSBIAC`), or that the client has gone and took the rest along (`Cut`);
  without a stall the parser is nowhere else. For the refinement each
  action is one of `Session`'s login steps or a stutter under the mapping, over
  either transport; it needs the type invariant and that a login's locals are
  empty outside of it.
  `CredentialsCorrect` needs that `entered` and `buf` are the lines that were
  typed as far as they have come (`LineInv`, over the line ends `heard` holds at
  each place of the dialogue), and that `auth` is a method the server allows
  and what was last shown for it was right (`ShownInv`).
* `TcpServer_proofs`: `TypeCorrect`, `TrackedCorrect`, `ReleasedCorrect`,
  `AccountsCorrect`, `NoneServed`, `ServerImplemented`, `ConnectionsCorrect`.
  `Tracked` needs that the listener holds a
  client while it starts a thread and that it does not exist before `start()`
  succeeds. `StopAccounts` needs that past a join in time the listener is over,
  so that the live threads are among those to join and those found alive.
  `ServerImplemented` needs that a server that is up, or that `stop()` is busy
  with, listens (`ListeningInv`); `ConnectionsCorrect` that the client whose
  thread is about to start was accepted and has none yet (`StartInv`).
* `Fleet_proofs`: all safety properties of `Fleet` but `NoOrphan`, which does
  not hold, and `ServersCorrect`, `OneServerCorrect`, `NeverStuckCorrect`. The invariant `IInv` says,
  for each place a job can be at in `Host.start` or `Host.stop`, in which state
  the host's server is (`Fits`), that a host has one job at a time
  (`JobsFit`), and what has become of the hosts whose turn is over
  (`TurnsOver`). `MoveFits` and `EndFits` reduce each step of a job to what it
  does at its own host.
  `ServersCorrect` and `NeverStuckCorrect` hold when the fleet is crowded too.
  The first needs that a job that waits for a server's `stop()` is the only one
  that waits for that server, which is being stopped (`HaltingInv`). The second
  says in state predicates what ENABLED would say, that some action can be
  taken; it needs that a `Host.start` finds its server as new as it made it.
  That is so since every start has been waited for when another call is made
  (`StartsAwaited`), so that one works on a host at most (`StarterInv`); a stop left in the background may drop that server, so
  that the start raises, but the one it waits for is another (`MadeInv`).
* `HotReload_proofs`: all safety properties of `HotReload`. `NothingForgotten`
  needs that a shell that polls while an edit is unreported has found the file
  and not yet looked for modified ones (`DueInv`), so that nobody can put the
  file's time into the table before it is reported.
  `BrokenNeverServed` needs that what is loaded and not committed is
  sound, since the read validates before anything is written. `NoDowngrade`
  needs that no version is newer than its file on disk, and that what a shell
  nobody overtook is about to commit is the newest of its file.

* `Hosting_proofs`: all safety properties of `Hosting` but `PromptNamesHost`,
  which does not hold, and `PromptsCorrect`, which says what holds in its place.
  `PortsOwned` needs that a port that is allocated and not yet a host's is the
  one of the host about to be made (`Pending`).
  `InventoryDecides` compares steps that each look at one entry with `Sensible`,
  which looks at the whole. The invariant (`Progress`) says that the entries
  passed are good, which hosts are `Settled` and which ports `Reached`, each by
  one host only, and that whoever gave up had a reason that `Sensible` knows.
  `FitsExactly` shows that the schema before the merge, the checks after it and
  the assertion together refuse what `Fits` excludes.
  `AnswersByMode` needs, for each place of the shell, what the table said of the
  line when it was chosen (`Decided`): the table does not change while a line is
  run, and `default()` is looked at against `Has` and `Of`, which know nothing of the merge.
  `PromptsCorrect` needs that an entry has no host as long as nobody has set its
  base prompt (`NamesInv`), so that it is the first host that sets it.

Every safety property the runs check is proved. Only model-checked is what is
stated under fairness: `ReadlineReturns`, `SessionEnds`, `OutputIsSent`,
`LoginEnds`, `DrainIsBounded`, `StopReturns`, `ListenerEnds`, `Served`,
`Pruned`, `CallsReturn`, `EditIsLoaded`. `ImplementsServer`,
`ConnectionsKept`, `ImplementsConnection`, `OneServer`, `ServersKept`,
`NeverStuck` and `PromptNamesFirst` are theorems that no run states.

A proof that would not go through corrected the model: the cases of
`Session`'s `IsClosed` and `SendResult` overlapped, and TLA+ does not say which
of two true cases counts. They are disjoint now.

## 5. Where the code promises less

Found while modelling, and written into the models as they are. A property
that would fail there has the exception in its text.

* A line that is no UTF-8 kills the client tap and leaves the session without
  a reader (`tap_bridge.py:162`): `cpc = "dead"`, excepted in `OutputIsSent`.
* A send that times out half way repeats what it has sent, which the comment at
  `tap_bridge.py:260` accepts: `cuts` in `WireInOrder`.
* `simnos.py:416` has `f.result()` inside the `try` whose `except TimeoutError`
  is there for `as_completed()`. A `Host.start` of a pool that raises
  `TimeoutError` (one class with `concurrent.futures.TimeoutError` since Python
  3.11) is therefore taken for a deadline that a start does not have: `start()`
  raises nothing, logs "Global stop deadline exceeded during parallel start",
  cancels the hosts that are queued and leaves those that have begun to start on
  their own. `TakenForDeadline`; excepted, and nothing else with it, in
  `StartStarts`, `NothingInBackground` and `StartTriesAll`.
* A login does not look at `is_running` (`tap_bridge.py:311`): a connected and
  silent client keeps its thread after `stop()`, which reports it.
* A timeout inside a Telnet command loses the parser's place
  (`telnet_server.py:140`, `:148`, `:154`): `stalled` in `Transparent`.
* A drain is not bounded against a client that sends commands only, as
  `telnet_server.py:51` says itself: premise of `DrainIsBounded`.
* The help goes by what an alias says of its own mode, not its target's
  (`cmd_shell.py:144`): exception in `HelpIsTrue`.
* A replica may take the name of another entry and replaces it in `hosts`
  while its port stays allocated (`simnos.py:253`): `InventoryDecides` says
  that the last one wins.
* A `null` for `replicas` counts as given for the schema and as absent for the
  checks, so that such an entry must take its port from the defaults: `Fits`.
* The inventory documentation has examples (`replicas: 2` with ports
  `[5000, 6000]`, `10` with `[5001, 6000]`) that `simnos.py:198` rejects.

## 6. Not modelled, and why

* Reading host keys and moduli files, and the inventory's YAML file: input
  whose failure is an exception before anything else has happened.
* Null credentials, and a null `nos` or server section of an inventory, with
  what each host's own validation (`ModelHost`) says of them; an empty prompt,
  which the schema lets through and no shipped platform has.
* What a platform's definition must look like beyond the types of a command
  (`core/pydantic_models.py`), and the normalisation of its prompts.
* `process_tap_line` and all layout of text.
* A call made while a `Host.start` that a parallel start has left behind is
  still running (`StartsAwaited`): `TCPServerBase.start` sets `_is_running`
  first and has its listener last, so that what another `start()` or a `stop()`
  does in between is a question about the inside of a server, which `TcpServer`
  answers for one caller only.
* A host named twice in a parallel start (`simnos.py:413`), which gets two jobs.
* The command line (`plugins/utils/cli.py`): a start and a wait for a signal.
* Platform data and templates, which are the constants of `Dispatch`, and the
  maintenance scripts (`tasks.py`, `sync_ntc_commands.py`), which are not part
  of the program.

What could come next: variants for what is under fairness (how many steps a
stop or a session has left), as far as state predicates can say it; two
sessions of one host that share a `Nos`.
