# A specification of KNoT VirtualThing

KNoT VirtualThing (`thingd`) makes a Modbus slave look like a KNoT thing: it
polls registers, decides which values are worth reporting, and keeps a session
with the KNoT cloud over AMQP. This directory holds TLA+ modules that model the
daemon, the TLC configurations that check them on small instances, and theorems
about them that TLAPS checks for every value of the constants. `PROJECT.json`
lists components, runs, mutants, the map from definitions to source lines,
findings, hazards and theorems.

Paths below are relative to the repository.

## 1. Inventory

`thingd` is one thread, the main loop of the ell library. Everything happens in
callbacks (timers, the Modbus socket, the cloud library), and a callback runs to
its end before the next one starts. What makes it hard is therefore not shared
memory but the *order* of callbacks: answers that are late, lost, duplicated or
for an id the thing has given up; links that drop between a request and its
answer; timers that are one-shot and re-armed by hand; and files that are
rewritten in several saves.

| part | state | operations | talks to | correct when |
|---|---|---|---|---|
| session state machine (`src/sm.c`) | `current_state` | `sm_input_event`, `get_next_*`, `enter_*` | calls `device.c` | it waits only with a running timer, follows the links, never goes online unauthorised, and settles |
| device (`src/device.c`) | `conn_mask`, `thing` (id, token, `msg_to`, data items) | link callbacks, `on_msg_timeout`, `on_cloud_receive`, `on_modbus_poll_receive`, `on_event_timeout` | raises events in `sm.c`; calls everything below | see the parts below |
| credentials (`src/properties.c`, `src/storage.c`) | credentials file | store, clear, read at the start | `storage.c` saves | the pair in the file resumes the session, a token is kept with its own id |
| device configuration (same files) | device file, `data_items` | load at the start, update on a configuration message | `storage.c` saves | the file says what memory says, and can be loaded again |
| polling (`src/poll.c`) | `active`, one one-shot timer per item | `poll_start`, `poll_stop`, `on_poll_timeout` | calls `on_modbus_poll_receive` | every item is polled while the slave is connected |
| sensor events (`src/event.c`) | `active`, `sensor_timeouts` | `event_start`, `event_stop`, `event_check_value`, `on_sensor_to` | calls `on_event_timeout` | timers match the configuration; what should be reported is |
| Modbus interface (`src/iface-modbus.c`) | `modbus_ctx`, socket, `modbus_io`, `connect_to` | `iface_modbus_start`, `attempt_connect`, `on_disconnected`, `iface_modbus_read_data` | link callbacks of `device.c` | it is connected or tries again, closes what it opened, and decodes values in the right byte order |
| start-up (`src/main.c`, `src/settings.c`) | none that lasts | options, logging, daemonising | `device_start` | - |
| cloud, broker, slave (external) | registrations, messages, registers | | | modelled from how `src/` uses them |

The hazards, each at its line, are in `PROJECT.json`.

## 2. Modules

| module | models | state and actions |
|---|---|---|
| `Credentials` | the credentials file | no state; for each operation the set of outcomes, with every save that can fail, and the files a process leaves that ends in the middle |
| `Session` (extends `Credentials`) | `sm.c` and the part of `device.c` around it, with an external cloud and broker | one variable per piece of program state; one action per callback |
| `Membership` | abstract: what the session promises, without messages, timers and files | joining, being accepted, reporting, being removed, restarting |
| `SessionMembership` (extends `Session`) | how `Session` is `Membership` | the refinement mapping, `ImplementsMembership` |
| `EventCheck` | `event_check_value` and the comparisons | operators |
| `Telemetry` (extends `EventCheck`) | `poll.c`, `event.c` and the data path of `device.c` | one action per callback and per session change that touches the data path |
| `ConfigStore` | loading the device file, and applying a configuration | one action per save, so that a crash can come in between |
| `ModbusLink` | the life of the Modbus connection: start, connect loop, disconnection, stop | one action per callback |
| `ByteOrder` | the byte orders of 32 and 64 bit values | operators |
| `ModbusInterface` (extends `ModbusLink`, `ByteOrder`) | all of `iface-modbus.c` | the link, and the reads over it |
| `Daemon` (extends `Session`, instances of `ModbusLink` and `Telemetry`) | the process as a whole | one action per callback, from the timer or socket down to the publication |
| `SessionProofs`, `MembershipProofs`, `TelemetryProofs`, `ConfigProofs`, `LinkProofs`, `ModbusProofs`, `DaemonProofs` | theorems on the module of that name | |
| `MCSession`, `MCTelemetry`, `MCConfigStore`, `MCModbus`, `MCDaemon` | instances for TLC | |

Definitions keep the names of the C functions. Where a TLA+ definition stands
for several functions its name says what they have in common (`LinkUp`,
`SensorEvent`). `get_next_<state>` contains the entry of the state it returns,
because `sm_input_event` runs both in one call; `current_state` itself is
assigned last in the code, and nothing reads it in between.

Operators marked "Mutant" are wrong on purpose. Each property of each passing run
is violated when the definition named in `PROJECT.json` is replaced by its mutant.

### Session

An id is a model value; a token is represented by the id it was issued for, so a
matching pair has `id = token`. `sub` is the id last given to
`knot_cloud_read_start`. `authenticated` and `published` are history: they record
what the cloud accepted and under which id data went out.

The code never compares the id of a message with its own (`on_cloud_receive`), so
what the callback gets to see matters. With `StrictRouting` only messages for the
id last subscribed to arrive; without it, any message may. Apart from that
`knot_cloud_read_start` may fail (`ReadStartFails`; the code logs that and goes
on, with the old subscription), and an id that is drawn may be one seen before
(`FreshIds` FALSE). Properties that need one of these say so.

A process may end between callbacks (`Restart`) or, with `Crashes`, inside one
between the two saves of the credentials or within a save (`Crash`, `StoreCut`,
`ClearCut`). The next start reads what the file holds. A file without its two
keys cannot be started on: `set_thing_credentials` would copy from a null
pointer, and the model has no step there.

Requests and messages are sets with bounds (`MaxRequests`, `MaxInFlight`): order
is arbitrary, both can be lost (`Lossy`), and a retried request is answered
again. A thing whose token was refused or that was removed ends in
`ST_UNREGISTER`; it leaves it by `EVT_REG_PERM`, which no code of the repository
raises (`PermissionEvents`), or by a restart.

### Membership

`Membership` says in ten actions what a user may rely on: a thing joins when the
second link comes up and is away while one is down; only a thing without a token
takes a new name; it goes online only after the cloud accepted its name, and only
then reports; a restart keeps the name and the membership unless the process ended
while they were being changed; and what was removed or has failed stays so until a
restart. The mapping is

| `Membership` | in `Session` |
|---|---|
| `phase` | away in `ST_DISCONNECTED`, joining in `ST_AUTH`, `ST_REGISTER` and `ST_CONFIG`, online in `ST_ONLINE`, over in `ST_UNREGISTER` and `ST_ERROR` |
| `linked` | `conn_mask` has both bits |
| `name`, `member` | `thing.id`; `thing.token` is not empty |
| `accepted`, `reported` | `authenticated`, `published` |

A step of the session that moves only messages, timers or files maps to a stutter.

### Telemetry

The session is reduced to `offline`, `online` and `removed`. One-shot timers that
run although no queue holds them any more are kept in `ev.stray`, so that losing
one is visible. A value is an integer; `ValueType` says which comparison is used. It
is a constant, so a configuration that changes the value type of an item
(`device_update_config_data_item`) is not followed here.
`device_start` takes new events for all items, since the device file need not
agree with what was in memory (see ConfigStore). A publication that fails
(`PublishFaults`) is logged and forgotten, with `sent_val` already set.

### ConfigStore

A data item, in memory and in the file, is a function on the parameters it has.
The four schema keys hold the schema they were written from, so an update that
stops half way leaves a mixture that `knot_schema_is_valid` (external) refuses.
`todo` holds what the handler has still to write, `Place` the order of the
writes. Each `storage_write_key_*` saves the whole l_settings; a failed save
leaves the file as it was or empty, and so does a process that ends in the middle
of one.

`update_event_data_item` tests `!storage_has_unit` before it removes the key of an
event that is not used any more, so it removes nothing; the model does the same,
which is why `FileFollowsMemory` says that what is in memory is in the file, and
not the converse. A threshold that was left behind comes back at the next start, and
together with a new one it can be out of order, in which case `set_event` refuses the
item. `ItemsStayLoadable` says that this, thresholds that were already out of order in
the message, and a value type that does not fit the bit offset are the only ways in
which an applied configuration leaves an item that does not load.

### ModbusLink and ModbusInterface

`connect_to` and `modbus_io` are null, armed or expired, and null, watched or
closed. `socket` is whether the libmodbus context has one and `open_sockets` counts
what the process has open, so that a path that forgets to close shows. A url is a
record of what `create_ctx` looks at; `errno`, which the code negates whether or not
anything set it, is modelled with the values it can have, so that the daemon that
runs without a context (a malformed url) is a reachable state. A value is eight
bytes; masks and shifts are modelled by where they move each byte, and the slave
(external) lays its registers out as the name of the byte order says. `seen` is a
history variable: what the slave kept at the source when it was last read, so that
`ReadsWhatSlaveKeeps` is an invariant over reads that fail, links that flap and
values that move on.

`iface_modbus_read_data` corrects the order of 32 and 64 bits only. A source of one
register (16 bits) is taken as libmodbus delivers it, although
`set_modbus_source_properties` demands `ModbusTypeEndianness` for every item. So
with the two orders that exchange the bytes of a register (mid-big and little) its
bytes come out exchanged. `ReadsWhatSlaveKeeps` names that exception
(`OneRegisterExchanged`), and `OneRegisterNotCorrected` proves what the code does in
it. `ModbusTypeEndianness` is not range-checked either; a number outside 1..4 gets no
correction, as mid-little does, and is not a case of its own.

A start that fails after `create_ctx` leaves the context made, as
`iface_modbus_start` does; `main` exits then, so nothing is reached from there but
a new process.

Assumed of the libraries: an l_io whose disconnect handler ran does not run it
again, and the kernel tells of a connection that broke. A slave that is silent
without closing makes reads fail, which `Read(FALSE)` covers.

### Daemon

`Session` is extended and keeps its variables; `ModbusLink` and `Telemetry` are
instances over the daemon's own. A callback of `Daemon` joins what each part does
in the same call: `on_disconnected` stops the polling, clears the bit in
`conn_mask`, runs the state machine, stops the sensor events and re-arms the
connect timer in one step. The refinement mappings are

| abstract | in the daemon |
|---|---|
| `session` of Telemetry (`OnlineOrNot`) | online in `ST_ONLINE`; removed where events are still active outside it; else offline |
| `modbus_up` of Telemetry, `up` of ModbusLink (`ModbusUp`) | the MODBUS bit of `conn_mask` |
| `ev` of Telemetry (`Events`) | `active` of the session, with the sensor timers |

So the free session of Telemetry and the free links of Session, which the component
models assume, are shown to be what the other components really provide.

## 3. Runs

| run | instance | shows |
|---|---|---|
| `session_loose` | 2 ids, any message for any id, losses, every write fault, crashes, `EVT_REG_PERM` | `TypeOK`, `TimerArmed` |
| `session_strict` | 3 ids, strict routing, subscriptions and saves that fail, crashes, two messages at a time | `OnlineAuthorised`, `LinkState`, `EventsFollowSession`, `SessionPersisted`, `ImplementsMembership` |
| `session_live` | 2 ids that can be drawn again, two requests at a time, fairness, saves succeed | `CredentialsMatch`, `IdentityKept`, `ResendsUntilAnswered`, `EventuallySettles` |
| `telemetry` | 2 items, 3 values, reads may fail | `TypeOK`, `PollAlive`, `TimersMatchConfig`, `BehindOnlyAtSentValue`, `CaughtUpStays` |
| `telemetry_live` | 1 item, 3 values, reads and publications may fail, fairness | `TimedReported`, `AlarmReported` |
| `config_update` | 2 items, 2 schemas, saves may fail, crashes | `TypeOK`, `FileFollowsMemory`, `ItemsStayLoadable`, `OthersUntouched` |
| `modbus` | 6 urls, every width with every byte order, 2 values without equal bytes, every failure, fairness | `IfaceTypeOK`, `LinkOrTimer`, `SocketsNotLeaked`, `ReadsWhatSlaveKeeps`, `Reconnects` |
| `daemon` | 2 ids, 1 item, 2 values, 2 event configurations, all components | `OnlineIsServed`, `DataOnlyAuthorised`, `ImplementsTelemetry`, `ImplementsLink` |
| `telemetry_lost_change` | 1 item with EventChange only | violates `ChangeReported` |
| `telemetry_wide` | 1 UINT item with a lower threshold | violates `AlarmReported` |
| `config_restart` | 1 item | violates `StartsAgain` |
| `modbus_rtu` | the two urls of the example device file | violates `DocumentedUrlStarts` |

Run one with `tlc -workers 2 -config <run>.cfg <MC module>`.

**Bounds.** Two ids are enough for a current and a previous one, which is all the
code can confuse: it keeps one id, and an answer is either for it or not. With
fresh ids three are needed, since one is used up by each registration. Two requests
or two messages let a retry and a late answer coexist. Two items show that an
operation on one leaves the other alone; three values put one below, on and above a
threshold. The daemon has one item and one message at a time: it is about how the
parts fit, and its steps are those of the components, which are checked with more.
The safety theorems below hold without these bounds.

**Symmetry** is over ids or items, and only in runs without liveness properties.
The refinements are safety. Those of `daemon` have abstract specifications that do
not mention ids; `Membership` does, and treats all ids alike.

**Fairness.** `LiveSpec` of Session: the main loop runs an expired timer and takes
a message that is there (weak fairness), the broker drops messages for ids that
nobody reads, and a request that is sent again and again is answered (strong
fairness per type of request, since a retry can find the bound full). `session_live`
has no losses: what a lost message could break is the retry timer, and that
`session_loose` checks (`TimerArmed`), with losses. Nothing is
assumed of links, restarts or the kind of answer. `LiveSpec` of Telemetry: timers
expire, and of the reads and publications that are repeated for ever one succeeds
now and then (strong fairness). `IfaceLiveSpec`: the main loop runs the disconnect
handler, and a slave that is tried again and again accepts at last (weak fairness:
an attempt that failed leaves the timer armed). The code justifies the first kind
with the main loop; the rest is the environment, and without it nothing could be
promised.

**What the violations show** (details with quotations in `PROJECT.json`):

1. `enter_online` publishes `current_val` without setting `sent_val`. A value that
   then returns to the old `sent_val` is never published.
2. `compare_knot_value` returns 1 for UINT, INT64 and UINT64. Their lower threshold
   never reports; the upper one and the change flag always do.
3. `get_data_item_groups` deletes the other groups from the l_settings that are
   saved later. After the first configuration update the device file has no
   `[KNoTThing]` and the next start fails.
4. `create_rtu` splits a serial url into the port and its line settings, and then
   opens the name with the settings still in it. A slave on a serial port, as the
   example device file has it, cannot be started.

The last three are more than a counterexample: `OtherTypesNotCompared`,
`EveryWriteUnloads` and `SerialNeverConnects` prove of every instance what the code
does there.

Also met while reading, not stated as runs: the inverted `!storage_has_unit` test
above; the example `confs/device.conf` lacks `ModbusTypeEndianness`, which
`set_modbus_source_properties` requires; `EventChange = 0` enables the flag
(`set_event` looks only at whether the key can be read); a url of no known form
makes `iface_modbus_start` return a positive value, so `device_start` goes on
without a Modbus context (`LinkOrTimer` names that case); the byte order of a
single register is read from the device file and not used; the tests do not compile
against the current sources.

## 4. Proofs

The theorems hold for every set of ids, items, values, urls and configurations and
for every bound. Assumptions on constants are named next to their declaration and
are evaluated by TLC in the runs.

*Session.* Each invariant is first shown to be preserved by `sm_input_event`, one
step per state of the machine, then by each callback, then by the cloud's steps,
which leave the thing alone.

- `TypeCorrect`, `TimerAlwaysArmed` hold without further assumption. `TimerArmed`
  is inductive together with the type invariant: an expired timer exists only
  inside a callback, and every branch re-arms or removes it.
- `LinksFollowed`, `EventsFollowed`, `SessionAlwaysPersisted` assume
  `~PermissionEvents`. `EVT_REG_PERM` would register again with events still active
  and with links that may be down; no code raises it. The inductive invariant
  (`SessionInv`) adds that a thing in `ST_REGISTER` has no token.
- `IdentityAlwaysKept` also assumes `~Crashes`: a process that ends within a save
  may leave a file that has lost the pair.
- `AlwaysAuthorised` assumes `StrictRouting` and `~ReadStartFails`. The invariant is
  strengthened by `ListensToOwnId` (in a waiting or online state `sub` is
  `thing.id`) and `AnswersHonest` (a positive AUTH answer on its way is for an
  authenticated id).
- `AuthorisedWithoutSubscription` lets subscriptions fail and assumes `FreshIds` and
  `~PermissionEvents` instead. The thing may then listen to an id it has given up and
  store a token with an id that is not its own, so `ListensToOwnId` is false. What
  saves it (`FreshInv`): the id it still listens to was fresh when it was drawn and
  was given up before it had a token, so nobody asked the cloud to authenticate it
  and no answer about it can be taken for the thing's own.
- `CredentialsAlwaysMatch` also assumes that saves succeed and no crash comes
  between them. Besides `ListensToOwnId` it needs `NoTokenOutside`: a thing that
  registers has no token.

*Membership.*

- `TokenAlwaysHeld` needs no assumption: a thing past its registration has a token.
  Only a registration answer brings the thing there, and `RegistersNamed` says that
  none carries an empty token.
- `SessionImplementsMembership` assumes `StrictRouting`, `~PermissionEvents`, and
  either fresh ids or subscriptions that succeed, and no more: any save may fail and
  the process may end anywhere. `SmMember`, state by state, maps `sm_input_event` to a
  step or a stutter, `StartMember` maps the starts, with the files an interrupted save
  can leave, `CloudMember` the steps of the cloud. `KnownInv` collects the invariants
  this takes: the abstract `Admit` wants a name that was accepted, which is
  `OnlineAuthorised`, and a member, which is `TokenOnceRegistered`; `Connect` and
  `Disconnect` need `LinkState`; that `Restart` keeps a member is `SessionPersisted`.

*Telemetry.* `TypeCorrect`, `PollStaysAlive`, `TimersAlwaysMatchConfig` (with
`OfflineHasNoTimers`: only an online or removed thing has timers),
`AlwaysBehindOnlyAtSentValue`, `CaughtUpAlwaysStays`, and `CheckIsDocumented`: for
INT, FLOAT and BOOL `event_check_value` is what `device.conf` describes, for all
integers. `OtherTypesNotCompared` is its counterpart: for the remaining types it
depends on the flags alone.

*ConfigStore.* `TypeCorrect`, `FileAlwaysFollows` and `OthersNeverTouched` rest on
`ConfigInv`. In the middle of an update the file and memory differ, so
`FileFollowsMemory` is not inductive; `FileOrTodo` is: a parameter in memory is in
the file or still in `todo`. `SettingsAreFile` and `SettingsKeepOthers` say what the
open l_settings have to do with the file that each save replaces.
`ItemsAlwaysLoadable` and `EveryWriteUnloads` add `LoadInv`: the schemas in memory are
valid (`MemoryValid`), no save loses the keys of the Modbus source (`SourcesKept`),
and open l_settings have lost `[KNoTThing]` (`ThingDropped`). The second is an action
property: a step that changes the device file leaves one that `set_thing_properties`
refuses, and no later step repairs it.

*Modbus.* `LinkInv` (in LinkProofs, so that the daemon can use it) is the type
invariant, `LinkOrTimer` and `SocketsNotLeaked`, with two facts they need: a
process that does not run has neither timer nor socket, and an l_io belongs to a
context. `InterfaceTypeCorrect`, `LinkOrTimerAlways` and `SocketsNeverLeaked` follow
from it. `ReadsAlwaysHeld` needs the types and `Decoded`, which says of
each kind of source how `out` follows from `seen`: two lemmas show, byte by byte, that
the corrections undo each of the four orders at 32 and 64 bits, for all values; a
third that the eight bits of a byte are put together again. The other half of
`Decoded` is `OneRegisterNotCorrected`: a 16-bit source in mid-big or little order
always has its two bytes exchanged. `SerialNeverConnects` assumes
that no file in /dev has line settings in its name; then a serial url never gets a
context.

*Daemon.* Each callback is shown to be a step of the abstract module or to leave its
variables alone.

- `DaemonImplementsLink` holds without assumption, and carries `LinkInv` over.
- `DaemonImplementsSession` (`~PermissionEvents`) needs it: the link callbacks are
  steps of `conn_handler` only because the connect loop never reports the slave as
  up twice, or as down when it was not up.
- `DataAlwaysAuthorised` (with `StrictRouting`, `~PermissionEvents`, and fresh ids or
  subscriptions that succeed) follows from `OnlineAuthorised` and the fact that data leaves only from `ST_ONLINE`.
- `DaemonImplementsTelemetry` (`~PermissionEvents`) uses the session's invariants
  `LinkState` and `EventsFollowSession`: a thing comes online only with the slave
  connected, and no event of the state machine leaves timers behind.
- `TelemetryHoldsInDaemon` (`~PermissionEvents`) carries what was proved of Telemetry
  over the refinement to the daemon.
- `OnlineAlwaysServed` (`~PermissionEvents`) puts the parts together: `LinkInv`,
  `LinkState`, `EventsFollowSession`, `TimerArmed`, `PollAlive` and
  `TimersMatchConfig` give `OnlineIsServed`, which no part could state alone.

Only model-checked: the liveness properties `ResendsUntilAnswered`,
`EventuallySettles`, `TimedReported`, `AlarmReported` and `Reconnects` (fairness and
ENABLED are out of the prover's reach). Every other property of the passing runs is
stated by a theorem.

## 5. Not modelled

- `main.c` and `settings.c`: option parsing, logging, daemonising and the signal that
  ends the main loop run straight through, with no state that outlives them. What
  they call, `device_start` and `device_destroy`, is in ModbusLink and Daemon.
- Value parsing, the lengths of names, groups that are no `DataItem_<n>`, and
  `cloud.conf`, which is only read.
- A big-endian host: the corrections of the byte order assume a little-endian one,
  and so does ByteOrder.
- A short write: `save_settings` and the credentials take any `pwrite` that is not
  negative for a success, so a file cut off by a full disk would go unnoticed. In the
  model a save succeeds whole or is reported.
- Missing and duplicate sensor ids (`set_sensor_id`): items are keyed by their id.
- What happens after the null pointer of an unreadable credentials file.
- Events that carry data for actuators (`EVT_DATA_UPDT`) do nothing in the code, and
  nothing in the model.

## 6. Plan

The most important behaviour came first: session and credentials, telemetry,
configuration, then the Modbus interface, then the daemon that composes them.
Left: ConfigStore as a part of Daemon, so that the events Telemetry takes at a restart
are those of the device file.
