----------------------------- MODULE Telemetry -----------------------------
(***************************************************************************)
(* From the Modbus registers to the cloud: the polling of the data items   *)
(* (poll.c), the sensor events (event.c) and the part of device.c that     *)
(* joins them (on_modbus_poll_receive, on_event_timeout, publication and   *)
(* configuration).  Of the session (module Session) only what matters here *)
(* is kept: whether the thing is online, and whether it was removed while  *)
(* it was.                                                                 *)
(*                                                                         *)
(* The poll timers and the sensor timers are one-shot ell timeouts: one    *)
(* that expired runs again only after l_timeout_modify.                    *)
(***************************************************************************)
EXTENDS EventCheck, FiniteSets

CONSTANTS
    Items,          \* the data items, by sensor id
    Values,         \* the values a register can hold
    EventConfigs,   \* the events a data item can be configured with
    ValueType,      \* the value type of the data items
    NoValue,        \* the cloud has received nothing yet
    PublishFaults,  \* whether knot_cloud_publish_data can fail
    ReadFaults      \* whether a Modbus read can fail

ASSUME TelemetryAssumption ==
    /\ Values \subseteq Int
    /\ 0 \in Values
    /\ NoValue \notin Values
    /\ ValueType \in ValueTypes
    /\ EventConfigs \subseteq [flags : SUBSET Flags, lower : Int, upper : Int]
    /\ PublishFaults \in BOOLEAN
    /\ ReadFaults \in BOOLEAN

VARIABLES
    session,          \* what Telemetry sees of current_state
    modbus_up,        \* the Modbus connection
    poll_active,      \* poll.c's active
    poll_to,          \* the timer of each poll entry
    ev,               \* the state of event.c: active, sensor_timeouts, and the
                      \*   timers that run although they are in no queue
    event,            \* data_item->event
    current_val,      \* data_item->current_val
    sent_val,         \* data_item->sent_val
    register,         \* what a read of the item's register returns
    cloud_val         \* the last value of the item the cloud was sent

poll_vars == <<poll_active, poll_to>>
vars      == <<session, modbus_up, poll_vars, ev, event, current_val, sent_val,
               register, cloud_val>>

EventStates ==
    [active : BOOLEAN, sensor_timeouts : SUBSET Items, stray : SUBSET Items]

TypeOK ==
    /\ session \in {"offline", "online", "removed"}
    /\ modbus_up \in BOOLEAN
    /\ poll_active \in BOOLEAN
    /\ poll_to \in [Items -> {"idle", "armed"}]
    /\ ev \in EventStates
    /\ event \in [Items -> EventConfigs]
    /\ current_val \in [Items -> Values]
    /\ sent_val \in [Items -> Values]
    /\ register \in [Items -> Values]
    /\ cloud_val \in [Items -> Values \cup {NoValue}]
-----------------------------------------------------------------------------
(***************************************************************************)
(* Publication: on_publish_data for each item of a list.  A failure is     *)
(* logged and otherwise ignored.                                           *)
(***************************************************************************)

device_publish_data_list(items, values) ==
    \E failed \in IF PublishFaults THEN SUBSET items ELSE {{}} :
        cloud_val' = [i \in Items |-> IF i \in items \ failed THEN values[i]
                                                              ELSE cloud_val[i]]

\* sm_input_event(EVT_PUB_DATA, items): the items are published in ST_ONLINE.
PublishIfOnline(items, values) ==
    \/ session = "online" /\ device_publish_data_list(items, values)
    \/ session # "online" /\ UNCHANGED cloud_val
-----------------------------------------------------------------------------
(***************************************************************************)
(* event.c.                                                                *)
(***************************************************************************)

\* The items event_add_data_item creates a timer for.
Timed(events) == {i \in Items : "TIMEOUT" \in events[i].flags}

\* event_start and event_add_data_item for every item: the queue is new, and the
\* timers of the old one, if it was still there, run on without a queue.
device_start_event(e, events) ==
    [active |-> TRUE, sensor_timeouts |-> Timed(events),
     stray |-> e.stray \cup e.sensor_timeouts]

\* Mutant: the queue is dropped but its timers are not removed.
StopKeepsTimers(e) ==
    [active |-> FALSE, sensor_timeouts |-> {}, stray |-> e.stray \cup e.sensor_timeouts]

event_stop(e) == [active |-> FALSE, sensor_timeouts |-> {}, stray |-> e.stray]

\* Mutant: the timer of the item is used up by its first expiry.
SensorTimerOnce(i) ==
    /\ i \in ev.sensor_timeouts \cup ev.stray
    /\ PublishIfOnline({i}, current_val)
    /\ ev' = [ev EXCEPT !.sensor_timeouts = @ \ {i}]
    /\ UNCHANGED <<session, modbus_up, poll_vars, event, current_val, sent_val, register>>

\* on_sensor_to and on_event_timeout: the value last read is published, and the
\* timer runs again.
on_sensor_to(i) ==
    /\ i \in ev.sensor_timeouts \cup ev.stray
    /\ PublishIfOnline({i}, current_val)
    /\ UNCHANGED <<session, modbus_up, poll_vars, ev, event, current_val,
                   sent_val, register>>
-----------------------------------------------------------------------------
(***************************************************************************)
(* poll.c.                                                                 *)
(***************************************************************************)

\* Mutant: only active is set.
StartWithoutTimers ==
    /\ poll_active' = TRUE
    /\ UNCHANGED poll_to

\* poll_timer_start for every entry.
poll_start ==
    /\ poll_active' = TRUE
    /\ poll_to' = [i \in Items |-> "armed"]

poll_stop ==
    /\ poll_active' = FALSE
    /\ UNCHANGED poll_to

\* Mutant: the value is recorded as sent before it is compared with sent_val.
RecordedFirst(i, ok) ==
    LET value == IF ok THEN register[i] ELSE current_val[i]
    IN  /\ current_val' = [current_val EXCEPT ![i] = value]
        /\ sent_val' = [sent_val EXCEPT ![i] = value]
        /\ UNCHANGED cloud_val

\* A failed read leaves current_val as it was and the event is checked all the
\* same.  sent_val is set whether or not the value can then be published.
on_modbus_poll_receive(i, ok) ==
    LET value == IF ok THEN register[i] ELSE current_val[i]
    IN  /\ current_val' = [current_val EXCEPT ![i] = value]
        /\ \/ /\ event_check_value(ev.active, event[i], value, sent_val[i], ValueType) > 0
              /\ sent_val' = [sent_val EXCEPT ![i] = value]
              /\ PublishIfOnline({i}, current_val')
           \/ /\ event_check_value(ev.active, event[i], value, sent_val[i], ValueType) <= 0
              /\ UNCHANGED <<sent_val, cloud_val>>

\* The result of the read is not used: the timer runs again in any case.  When
\* polling was stopped it does not run again before poll_start.
on_poll_timeout(i, ok) ==
    /\ poll_to[i] = "armed"
    /\ \/ /\ poll_active
          /\ on_modbus_poll_receive(i, ok)
          /\ UNCHANGED poll_to
       \/ /\ ~poll_active
          /\ poll_to' = [poll_to EXCEPT ![i] = "idle"]
          /\ UNCHANGED <<current_val, sent_val, cloud_val>>
    /\ UNCHANGED <<session, modbus_up, poll_active, ev, event, register>>
-----------------------------------------------------------------------------
(***************************************************************************)
(* Links and session.                                                      *)
(***************************************************************************)

on_modbus_connected ==
    /\ ~modbus_up
    /\ modbus_up' = TRUE
    /\ poll_start
    /\ UNCHANGED <<session, ev, event, current_val, sent_val, register, cloud_val>>

\* EVT_NOT_READY: an online thing goes offline; a removed one stays removed.
LeaveOnline ==
    \/ /\ session = "online"
       /\ session' = "offline"
       /\ ev' = event_stop(ev)
    \/ /\ session # "online"
       /\ UNCHANGED <<session, ev>>

on_modbus_disconnected ==
    /\ modbus_up
    /\ modbus_up' = FALSE
    /\ poll_stop
    /\ LeaveOnline
    /\ UNCHANGED <<event, current_val, sent_val, register, cloud_val>>

on_cloud_disconnected ==
    /\ session = "online"
    /\ LeaveOnline
    /\ UNCHANGED <<modbus_up, poll_vars, event, current_val, sent_val, register, cloud_val>>

\* Mutant: the values are not published on the way in.
OnlineWithoutPublish ==
    /\ session = "offline"
    /\ modbus_up
    /\ session' = "online"
    /\ ev' = device_start_event(ev, event)
    /\ UNCHANGED <<modbus_up, poll_vars, event, current_val, sent_val, register, cloud_val>>

\* ST_CONFIG to ST_ONLINE: all items are published and the events start; sent_val
\* is not touched.
enter_online ==
    /\ session = "offline"
    /\ modbus_up
    /\ session' = "online"
    /\ device_publish_data_list(Items, current_val)
    /\ ev' = device_start_event(ev, event)
    /\ UNCHANGED <<modbus_up, poll_vars, event, current_val, sent_val, register>>

\* EVT_UNREG_REQ in ST_ONLINE: the events are not stopped.
enter_unregister ==
    /\ session = "online"
    /\ session' = "removed"
    /\ UNCHANGED <<modbus_up, poll_vars, ev, event, current_val, sent_val,
                   register, cloud_val>>

\* EVT_CFG_UPT_OK in ST_ONLINE; events is the configuration after the list of
\* updates was applied.
device_update_config(events) ==
    /\ session = "online"
    /\ event' = events
    /\ ev' = device_start_event(event_stop(ev), events)
    /\ UNCHANGED <<session, modbus_up, poll_vars, current_val, sent_val, register,
                   cloud_val>>

\* A REQUEST_MSG of the cloud names the items it wants.
DataRequested(items) ==
    /\ session = "online"
    /\ device_publish_data_list(items, current_val)
    /\ UNCHANGED <<session, modbus_up, poll_vars, ev, event, current_val,
                   sent_val, register>>

\* Mutant: the data items are allocated without being cleared.
ItemsNotCleared ==
    /\ session' = "offline"
    /\ modbus_up' = FALSE
    /\ poll_active' = FALSE
    /\ poll_to' = [i \in Items |-> "idle"]
    /\ ev' = [active |-> FALSE, sensor_timeouts |-> {}, stray |-> {}]
    /\ event' \in [Items -> EventConfigs]
    /\ current_val' = [i \in Items |-> NoValue]
    /\ sent_val' = [i \in Items |-> NoValue]
    /\ UNCHANGED <<register, cloud_val>>

\* The process starts again with new data items.  Their events are those of the
\* device file, which need not be the ones the process had in memory.
device_start ==
    /\ session' = "offline"
    /\ modbus_up' = FALSE
    /\ poll_active' = FALSE
    /\ poll_to' = [i \in Items |-> "idle"]
    /\ ev' = [active |-> FALSE, sensor_timeouts |-> {}, stray |-> {}]
    /\ event' \in [Items -> EventConfigs]
    /\ current_val' = [i \in Items |-> 0]
    /\ sent_val' = [i \in Items |-> 0]
    /\ UNCHANGED <<register, cloud_val>>

\* The sensor behind a register (external).
RegisterChanges(i, value) ==
    /\ register[i] # value
    /\ register' = [register EXCEPT ![i] = value]
    /\ UNCHANGED <<session, modbus_up, poll_vars, ev, event, current_val,
                   sent_val, cloud_val>>
-----------------------------------------------------------------------------
Init ==
    /\ session = "offline"
    /\ modbus_up = FALSE
    /\ poll_active = FALSE
    /\ poll_to = [i \in Items |-> "idle"]
    /\ ev = [active |-> FALSE, sensor_timeouts |-> {}, stray |-> {}]
    /\ event \in [Items -> EventConfigs]
    /\ current_val = [i \in Items |-> 0]
    /\ sent_val = [i \in Items |-> 0]
    /\ register \in [Items -> Values]
    /\ cloud_val = [i \in Items |-> NoValue]

ReadOutcomes == IF ReadFaults THEN BOOLEAN ELSE {TRUE}

Next ==
    \/ on_modbus_connected
    \/ on_modbus_disconnected
    \/ on_cloud_disconnected
    \/ enter_online
    \/ enter_unregister
    \/ device_start
    \/ \E events \in [Items -> EventConfigs] : device_update_config(events)
    \/ \E items \in SUBSET Items : DataRequested(items)
    \/ \E i \in Items : on_sensor_to(i)
    \/ \E i \in Items, ok \in ReadOutcomes : on_poll_timeout(i, ok)
    \/ \E i \in Items, value \in Values : RegisterChanges(i, value)

Spec == Init /\ [][Next]_vars
-----------------------------------------------------------------------------
(***************************************************************************)
(* What is promised.                                                       *)
(***************************************************************************)

\* While the slave is connected every data item is polled: the timers that ran
\* out while polling was stopped (on_poll_timeout returns early) all run again
\* after poll_start, and those that did not are not disturbed.
PollAlive ==
    /\ poll_active = modbus_up
    /\ poll_active => \A i \in Items : poll_to[i] = "armed"

\* While events are active each item has the timer its current configuration
\* asks for and no other one runs, through every disconnection, configuration
\* update and removal: event_start never finds a queue it would lose.
TimersMatchConfig ==
    /\ session = "online" => ev.active
    /\ ev.sensor_timeouts = IF ev.active THEN Timed(event) ELSE {}
    /\ ev.stray = {}

\* With EventChange configured, and publications that do not fail, an online
\* thing leaves the cloud behind only at the value it has recorded in sent_val.
BehindOnlyAtSentValue ==
    /\ session = "online"
    /\ ~PublishFaults
    /\ \A e \in EventConfigs : "CHANGE" \in e.flags
    => \A i \in Items : current_val[i] \in {cloud_val[i], sent_val[i]}

\* From the first publication of a change on, none is missed for the rest of the
\* session: once the cloud has the value recorded in sent_val, the cloud, sent_val
\* and current_val of the item move together, through polls, failed reads, sensor
\* timers, requests and configuration updates.
CaughtUpStays ==
    [][/\ session = "online" /\ session' = "online"
       /\ ~PublishFaults
       /\ \A e \in EventConfigs : "CHANGE" \in e.flags
       => \A i \in Items : cloud_val[i] = sent_val[i]
                            => cloud_val'[i] = sent_val'[i] /\ current_val'[i] = sent_val'[i]]_vars
-----------------------------------------------------------------------------
(***************************************************************************)
(* Progress.  The main loop runs expired timers; of the reads that are     *)
(* repeated for ever, and of the publications, one succeeds now and then.  *)
(***************************************************************************)

Reported(i) == cloud_val'[i] = current_val'[i]

LiveSpec ==
    /\ Spec
    /\ \A i \in Items : SF_vars(on_poll_timeout(i, TRUE))
    /\ \A i \in Items : SF_vars(on_poll_timeout(i, TRUE) /\ Reported(i))
    /\ \A i \in Items : SF_vars(on_sensor_to(i) /\ Reported(i))

\* The thing stays online and the register of the item keeps the value.
Steady(i, value) == session = "online" /\ register[i] = value

\* An item with EventTimeSec ends up at the cloud with the value its register
\* keeps, whatever happened to the two before, and although publications fail.
TimedReported ==
    \A i \in Items, value \in Values :
        <>[](Steady(i, value) /\ "TIMEOUT" \in event[i].flags)
        => <>[](cloud_val[i] = value)

\* So does an item whose value stays beyond a threshold that is configured: that
\* sent_val holds the value, published or not, does not keep it from being sent.
AlarmReported ==
    \A i \in Items, value \in Values :
        <>[](/\ Steady(i, value)
             /\ \/ "LOWER" \in event[i].flags /\ value < event[i].lower
                \/ "UPPER" \in event[i].flags /\ value > event[i].upper)
        => <>[](cloud_val[i] = value)

\* "This data item will send a publish data event [...] when its value has
\* changed" (confs/device.conf): an item with EventChange ends up at the cloud
\* with the value its register keeps.
ChangeReported ==
    \A i \in Items, value \in Values :
        <>[](Steady(i, value) /\ "CHANGE" \in event[i].flags)
        => <>[](cloud_val[i] = value)
=============================================================================
