------------------------------- MODULE Daemon -------------------------------
(***************************************************************************)
(* The whole daemon: the session (Session), the connection to the slave    *)
(* (ModbusLink) and the data path (Telemetry) in one process.  Session is  *)
(* extended, so the variables of the session are the daemon's own; the     *)
(* other two are instances, from which only the operations that the        *)
(* callbacks call are taken.  A callback here is what the code does from   *)
(* the timer or the socket down: the link or poll timer, the device, the   *)
(* state machine, and back to events, data items and publications.         *)
(*                                                                         *)
(* Each of the two instances is also the abstract specification of what    *)
(* the daemon does to its part: ImplementsTelemetry and ImplementsLink.    *)
(***************************************************************************)
EXTENDS Session

CONSTANTS
    Items, Values, EventConfigs, ValueType, NoValue, PublishFaults, ReadFaults,
    Urls, DevFiles, StartFaults

VARIABLES
    proc, url, modbus_ctx, connect_to, modbus_io, socket, open_sockets, peer,
    poll_active, poll_to, sensor_timeouts, stray, event, current_val, sent_val,
    register, cloud_val

\* What the data path sees of the session: a thing that was removed while it was
\* online still has its events.
OnlineOrNot ==
    CASE state = "ST_ONLINE"              -> "online"
      [] state # "ST_ONLINE" /\ active    -> "removed"
      [] state # "ST_ONLINE" /\ ~active   -> "offline"

ModbusUp == "MODBUS" \in conn_mask

Events == [active |-> active, sensor_timeouts |-> sensor_timeouts, stray |-> stray]

T == INSTANCE Telemetry WITH session <- OnlineOrNot, modbus_up <- ModbusUp, ev <- Events

L == INSTANCE ModbusLink WITH up <- ModbusUp

ASSUME DaemonAssumption == T!TelemetryAssumption /\ L!LinkAssumption

\* Of ModbusLink's variables, those that Session does not have.
link_state == <<proc, url, modbus_ctx, connect_to, modbus_io, socket, open_sockets, peer>>
item_vars  == <<sensor_timeouts, stray, event, current_val, sent_val, cloud_val>>
data_vars  == <<poll_active, poll_to, item_vars, register>>
daemon_vars == <<vars, link_state, data_vars>>
-----------------------------------------------------------------------------
(***************************************************************************)
(* What an event of the state machine does to the data items.  "items" are *)
(* those the event names, "events" the configuration it brings.            *)
(***************************************************************************)

TimersAre(e) == sensor_timeouts' = e.sensor_timeouts /\ stray' = e.stray

sm_data(evt, items, events) ==
    \/ /\ state = "ST_CONFIG" /\ evt = "EVT_CFG_UPT_OK"
       /\ T!device_publish_data_list(Items, current_val)
       /\ TimersAre(T!device_start_event(Events, event))
       /\ UNCHANGED event
    \/ /\ state = "ST_ONLINE" /\ evt = "EVT_NOT_READY"
       /\ TimersAre(T!event_stop(Events))
       /\ UNCHANGED <<event, cloud_val>>
    \/ /\ state = "ST_ONLINE" /\ evt = "EVT_PUB_DATA"
       /\ T!device_publish_data_list(items, current_val')
       /\ UNCHANGED <<sensor_timeouts, stray, event>>
    \/ /\ state = "ST_ONLINE" /\ evt = "EVT_CFG_UPT_OK"
       /\ event' = events
       /\ TimersAre(T!device_start_event(T!event_stop(Events), events))
       /\ UNCHANGED cloud_val
    \/ /\ \/ state \notin {"ST_CONFIG", "ST_ONLINE"}
          \/ state = "ST_CONFIG" /\ evt # "EVT_CFG_UPT_OK"
          \/ state = "ST_ONLINE"
             /\ evt \notin {"EVT_NOT_READY", "EVT_PUB_DATA", "EVT_CFG_UPT_OK"}
       /\ UNCHANGED <<sensor_timeouts, stray, event, cloud_val>>

\* A link callback: conn_handler, and what its event does to the data items.
link_handler(conn, is_up) ==
    /\ conn_handler(conn, is_up)
    /\ sm_data(IF conn_mask' = CONN_TYPE THEN "EVT_READY" ELSE "EVT_NOT_READY", {}, event)
    /\ UNCHANGED <<current_val, sent_val, register>>
-----------------------------------------------------------------------------
(***************************************************************************)
(* The callbacks.                                                          *)
(***************************************************************************)

CloudLink(is_up) ==
    /\ proc = "running"
    /\ is_up <=> "CLOUD" \notin conn_mask
    /\ link_handler("CLOUD", is_up)
    /\ UNCHANGED <<link_state, poll_active, poll_to>>

\* Mutant: polling is not started again.
ConnectedOnlyToSession ==
    /\ link_handler("MODBUS", TRUE)
    /\ UNCHANGED <<poll_active, poll_to>>

on_modbus_connected ==
    /\ T!poll_start
    /\ link_handler("MODBUS", TRUE)

\* Mutant: the device is not told.
DisconnectedOnlyPolling ==
    /\ T!poll_stop
    /\ UNCHANGED <<vars, item_vars, register>>

on_modbus_disconnected ==
    /\ T!poll_stop
    /\ link_handler("MODBUS", FALSE)

attempt_connect(ok) ==
    /\ connect_to = "armed"
    /\ \/ ok /\ L!Connect /\ on_modbus_connected
       \/ ~ok /\ L!Retry /\ UNCHANGED <<vars, data_vars>>
    /\ UNCHANGED <<proc, url>>

on_disconnected ==
    /\ peer = "gone"
    /\ on_modbus_disconnected
    /\ L!Disconnect
    /\ UNCHANGED <<proc, url>>

MessageTimeout ==
    /\ proc = "running"
    /\ on_msg_timeout
    /\ UNCHANGED <<link_state, data_vars>>

\* A message: a request names the items it wants, a configuration brings events.
CloudMessage(msg) ==
    /\ proc = "running"
    /\ UNCHANGED <<link_state, poll_active, poll_to, current_val, sent_val, register>>
    /\ on_cloud_receive(msg)
    /\ \E items \in SUBSET Items, events \in [Items -> EventConfigs] :
          sm_data(CloudEvent(msg), items, events)

\* EVT_PUB_DATA for one item.
PublishItem(i) ==
    /\ sm_input_event("EVT_PUB_DATA", None)
    /\ sm_data("EVT_PUB_DATA", {i}, event)
    /\ UNCHANGED <<conn_mask, cloud_vars>>

on_sensor_to(i) ==
    /\ proc = "running"
    /\ i \in sensor_timeouts \cup stray
    /\ UNCHANGED <<link_state, poll_active, poll_to, current_val, sent_val, register>>
    /\ PublishItem(i)

\* A read can fail, and does when the slave is gone.
on_modbus_poll_receive(i, ok) ==
    LET value == IF ok THEN register[i] ELSE current_val[i]
        check == T!event_check_value(active, event[i], value, sent_val[i], ValueType)
    IN  /\ ok => peer = "alive"
        /\ current_val' = [current_val EXCEPT ![i] = value]
        /\ \/ /\ check > 0
              /\ sent_val' = [sent_val EXCEPT ![i] = value]
              /\ PublishItem(i)
           \/ /\ check <= 0
              /\ UNCHANGED <<sent_val, sensor_timeouts, stray, event, cloud_val, vars>>

on_poll_timeout(i, ok) ==
    /\ proc = "running"
    /\ poll_to[i] = "armed"
    /\ \/ /\ poll_active
          /\ on_modbus_poll_receive(i, ok)
          /\ UNCHANGED poll_to
       \/ /\ ~poll_active
          /\ poll_to' = [poll_to EXCEPT ![i] = "idle"]
          /\ UNCHANGED <<item_vars, vars>>
    /\ UNCHANGED <<poll_active, register, link_state>>
-----------------------------------------------------------------------------
(***************************************************************************)
(* The process.                                                            *)
(***************************************************************************)

\* A start, successful or not, has new memory and reads the files again.
Start ==
    /\ Restart
    /\ L!device_start
    /\ poll_active' = FALSE
    /\ poll_to' = [i \in Items |-> "idle"]
    /\ sensor_timeouts' = {} /\ stray' = {}
    /\ event' \in [Items -> EventConfigs]
    /\ current_val' = [i \in Items |-> 0]
    /\ sent_val' = [i \in Items |-> 0]
    /\ UNCHANGED <<register, cloud_val>>

\* The end of the process; what its memory held does not matter any more.
Stop ==
    /\ proc = "running"
    /\ proc' = "stopped"
    /\ L!iface_modbus_stop
    /\ UNCHANGED <<url, peer, vars, data_vars>>
-----------------------------------------------------------------------------
(***************************************************************************)
(* The environment (external).                                             *)
(***************************************************************************)

CloudStep == Cloud /\ UNCHANGED <<link_state, data_vars>>

SlaveGone == UNCHANGED <<vars, data_vars>> /\ L!PeerLost

RegisterChanges(i, value) ==
    /\ register[i] # value
    /\ register' = [register EXCEPT ![i] = value]
    /\ UNCHANGED <<vars, link_state, poll_active, poll_to, item_vars>>
-----------------------------------------------------------------------------
DaemonInit ==
    /\ Init
    /\ proc = "off"
    /\ url \in Urls
    /\ modbus_ctx = "null" /\ connect_to = "null" /\ modbus_io = "null"
    /\ socket = FALSE /\ open_sockets = 0 /\ peer = "gone"
    /\ poll_active = FALSE
    /\ poll_to = [i \in Items |-> "idle"]
    /\ sensor_timeouts = {} /\ stray = {}
    /\ event \in [Items -> EventConfigs]
    /\ current_val = [i \in Items |-> 0]
    /\ sent_val = [i \in Items |-> 0]
    /\ register \in [Items -> Values]
    /\ cloud_val = [i \in Items |-> NoValue]

DaemonNext ==
    \/ \E is_up \in BOOLEAN : CloudLink(is_up)
    \/ \E ok \in BOOLEAN : attempt_connect(ok)
    \/ on_disconnected
    \/ MessageTimeout
    \/ \E msg \in to_thing : CloudMessage(msg)
    \/ \E i \in Items : on_sensor_to(i)
    \/ \E i \in Items, ok \in T!ReadOutcomes : on_poll_timeout(i, ok)
    \/ Start
    \/ Stop
    \/ CloudStep
    \/ SlaveGone
    \/ \E i \in Items, value \in Values : RegisterChanges(i, value)

DaemonSpec == DaemonInit /\ [][DaemonNext]_daemon_vars
-----------------------------------------------------------------------------
\* What the daemon does to data items, timers and publications is what Telemetry
\* allows, with a session that goes online only while the slave is connected and
\* whose events stop with it: the state machine, the links, restarts and messages
\* that come twice never do more to them than Telemetry's few session steps.
ImplementsTelemetry == T!Spec

\* Data reaches the cloud only in ST_ONLINE, under credentials the cloud accepted:
\* whichever of the four ways a publication starts (a poll that meets an event, a
\* sensor timer, a request, the entry), and although sensor timers run on after the
\* thing was removed.
DataOnlyAuthorised ==
    [][cloud_val' # cloud_val =>
          /\ state' = "ST_ONLINE"
          /\ thing.id \in authenticated]_daemon_vars

\* A thing that is online is at work in all of its parts: the connection to the slave
\* is watched and nothing is about to replace it, every item is polled, exactly the
\* sensor timers of the current configuration run, and no request is waited for.
\* Each part is set up and torn down by a callback of its own, in whatever order the
\* links come and go.
OnlineIsServed ==
    proc = "running" /\ state = "ST_ONLINE" =>
        /\ modbus_io = "watched" /\ socket /\ connect_to = "expired"
        /\ poll_active /\ \A i \in Items : poll_to[i] = "armed"
        /\ active /\ sensor_timeouts = T!Timed(event) /\ stray = {}
        /\ msg_to = "null"

\* The Modbus link of the daemon is the one of ModbusLink: the device takes the
\* slave for connected exactly when the connect loop told it so.
ImplementsLink == L!Spec
=============================================================================
