---------------------------- MODULE DaemonProofs ----------------------------
(***************************************************************************)
(* The daemon implements the specifications of its parts, for every value  *)
(* of the constants: ModbusLink, Session and Telemetry.  What was proved   *)
(* of the parts therefore holds of the daemon.                             *)
(***************************************************************************)
EXTENDS Daemon, SessionProofs

LP == INSTANCE LinkProofs WITH up <- ModbusUp

TP == INSTANCE TelemetryProofs
          WITH session <- OnlineOrNot, modbus_up <- ModbusUp, ev <- Events

-----------------------------------------------------------------------------
(***************************************************************************)
(* The link.                                                               *)
(***************************************************************************)

\* Only the callbacks of the Modbus link change what the device takes it for.
LEMMA LinkStep ==
    ASSUME [DaemonNext]_daemon_vars
    PROVE  [L!Next]_(L!vars)
<1>0. ASSUME UNCHANGED link_state, UNCHANGED conn_mask PROVE UNCHANGED L!vars
  BY <1>0 DEF link_state, L!vars, L!link_vars, ModbusUp
<1>1. ASSUME NEW is_up \in BOOLEAN, CloudLink(is_up) PROVE UNCHANGED L!vars
  <2>1. "MODBUS" \in conn_mask' <=> "MODBUS" \in conn_mask
    BY <1>1 DEF CloudLink, link_handler, conn_handler, set_conn_bitmask
  <2>2. ModbusUp' = ModbusUp
    BY <2>1 DEF ModbusUp
  <2> QED
    BY <1>1, <2>2 DEF CloudLink, link_state, L!vars, L!link_vars
<1>2. ASSUME NEW ok \in BOOLEAN, attempt_connect(ok) PROVE L!Next
  <2>1. CASE ok /\ L!Connect /\ on_modbus_connected
    <3>1. "MODBUS" \in conn_mask'
      BY <2>1 DEF on_modbus_connected, link_handler, conn_handler, set_conn_bitmask
    <3>2. ModbusUp' = TRUE
      BY <3>1 DEF ModbusUp
    <3>3. L!attempt_connect(ok)
      BY <1>2, <2>1, <3>2 DEF attempt_connect, L!attempt_connect
    <3> QED
      BY <3>3 DEF L!Next
  <2>2. CASE ~ok /\ L!Retry /\ UNCHANGED <<vars, data_vars>>
    <3>1. L!attempt_connect(ok)
      BY <1>2, <2>2 DEF attempt_connect, L!attempt_connect, vars, ModbusUp
    <3> QED
      BY <3>1 DEF L!Next
  <2> QED
    BY <1>2, <2>1, <2>2 DEF attempt_connect
<1>3. CASE on_disconnected
  <2>1. "MODBUS" \notin conn_mask'
    BY <1>3 DEF on_disconnected, on_modbus_disconnected, link_handler, conn_handler,
       set_conn_bitmask
  <2>2. ModbusUp' = FALSE
    BY <2>1 DEF ModbusUp
  <2> QED
    BY <1>3, <2>2 DEF on_disconnected, L!on_disconnected, L!Next
<1>4. CASE MessageTimeout
  BY <1>0, <1>4 DEF MessageTimeout, on_msg_timeout
<1>5. ASSUME NEW msg \in to_thing, CloudMessage(msg) PROVE UNCHANGED L!vars
  BY <1>0, <1>5 DEF CloudMessage, on_cloud_receive
<1>6. ASSUME NEW i \in Items, on_sensor_to(i) PROVE UNCHANGED L!vars
  BY <1>0, <1>6 DEF on_sensor_to, PublishItem
<1>7. ASSUME NEW i \in Items, NEW ok, on_poll_timeout(i, ok) PROVE UNCHANGED L!vars
  BY <1>0, <1>7 DEF on_poll_timeout, on_modbus_poll_receive, PublishItem, vars
<1>8. CASE Start
  BY <1>8 DEF Start, L!Next
<1>9. CASE Stop
  <2>1. UNCHANGED conn_mask
    BY <1>9 DEF Stop, vars
  <2>2. ModbusUp' \in {ModbusUp, FALSE}
    BY <2>1 DEF ModbusUp
  <2> QED
    BY <1>9, <2>2 DEF Stop, L!device_destroy, L!Next
<1>10. CASE CloudStep
  BY <1>0, <1>10 DEF CloudStep, Cloud, CloudAnswer, CloudNotify, Discard, Lose
<1>11. CASE SlaveGone
  BY <1>11 DEF SlaveGone, L!Next
<1>12. ASSUME NEW i \in Items, NEW value \in Values, RegisterChanges(i, value)
       PROVE  UNCHANGED L!vars
  BY <1>0, <1>12 DEF RegisterChanges, vars
<1>13. CASE UNCHANGED daemon_vars
  BY <1>0, <1>13 DEF daemon_vars, vars
<1> QED
  BY <1>1, <1>2, <1>3, <1>4, <1>5, <1>6, <1>7, <1>8, <1>9, <1>10, <1>11, <1>12, <1>13
     DEF DaemonNext

\* The Modbus link of the daemon is the one of ModbusLink (attempt_connect and
\* on_disconnected with the callbacks of device.c behind them).
THEOREM DaemonImplementsLink == DaemonSpec => ImplementsLink
<1>1. DaemonInit => L!Init
  <2> SUFFICES ASSUME DaemonInit PROVE L!Init
    OBVIOUS
  <2>1. ModbusUp = FALSE
    BY DEF DaemonInit, Init, ModbusUp
  <2> QED
    BY <2>1, Zenon DEF DaemonInit, L!Init
<1>2. [DaemonNext]_daemon_vars => [L!Next]_(L!vars)
  BY LinkStep
<1> QED
  BY <1>1, <1>2, PTL DEF DaemonSpec, ImplementsLink, L!Spec
-----------------------------------------------------------------------------
(***************************************************************************)
(* The session.  SensorEvent of Session needs active events, and a link    *)
(* comes up only when it is down: both rest on invariants of the daemon.   *)
(***************************************************************************)

\* The step of the link as LinkProofs names it.
LEMMA LinkStepProved ==
    ASSUME [L!Next]_(L!vars)
    PROVE  [LP!Next]_(LP!vars)
  BY DEF L!Next, LP!Next, L!vars, LP!vars, L!link_vars, LP!link_vars, L!device_start,
     LP!device_start, L!attempt_connect, LP!attempt_connect, L!on_disconnected,
     LP!on_disconnected, L!device_destroy, LP!device_destroy, L!PeerLost, LP!PeerLost,
     L!iface_modbus_start, LP!iface_modbus_start, L!Connect, LP!Connect, L!Retry, LP!Retry,
     L!Disconnect, LP!Disconnect, L!iface_modbus_stop, LP!iface_modbus_stop,
     L!create_ctx, LP!create_ctx, L!create_tcp, LP!create_tcp, L!create_rtu, LP!create_rtu,
     L!modbus_new, LP!modbus_new, L!StaleErrno, LP!StaleErrno, L!Made, LP!Made,
     L!Failed, LP!Failed, L!EINVAL, LP!EINVAL, L!ENOENT, LP!ENOENT, L!Closed, LP!Closed

\* The invariant of the link holds in the daemon.
LEMMA LinkInvInDaemon == DaemonSpec => []LP!LinkInv
<1>0. LP!LinkAssumption
  BY DaemonAssumption DEF L!LinkAssumption, LP!LinkAssumption
<1>1. L!Init => LP!Init
  BY DEF L!Init, LP!Init
<1>2. [L!Next]_(L!vars) => [LP!Next]_(LP!vars)
  BY LinkStepProved
<1>3. L!Spec => LP!Spec
  BY <1>1, <1>2, PTL DEF L!Spec, LP!Spec
<1>4. LP!Spec => []LP!LinkInv
  BY <1>0, LP!LinkInvHolds
<1> QED
  BY <1>3, <1>4, DaemonImplementsLink, PTL DEF ImplementsLink

\* What the session needs of the link: the timer runs only while the slave is not
\* connected, and only a connection that the device knows of is watched.
LinkFacts ==
    /\ connect_to = "armed" => ~ModbusUp
    /\ modbus_io = "watched" => ModbusUp

LEMMA LinkFactsHold ==
    ASSUME LP!LinkInv
    PROVE  LinkFacts
<1>1. /\ connect_to = "armed" \/ modbus_io = "watched" => proc = "running"
      /\ modbus_io = "watched" => modbus_ctx = "made"
  BY DEF LP!LinkInv, LP!IdleWhenNotRunning, LP!IoHasContext
<1> QED
  BY <1>1 DEF LP!LinkInv, LP!LinkOrTimer, LinkFacts

\* EVT_PUB_DATA is nothing to the session unless it is online.
LEMMA PublishStep ==
    ASSUME EventsFollowSession, NEW i, PublishItem(i)
    PROVE  [Next]_vars
<1>1. CASE state = "ST_ONLINE"
  BY <1>1 DEF PublishItem, EventsFollowSession, SensorEvent, Thing, Next
<1>2. CASE state # "ST_ONLINE"
  BY <1>2 DEF PublishItem, sm_input_event, get_next_disconnected, get_next_auth,
     get_next_register, get_next_config, get_next_unregister, get_next_error, Stay,
     Timer, vars, sm_vars, cloud_vars
<1> QED
  BY <1>1, <1>2

LEMMA SessionStep ==
    ASSUME LinkFacts, EventsFollowSession, [DaemonNext]_daemon_vars
    PROVE  [Next]_vars
<1>0. \A conn \in CONN_TYPE :
        /\ conn \notin conn_mask /\ conn_handler(conn, TRUE) => Next
        /\ conn \in conn_mask /\ conn_handler(conn, FALSE) => Next
  BY DEF LinkUp, LinkDown, Thing, Next
<1>1. ASSUME NEW is_up \in BOOLEAN, CloudLink(is_up) PROVE Next
  <2>1. CASE is_up = TRUE
    BY <1>0, <1>1, <2>1 DEF CloudLink, link_handler, CONN_TYPE
  <2>2. CASE is_up = FALSE
    BY <1>0, <1>1, <2>2 DEF CloudLink, link_handler, CONN_TYPE
  <2> QED
    BY <2>1, <2>2
<1>2. ASSUME NEW ok \in BOOLEAN, attempt_connect(ok) PROVE [Next]_vars
  BY <1>0, <1>2 DEF attempt_connect, on_modbus_connected, link_handler, CONN_TYPE,
     LinkFacts, ModbusUp
<1>3. CASE on_disconnected
  BY <1>0, <1>3 DEF on_disconnected, L!Disconnect, on_modbus_disconnected, link_handler,
     CONN_TYPE, LinkFacts, ModbusUp
<1>4. CASE MessageTimeout
  BY <1>4 DEF MessageTimeout, Thing, Next
<1>5. ASSUME NEW msg \in to_thing, CloudMessage(msg) PROVE Next
  BY <1>5 DEF CloudMessage, Thing, Next
<1>6. ASSUME NEW i \in Items, on_sensor_to(i) PROVE [Next]_vars
  BY <1>6, PublishStep DEF on_sensor_to
<1>7. ASSUME NEW i \in Items, NEW ok, on_poll_timeout(i, ok) PROVE [Next]_vars
  BY <1>7, PublishStep DEF on_poll_timeout, on_modbus_poll_receive
<1>8. CASE Start
  BY <1>8 DEF Start, Thing, Next
<1>9. CASE Stop
  BY <1>9 DEF Stop
<1>10. CASE CloudStep
  BY <1>10 DEF CloudStep, Next
<1>11. CASE SlaveGone
  BY <1>11 DEF SlaveGone
<1>12. ASSUME NEW i \in Items, NEW value \in Values, RegisterChanges(i, value)
       PROVE  UNCHANGED vars
  BY <1>12 DEF RegisterChanges
<1>13. CASE UNCHANGED daemon_vars
  BY <1>13 DEF daemon_vars
<1> QED
  BY <1>1, <1>2, <1>3, <1>4, <1>5, <1>6, <1>7, <1>8, <1>9, <1>10, <1>11, <1>12, <1>13
     DEF DaemonNext

\* The session inside the daemon is the one of Session, with links that are no
\* longer free but driven by the connect loop: everything proved of Session holds
\* of the daemon.
THEOREM DaemonImplementsSession ==
    ASSUME ~PermissionEvents
    PROVE  DaemonSpec => Spec /\ [](TypeOK /\ SessionInv)
<1> DEFINE I == TypeOK /\ SessionInv
<1>1. DaemonInit => Init /\ I
  BY TypeInit, SessionInvInit DEF DaemonInit
<1>2. LP!LinkInv /\ I /\ [DaemonNext]_daemon_vars => I' /\ [Next]_vars
  BY LinkFactsHold, SessionStep, TypeInductive, SessionInvInductive DEF SessionInv
<1> QED
  BY <1>1, <1>2, LinkInvInDaemon, PTL DEF DaemonSpec, Spec
-----------------------------------------------------------------------------
(***************************************************************************)
(* The data.                                                               *)
(***************************************************************************)

\* Only two events of the state machine publish, and both leave it online.
LEMMA PublishesOnline ==
    ASSUME NEW evt, NEW token, NEW items, NEW events,
           sm_input_event(evt, token), sm_data(evt, items, events),
           cloud_val' # cloud_val
    PROVE  state \in {"ST_CONFIG", "ST_ONLINE"} /\ state' = "ST_ONLINE"
<1>1. \/ state = "ST_CONFIG" /\ evt = "EVT_CFG_UPT_OK"
      \/ state = "ST_ONLINE" /\ evt = "EVT_PUB_DATA"
  BY DEF sm_data
<1> QED
  BY <1>1 DEF sm_input_event, get_next_config, get_next_online, enter_online

\* Data reaches the cloud only from ST_ONLINE and under an id that the cloud
\* accepted, whichever callback publishes it (on_publish_data of device.c), if
\* either subscriptions succeed or ids are fresh.
THEOREM DataAlwaysAuthorised ==
    ASSUME StrictRouting, ~PermissionEvents, FreshIds \/ ~ReadStartFails
    PROVE  DaemonSpec => DataOnlyAuthorised
<1> DEFINE A == cloud_val' # cloud_val => state' = "ST_ONLINE" /\ thing.id \in authenticated
<1>1. OnlineAuthorised /\ [DaemonNext]_daemon_vars => [A]_daemon_vars
  <2> SUFFICES ASSUME OnlineAuthorised, DaemonNext, cloud_val' # cloud_val
               PROVE  state' = "ST_ONLINE" /\ thing.id \in authenticated
    OBVIOUS
  <2>0. ASSUME NEW evt, NEW token, NEW items, NEW events,
               sm_input_event(evt, token), sm_data(evt, items, events)
        PROVE  state' = "ST_ONLINE" /\ thing.id \in authenticated
    BY <2>0, PublishesOnline DEF OnlineAuthorised
  <2>1. ASSUME NEW conn, NEW is_up, link_handler(conn, is_up)
        PROVE  state' = "ST_ONLINE" /\ thing.id \in authenticated
    BY <2>0, <2>1 DEF link_handler, conn_handler
  <2>2. ASSUME NEW is_up \in BOOLEAN, CloudLink(is_up)
        PROVE  state' = "ST_ONLINE" /\ thing.id \in authenticated
    BY <2>1, <2>2 DEF CloudLink
  <2>3. ASSUME NEW ok \in BOOLEAN, attempt_connect(ok)
        PROVE  state' = "ST_ONLINE" /\ thing.id \in authenticated
    BY <2>1, <2>3 DEF attempt_connect, on_modbus_connected, data_vars, item_vars
  <2>4. CASE on_disconnected
    BY <2>1, <2>4 DEF on_disconnected, on_modbus_disconnected
  <2>5. ASSUME NEW msg \in to_thing, CloudMessage(msg)
        PROVE  state' = "ST_ONLINE" /\ thing.id \in authenticated
    <3>1. PICK items, events : sm_data(CloudEvent(msg), items, events)
      BY <2>5 DEF CloudMessage
    <3>2. CloudEvent(msg) # "none"
      BY <3>1 DEF sm_data
    <3>3. sm_input_event(CloudEvent(msg), msg.id)
      BY <2>5, <3>2 DEF CloudMessage, on_cloud_receive
    <3> QED
      BY <2>0, <3>1, <3>3
  <2>6. ASSUME NEW i, PublishItem(i)
        PROVE  state' = "ST_ONLINE" /\ thing.id \in authenticated
    BY <2>0, <2>6 DEF PublishItem
  <2>7. ASSUME NEW i \in Items, on_sensor_to(i)
        PROVE  state' = "ST_ONLINE" /\ thing.id \in authenticated
    BY <2>6, <2>7 DEF on_sensor_to
  <2>8. ASSUME NEW i \in Items, NEW ok, on_poll_timeout(i, ok)
        PROVE  state' = "ST_ONLINE" /\ thing.id \in authenticated
    BY <2>6, <2>8 DEF on_poll_timeout, on_modbus_poll_receive, item_vars
  <2>9. ~(MessageTimeout \/ Start \/ Stop \/ CloudStep \/ SlaveGone)
    BY DEF MessageTimeout, Start, Stop, CloudStep, SlaveGone, data_vars, item_vars
  <2>10. ASSUME NEW i \in Items, NEW value \in Values
         PROVE  ~RegisterChanges(i, value)
    BY DEF RegisterChanges, item_vars
  <2> QED
    BY <2>2, <2>3, <2>4, <2>5, <2>7, <2>8, <2>9, <2>10 DEF DaemonNext
<1>2. Spec => []OnlineAuthorised
  BY AlwaysAuthorised, AuthorisedWithoutSubscription
<1> QED
  BY <1>1, <1>2, DaemonImplementsSession, PTL DEF DaemonSpec, DataOnlyAuthorised
-----------------------------------------------------------------------------
(***************************************************************************)
(* Telemetry.  Of all the events of the state machine four change what the *)
(* data path sees: the entry into ST_ONLINE, the exits from it, and a      *)
(* configuration that arrives while the thing is online.                   *)
(***************************************************************************)

ChangesEvents(evt) ==
    \/ state = "ST_CONFIG" /\ evt = "EVT_CFG_UPT_OK"
    \/ state = "ST_ONLINE" /\ evt \in {"EVT_NOT_READY", "EVT_UNREG_REQ", "EVT_CFG_UPT_OK"}

LEMMA SmSession ==
    ASSUME NEW evt, NEW token, sm_input_event(evt, token), evt # "EVT_REG_PERM"
    PROVE  /\ state = "ST_CONFIG" /\ evt = "EVT_CFG_UPT_OK"
                => state' = "ST_ONLINE" /\ active' = TRUE
           /\ state = "ST_ONLINE" /\ evt = "EVT_NOT_READY"
                => state' = "ST_DISCONNECTED" /\ active' = FALSE
           /\ state = "ST_ONLINE" /\ evt = "EVT_UNREG_REQ"
                => state' = "ST_UNREGISTER" /\ active' = active
           /\ state = "ST_ONLINE" /\ evt = "EVT_CFG_UPT_OK"
                => state' = "ST_ONLINE" /\ active' = TRUE
           /\ ~ChangesEvents(evt)
                => active' = active /\ (state' = "ST_ONLINE" <=> state = "ST_ONLINE")
<1> USE DEF ChangesEvents, enter_disconnected, enter_auth, enter_register, enter_config,
            enter_online, enter_unregister, enter_error, Stay, device_start_event,
            device_stop_event
<1>1. CASE state = "ST_DISCONNECTED"
  BY <1>1 DEF sm_input_event, get_next_disconnected
<1>2. CASE state = "ST_AUTH"
  BY <1>2 DEF sm_input_event, get_next_auth
<1>3. CASE state = "ST_REGISTER"
  BY <1>3 DEF sm_input_event, get_next_register
<1>4. CASE state = "ST_CONFIG"
  BY <1>4 DEF sm_input_event, get_next_config
<1>5. CASE state = "ST_ONLINE"
  BY <1>5 DEF sm_input_event, get_next_online
<1>6. CASE state = "ST_UNREGISTER"
  BY <1>6 DEF sm_input_event, get_next_unregister
<1>7. CASE state = "ST_ERROR"
  BY <1>7 DEF sm_input_event, get_next_error
<1> QED
  BY <1>1, <1>2, <1>3, <1>4, <1>5, <1>6, <1>7 DEF sm_input_event

\* What the data path sees is a function of these.
LEMMA SameView ==
    /\ active' = active /\ (state' = "ST_ONLINE" <=> state = "ST_ONLINE")
         => OnlineOrNot' = OnlineOrNot
    /\ active' = active /\ sensor_timeouts' = sensor_timeouts /\ stray' = stray
         => Events' = Events
    /\ conn_mask' = conn_mask => ModbusUp' = ModbusUp
  BY DEF OnlineOrNot, Events, ModbusUp

\* The other events of the state machine leave the data path alone, but for what
\* EVT_PUB_DATA publishes.
LEMMA SameData ==
    ASSUME NEW evt, NEW token, NEW items, NEW events, sm_input_event(evt, token),
           sm_data(evt, items, events), evt # "EVT_REG_PERM", ~ChangesEvents(evt)
    PROVE  /\ OnlineOrNot' = OnlineOrNot
           /\ Events' = Events
           /\ event' = event
           /\ \/ cloud_val' = cloud_val
              \/ /\ state = "ST_ONLINE" /\ evt = "EVT_PUB_DATA"
                 /\ T!device_publish_data_list(items, current_val')
<1>1. active' = active /\ (state' = "ST_ONLINE" <=> state = "ST_ONLINE")
  BY SmSession
<1>2. /\ sensor_timeouts' = sensor_timeouts /\ stray' = stray /\ event' = event
      /\ \/ cloud_val' = cloud_val
         \/ /\ state = "ST_ONLINE" /\ evt = "EVT_PUB_DATA"
            /\ T!device_publish_data_list(items, current_val')
  BY DEF sm_data, ChangesEvents
<1> QED
  BY <1>1, <1>2, SameView

LEMMA PublishedIfOnline ==
    ASSUME NEW i \in Items, PublishItem(i)
    PROVE  /\ OnlineOrNot' = OnlineOrNot
           /\ Events' = Events
           /\ event' = event
           /\ ModbusUp' = ModbusUp
           /\ T!PublishIfOnline({i}, current_val')
<1>1. sm_input_event("EVT_PUB_DATA", None) /\ sm_data("EVT_PUB_DATA", {i}, event)
  BY DEF PublishItem
<1>2. ~ChangesEvents("EVT_PUB_DATA")
  BY DEF ChangesEvents
<1>3. CASE state = "ST_ONLINE"
  <2>1. T!device_publish_data_list({i}, current_val')
    BY <1>1, <1>3 DEF sm_data
  <2>2. OnlineOrNot = "online"
    BY <1>3 DEF OnlineOrNot
  <2> QED
    BY <1>1, <1>2, <2>1, <2>2, SameData, SameView DEF T!PublishIfOnline, PublishItem
<1>4. CASE state # "ST_ONLINE"
  <2>1. OnlineOrNot # "online"
    BY <1>4 DEF OnlineOrNot
  <2> QED
    BY <1>1, <1>2, <1>4, <2>1, SameData, SameView DEF T!PublishIfOnline, PublishItem
<1> QED
  BY <1>3, <1>4

\* A link that comes up finds no thing online and takes none online.
LEMMA UpKeepsData ==
    ASSUME LinkState, NEW conn \in CONN_TYPE, conn \notin conn_mask,
           link_handler(conn, TRUE)
    PROVE  /\ OnlineOrNot' = OnlineOrNot /\ Events' = Events
           /\ UNCHANGED <<event, current_val, sent_val, register, cloud_val>>
<1>1. state \notin {"ST_CONFIG", "ST_ONLINE"}
  BY DEF LinkState, Waiting
<1>2. PICK evt : sm_input_event(evt, None) /\ evt \in {"EVT_READY", "EVT_NOT_READY"}
                 /\ sm_data(evt, {}, event)
  BY DEF link_handler, conn_handler
<1>3. ~ChangesEvents(evt)
  BY <1>1 DEF ChangesEvents
<1> QED
  BY <1>1, <1>2, <1>3, SameData DEF link_handler

\* A link that goes down takes an online thing offline and stops its events.
LEMMA DownLeavesOnline ==
    ASSUME NEW conn \in CONN_TYPE, link_handler(conn, FALSE)
    PROVE  /\ T!LeaveOnline
           /\ UNCHANGED <<event, current_val, sent_val, register, cloud_val>>
<1>1. conn_mask' # CONN_TYPE
  BY DEF link_handler, conn_handler, set_conn_bitmask
<1>2. sm_input_event("EVT_NOT_READY", None) /\ sm_data("EVT_NOT_READY", {}, event)
  BY <1>1 DEF link_handler, conn_handler
<1>3. CASE state = "ST_ONLINE"
  <2>1. state' = "ST_DISCONNECTED" /\ active' = FALSE
    BY <1>2, <1>3, SmSession
  <2>2. OnlineOrNot = "online" /\ OnlineOrNot' = "offline"
    BY <1>3, <2>1 DEF OnlineOrNot
  <2>3. sensor_timeouts' = {} /\ stray' = stray /\ UNCHANGED <<event, cloud_val>>
    BY <1>2, <1>3 DEF sm_data, TimersAre, T!event_stop, Events
  <2>4. Events' = T!event_stop(Events)
    BY <2>1, <2>3 DEF Events, T!event_stop
  <2> QED
    BY <2>2, <2>3, <2>4 DEF T!LeaveOnline, link_handler
<1>4. CASE state # "ST_ONLINE"
  <2>1. ~ChangesEvents("EVT_NOT_READY") /\ OnlineOrNot # "online"
    BY <1>4 DEF ChangesEvents, OnlineOrNot
  <2> QED
    BY <1>2, <1>4, <2>1, SameData DEF T!LeaveOnline, link_handler
<1> QED
  BY <1>3, <1>4

\* A message of the cloud.
LEMMA MessageStep ==
    ASSUME LinkState, EventsFollowSession, NEW msg \in Messages, CloudMessage(msg)
    PROVE  [T!Next]_(T!vars)
<1>0. PICK items \in SUBSET Items, events \in [Items -> EventConfigs] :
         sm_data(CloudEvent(msg), items, events)
  BY DEF CloudMessage
<1> DEFINE evt == CloudEvent(msg)
<1>a. /\ UNCHANGED <<poll_active, poll_to, current_val, sent_val, register>>
      /\ ModbusUp' = ModbusUp
  BY SameView DEF CloudMessage, on_cloud_receive
<1>1. CASE evt = "none"
  <2>1. UNCHANGED <<state, active>>
    BY <1>1 DEF CloudMessage, on_cloud_receive, sm_vars
  <2>2. UNCHANGED <<sensor_timeouts, stray, event, cloud_val>>
    BY <1>0, <1>1 DEF sm_data
  <2> QED
    BY <1>a, <2>1, <2>2, SameView DEF T!vars, T!poll_vars
<1>2. CASE evt # "none"
  <2>0. sm_input_event(evt, msg.id) /\ evt # "EVT_REG_PERM"
    BY <1>2, CloudEventType DEF CloudMessage, on_cloud_receive, CloudEvents
  <2> HIDE DEF evt
  <2>1. CASE ~ChangesEvents(evt)
    <3>1. CASE cloud_val' = cloud_val
      BY <1>0, <1>a, <2>0, <2>1, <3>1, SameData DEF T!vars, T!poll_vars, evt
    <3>2. CASE cloud_val' # cloud_val
      <4>1. state = "ST_ONLINE" /\ T!device_publish_data_list(items, current_val)
        BY <1>0, <1>a, <2>0, <2>1, <3>2, SameData DEF evt
      <4>2. OnlineOrNot = "online"
        BY <4>1 DEF OnlineOrNot
      <4>3. T!DataRequested(items)
        BY <1>0, <1>a, <2>0, <2>1, <4>1, <4>2, SameData DEF T!DataRequested, T!poll_vars, evt
      <4> QED
        BY <4>3 DEF T!Next
    <3> QED
      BY <3>1, <3>2
  <2>2. CASE state = "ST_CONFIG" /\ evt = "EVT_CFG_UPT_OK"
    <3>1. state' = "ST_ONLINE" /\ active' = TRUE
      BY <2>0, <2>2, SmSession
    <3>2. ModbusUp /\ active = FALSE
      BY <2>2 DEF LinkState, Waiting, CONN_TYPE, ModbusUp, EventsFollowSession
    <3>3. OnlineOrNot = "offline" /\ OnlineOrNot' = "online"
      BY <2>2, <3>1, <3>2 DEF OnlineOrNot
    <3>4. /\ T!device_publish_data_list(Items, current_val)
          /\ TimersAre(T!device_start_event(Events, event))
          /\ UNCHANGED event
      BY <1>0, <2>2 DEF sm_data, evt
    <3>5. Events' = T!device_start_event(Events, event)
      BY <3>1, <3>4 DEF TimersAre, T!device_start_event, Events
    <3>6. T!enter_online
      BY <1>a, <3>2, <3>3, <3>4, <3>5 DEF T!enter_online, T!poll_vars
    <3> QED
      BY <3>6 DEF T!Next
  <2>3. CASE state = "ST_ONLINE" /\ evt = "EVT_UNREG_REQ"
    <3>1. state' = "ST_UNREGISTER" /\ active' = active /\ active
      BY <2>0, <2>3, SmSession DEF EventsFollowSession
    <3>2. OnlineOrNot = "online" /\ OnlineOrNot' = "removed"
      BY <2>3, <3>1 DEF OnlineOrNot
    <3>3. UNCHANGED <<sensor_timeouts, stray, event, cloud_val>>
      BY <1>0, <2>3 DEF sm_data, evt
    <3>4. T!enter_unregister
      BY <1>a, <3>1, <3>2, <3>3, SameView DEF T!enter_unregister, T!poll_vars
    <3> QED
      BY <3>4 DEF T!Next
  <2>4. CASE state = "ST_ONLINE" /\ evt = "EVT_CFG_UPT_OK"
    <3>1. state' = "ST_ONLINE" /\ active' = TRUE
      BY <2>0, <2>4, SmSession
    <3>2. OnlineOrNot = "online" /\ OnlineOrNot' = "online"
      BY <2>4, <3>1 DEF OnlineOrNot
    <3>3. /\ event' = events
          /\ TimersAre(T!device_start_event(T!event_stop(Events), events))
          /\ UNCHANGED cloud_val
      BY <1>0, <2>4 DEF sm_data, evt
    <3>4. Events' = T!device_start_event(T!event_stop(Events), events)
      BY <3>1, <3>3 DEF TimersAre, T!device_start_event, Events
    <3>5. T!device_update_config(events)
      BY <1>a, <3>2, <3>3, <3>4 DEF T!device_update_config, T!poll_vars
    <3> QED
      BY <3>5 DEF T!Next
  <2>5. evt # "EVT_NOT_READY"
    BY <1>2, CloudEventType DEF CloudEvents, evt
  <2> QED
    BY <2>1, <2>2, <2>3, <2>4, <2>5 DEF ChangesEvents
<1> QED
  BY <1>1, <1>2

\* A poll timer.
LEMMA PollStep ==
    ASSUME NEW i \in Items, NEW ok \in T!ReadOutcomes, on_poll_timeout(i, ok)
    PROVE  T!Next
<1>0. UNCHANGED <<poll_active, register>> /\ poll_to[i] = "armed"
  BY DEF on_poll_timeout
<1>a. Events.active = active
  BY DEF Events
<1>1. CASE ~poll_active
  <2>1. poll_to' = [poll_to EXCEPT ![i] = "idle"] /\ UNCHANGED <<item_vars, vars>>
    BY <1>1 DEF on_poll_timeout
  <2>2. UNCHANGED <<OnlineOrNot, ModbusUp, Events, event, current_val, sent_val, cloud_val>>
    BY <2>1, SameView DEF item_vars, vars, sm_vars
  <2>3. T!on_poll_timeout(i, ok)
    BY <1>0, <1>1, <2>1, <2>2 DEF T!on_poll_timeout
  <2> QED
    BY <2>3 DEF T!Next
<1>2. CASE poll_active
  <2>1. on_modbus_poll_receive(i, ok) /\ UNCHANGED poll_to
    BY <1>2 DEF on_poll_timeout
  <2> DEFINE value == IF ok THEN register[i] ELSE current_val[i]
             check == T!event_check_value(active, event[i], value, sent_val[i], ValueType)
  <2>2. current_val' = [current_val EXCEPT ![i] = value]
    BY <2>1 DEF on_modbus_poll_receive
  <2>3. CASE check > 0 /\ sent_val' = [sent_val EXCEPT ![i] = value] /\ PublishItem(i)
    <3>1. T!on_modbus_poll_receive(i, ok)
      BY <1>a, <2>2, <2>3, PublishedIfOnline DEF T!on_modbus_poll_receive
    <3>2. T!on_poll_timeout(i, ok)
      BY <1>0, <1>2, <2>1, <2>3, <3>1, PublishedIfOnline DEF T!on_poll_timeout
    <3> QED
      BY <3>2 DEF T!Next
  <2>4. CASE check <= 0 /\ UNCHANGED <<sent_val, sensor_timeouts, stray, event, cloud_val, vars>>
    <3>1. UNCHANGED <<OnlineOrNot, ModbusUp, Events>>
      BY <2>4, SameView DEF vars, sm_vars
    <3>2. T!on_modbus_poll_receive(i, ok)
      BY <1>a, <2>2, <2>4 DEF T!on_modbus_poll_receive
    <3>3. T!on_poll_timeout(i, ok)
      BY <1>0, <1>2, <2>1, <2>4, <3>1, <3>2 DEF T!on_poll_timeout
    <3> QED
      BY <3>3 DEF T!Next
  <2> QED
    BY <2>1, <2>3, <2>4 DEF on_modbus_poll_receive
<1> QED
  BY <1>1, <1>2

LEMMA TelemetryStep ==
    ASSUME LinkFacts, TypeOK, LinkState, EventsFollowSession, [DaemonNext]_daemon_vars
    PROVE  [T!Next]_(T!vars)
<1>0. ASSUME UNCHANGED <<state, active, conn_mask, data_vars>> PROVE UNCHANGED T!vars
  BY <1>0, SameView DEF data_vars, item_vars, T!vars, T!poll_vars
<1>1. ASSUME NEW is_up \in BOOLEAN, CloudLink(is_up) PROVE [T!Next]_(T!vars)
  <2>0. /\ UNCHANGED <<poll_active, poll_to>>
        /\ is_up <=> "CLOUD" \notin conn_mask
        /\ link_handler("CLOUD", is_up)
    BY <1>1 DEF CloudLink
  <2>1. ModbusUp' = ModbusUp
    BY <2>0 DEF link_handler, conn_handler, set_conn_bitmask, ModbusUp
  <2>2. CASE is_up = TRUE
    BY <2>0, <2>1, <2>2, UpKeepsData DEF CONN_TYPE, T!vars, T!poll_vars
  <2>3. CASE is_up = FALSE
    <3>1. T!LeaveOnline /\ UNCHANGED <<event, current_val, sent_val, register, cloud_val>>
      BY <2>0, <2>3, DownLeavesOnline DEF CONN_TYPE
    <3>2. CASE OnlineOrNot = "online"
      BY <2>0, <2>1, <3>1, <3>2 DEF T!on_cloud_disconnected, T!poll_vars, T!Next
    <3>3. CASE OnlineOrNot # "online"
      BY <2>0, <2>1, <3>1, <3>3 DEF T!LeaveOnline, T!vars, T!poll_vars
    <3> QED
      BY <3>2, <3>3
  <2> QED
    BY <2>2, <2>3
<1>2. ASSUME NEW ok \in BOOLEAN, attempt_connect(ok) PROVE [T!Next]_(T!vars)
  <2>1. CASE on_modbus_connected
    <3>1. "MODBUS" \notin conn_mask /\ link_handler("MODBUS", TRUE) /\ T!poll_start
      BY <1>2, <2>1 DEF attempt_connect, on_modbus_connected, LinkFacts, ModbusUp
    <3>2. ModbusUp' = TRUE /\ ~ModbusUp
      BY <3>1 DEF link_handler, conn_handler, set_conn_bitmask, ModbusUp
    <3>3. T!on_modbus_connected
      BY <3>1, <3>2, UpKeepsData DEF CONN_TYPE, T!on_modbus_connected
    <3> QED
      BY <3>3 DEF T!Next
  <2>2. CASE UNCHANGED <<vars, data_vars>>
    BY <1>0, <2>2 DEF vars, sm_vars
  <2> QED
    BY <1>2, <2>1, <2>2 DEF attempt_connect
<1>3. CASE on_disconnected
  <2>1. /\ ModbusUp
        /\ link_handler("MODBUS", FALSE)
        /\ T!poll_stop
    BY <1>3 DEF on_disconnected, on_modbus_disconnected, LinkFacts, L!Disconnect
  <2>2. ModbusUp' = FALSE
    BY <2>1 DEF link_handler, conn_handler, set_conn_bitmask, ModbusUp
  <2>3. T!on_modbus_disconnected
    BY <2>1, <2>2, DownLeavesOnline DEF CONN_TYPE, T!on_modbus_disconnected
  <2> QED
    BY <2>3 DEF T!Next
<1>4. CASE MessageTimeout
  <2>1. sm_input_event("EVT_TIMEOUT", None) /\ UNCHANGED <<conn_mask, data_vars>>
    BY <1>4 DEF MessageTimeout, on_msg_timeout
  <2>2. active' = active /\ (state' = "ST_ONLINE" <=> state = "ST_ONLINE")
    <3>1. ~ChangesEvents("EVT_TIMEOUT") /\ "EVT_TIMEOUT" # "EVT_REG_PERM"
      BY DEF ChangesEvents
    <3> QED
      BY <2>1, <3>1, SmSession
  <2> QED
    BY <2>1, <2>2, SameView DEF data_vars, item_vars, T!vars, T!poll_vars
<1>5. ASSUME NEW msg \in to_thing, CloudMessage(msg) PROVE [T!Next]_(T!vars)
  BY <1>5, MessageStep DEF TypeOK
<1>6. ASSUME NEW i \in Items, on_sensor_to(i) PROVE T!Next
  <2>1. /\ PublishItem(i)
        /\ UNCHANGED <<poll_active, poll_to, current_val, sent_val, register>>
        /\ i \in Events.sensor_timeouts \cup Events.stray
    BY <1>6 DEF on_sensor_to, Events
  <2>2. T!on_sensor_to(i)
    BY <2>1, PublishedIfOnline DEF T!on_sensor_to, T!poll_vars
  <2> QED
    BY <2>2 DEF T!Next
<1>7. ASSUME NEW i \in Items, NEW ok \in T!ReadOutcomes, on_poll_timeout(i, ok) PROVE T!Next
  BY <1>7, PollStep
<1>8. CASE Start
  <2>1. state' = "ST_DISCONNECTED" /\ active' = FALSE /\ conn_mask' = {}
    BY <1>8 DEF Start, Restart, device_start
  <2>2. OnlineOrNot' = "offline" /\ ModbusUp' = FALSE
    BY <2>1 DEF OnlineOrNot, ModbusUp
  <2>3. Events' = [active |-> FALSE, sensor_timeouts |-> {}, stray |-> {}]
    BY <1>8, <2>1 DEF Start, Events
  <2>4. T!device_start
    BY <1>8, <2>2, <2>3 DEF Start, T!device_start
  <2> QED
    BY <2>4 DEF T!Next
<1>9. CASE Stop
  BY <1>0, <1>9 DEF Stop, vars, sm_vars
<1>10. CASE CloudStep
  BY <1>0, <1>10 DEF CloudStep, Cloud, CloudAnswer, CloudNotify, Discard, Lose, sm_vars
<1>11. CASE SlaveGone
  BY <1>0, <1>11 DEF SlaveGone, vars, sm_vars
<1>12. ASSUME NEW i \in Items, NEW value \in Values, RegisterChanges(i, value) PROVE T!Next
  <2>1. UNCHANGED <<OnlineOrNot, ModbusUp, Events>>
    BY <1>12, SameView DEF RegisterChanges, vars, sm_vars, item_vars
  <2>2. T!RegisterChanges(i, value)
    BY <1>12, <2>1 DEF RegisterChanges, item_vars, T!RegisterChanges, T!poll_vars
  <2> QED
    BY <2>2 DEF T!Next
<1>13. CASE UNCHANGED daemon_vars
  BY <1>0, <1>13 DEF daemon_vars, vars, sm_vars
<1> QED
  BY <1>1, <1>2, <1>3, <1>4, <1>5, <1>6, <1>7, <1>8, <1>9, <1>10, <1>11, <1>12, <1>13
     DEF DaemonNext

\* What the daemon does to data items, timers and publications is what Telemetry
\* allows (poll.c, event.c and the publications of device.c, driven by the whole of
\* sm.c): the theorems on Telemetry hold of the daemon.
THEOREM DaemonImplementsTelemetry ==
    ASSUME ~PermissionEvents
    PROVE  DaemonSpec => ImplementsTelemetry
<1>1. DaemonInit => T!Init
  <2> SUFFICES ASSUME DaemonInit PROVE T!Init
    OBVIOUS
  <2>1. OnlineOrNot = "offline" /\ ModbusUp = FALSE
    BY DEF DaemonInit, Init, OnlineOrNot, ModbusUp
  <2>2. Events = [active |-> FALSE, sensor_timeouts |-> {}, stray |-> {}]
    BY DEF DaemonInit, Init, Events
  <2> QED
    BY <2>1, <2>2 DEF DaemonInit, T!Init
<1>2. LP!LinkInv /\ TypeOK /\ SessionInv /\ [DaemonNext]_daemon_vars
        => [T!Next]_(T!vars)
  BY LinkFactsHold, TelemetryStep DEF SessionInv
<1> QED
  BY <1>1, <1>2, LinkInvInDaemon, DaemonImplementsSession, PTL
     DEF DaemonSpec, ImplementsTelemetry, T!Spec
-----------------------------------------------------------------------------
(***************************************************************************)
(* What the parts promise, of the daemon.                                  *)
(***************************************************************************)

\* The steps of the data path as TelemetryProofs names them.
LEMMA EventCheckProved ==
    /\ \A a, b, c, d, e : T!event_check_value(a, b, c, d, e) = TP!event_check_value(a, b, c, d, e)
    /\ T!ReadOutcomes = TP!ReadOutcomes
  BY DEF T!event_check_value, TP!event_check_value, T!is_value_equal, TP!is_value_equal,
     T!is_lower_than_threshold, TP!is_lower_than_threshold, T!is_higher_than_threshold,
     TP!is_higher_than_threshold, T!compare_knot_value, TP!compare_knot_value,
     T!ValueTypes, TP!ValueTypes, T!Comparable, TP!Comparable,
     T!ReadOutcomes, TP!ReadOutcomes

LEMMA PollStepProved ==
    ASSUME NEW i, NEW ok, T!on_poll_timeout(i, ok)
    PROVE  TP!on_poll_timeout(i, ok)
  BY EventCheckProved
     DEF T!on_poll_timeout, TP!on_poll_timeout, T!on_modbus_poll_receive,
     TP!on_modbus_poll_receive, T!PublishIfOnline, TP!PublishIfOnline,
     T!device_publish_data_list, TP!device_publish_data_list

LEMMA TelemetryStepProved ==
    ASSUME [T!Next]_(T!vars)
    PROVE  [TP!Next]_(TP!vars)
<1>1. ASSUME NEW i \in Items, NEW ok \in T!ReadOutcomes, T!on_poll_timeout(i, ok)
      PROVE  TP!Next
  BY <1>1, PollStepProved, EventCheckProved DEF TP!Next
<1>2. CASE UNCHANGED T!vars
  BY <1>2 DEF T!vars, TP!vars, T!poll_vars, TP!poll_vars
<1> USE DEF T!poll_vars, TP!poll_vars, T!Timed, TP!Timed, T!device_start_event,
            TP!device_start_event, T!event_stop, TP!event_stop, T!LeaveOnline,
            TP!LeaveOnline, T!poll_start, TP!poll_start, T!poll_stop, TP!poll_stop,
            T!device_publish_data_list, TP!device_publish_data_list
<1>3. CASE T!on_modbus_connected \/ T!on_modbus_disconnected \/ T!on_cloud_disconnected
  BY <1>3 DEF T!on_modbus_connected, TP!on_modbus_connected, T!on_modbus_disconnected,
     TP!on_modbus_disconnected, T!on_cloud_disconnected, TP!on_cloud_disconnected, TP!Next
<1>4. CASE T!enter_online \/ T!enter_unregister \/ T!device_start
  BY <1>4 DEF T!enter_online, TP!enter_online, T!enter_unregister, TP!enter_unregister,
     T!device_start, TP!device_start, TP!Next
<1>5. ASSUME NEW events \in [Items -> EventConfigs], T!device_update_config(events)
      PROVE  TP!Next
  BY <1>5 DEF T!device_update_config, TP!device_update_config, TP!Next
<1>6. ASSUME NEW items \in SUBSET Items, T!DataRequested(items) PROVE TP!Next
  BY <1>6 DEF T!DataRequested, TP!DataRequested, TP!Next
<1>7. ASSUME NEW i \in Items, T!on_sensor_to(i) PROVE TP!Next
  BY <1>7 DEF T!on_sensor_to, TP!on_sensor_to, T!PublishIfOnline, TP!PublishIfOnline, TP!Next
<1>8. ASSUME NEW i \in Items, NEW value \in Values, T!RegisterChanges(i, value)
      PROVE  TP!Next
  BY <1>8 DEF T!RegisterChanges, TP!RegisterChanges, TP!Next
<1> QED
  BY <1>1, <1>2, <1>3, <1>4, <1>5, <1>6, <1>7, <1>8 DEF T!Next

\* What Telemetry promises holds of the daemon: every item is polled while the slave
\* is connected, the timers are those of the configuration, and a change is missed
\* only at the value in sent_val, whatever the session, the links, late messages and
\* restarts do in between.
THEOREM TelemetryHoldsInDaemon ==
    ASSUME ~PermissionEvents
    PROVE  DaemonSpec => /\ [](T!PollAlive /\ T!TimersMatchConfig /\ T!BehindOnlyAtSentValue)
                         /\ T!CaughtUpStays
<1>0. TP!TelemetryAssumption
  BY DaemonAssumption DEF T!TelemetryAssumption, TP!TelemetryAssumption, T!ValueTypes,
     TP!ValueTypes, T!Flags, TP!Flags
<1>1. T!Init => TP!Init
  BY DEF T!Init, TP!Init
<1>2. [T!Next]_(T!vars) => [TP!Next]_(TP!vars)
  BY TelemetryStepProved
<1>3. T!Spec => TP!Spec
  BY <1>1, <1>2, PTL DEF T!Spec, TP!Spec
<1>4. /\ TP!Spec => []TP!PollAlive
      /\ TP!Spec => []TP!TimersMatchConfig
      /\ TP!Spec => []TP!BehindOnlyAtSentValue
      /\ TP!Spec => TP!CaughtUpStays
  BY <1>0, TP!PollStaysAlive, TP!TimersAlwaysMatchConfig, TP!AlwaysBehindOnlyAtSentValue,
     TP!CaughtUpAlwaysStays
<1>5. TP!PollAlive /\ TP!TimersMatchConfig /\ TP!BehindOnlyAtSentValue
        => T!PollAlive /\ T!TimersMatchConfig /\ T!BehindOnlyAtSentValue
  BY DEF TP!PollAlive, TP!TimersMatchConfig, TP!BehindOnlyAtSentValue, T!PollAlive,
     T!TimersMatchConfig, T!BehindOnlyAtSentValue, T!Timed, TP!Timed
<1>6. TP!CaughtUpStays => T!CaughtUpStays
  BY DEF TP!CaughtUpStays, T!CaughtUpStays, TP!vars, T!vars, TP!poll_vars, T!poll_vars
<1> QED
  BY <1>3, <1>4, <1>5, <1>6, DaemonImplementsTelemetry, PTL DEF ImplementsTelemetry

\* A thing that is online has its slave connected, its items polled, its sensor timers
\* running and no request open: the invariants of the link, the session and the data
\* path together (ModbusLink, Session, Telemetry).
THEOREM OnlineAlwaysServed ==
    ASSUME ~PermissionEvents
    PROVE  DaemonSpec => []OnlineIsServed
<1>1. /\ LP!LinkInv
      /\ SessionInv
      /\ TimerArmed
      /\ T!PollAlive /\ T!TimersMatchConfig
      => OnlineIsServed
  <2> SUFFICES ASSUME LP!LinkInv, SessionInv, TimerArmed, T!PollAlive, T!TimersMatchConfig,
                      proc = "running", state = "ST_ONLINE"
               PROVE  /\ modbus_io = "watched" /\ socket /\ connect_to = "expired"
                      /\ poll_active /\ \A i \in Items : poll_to[i] = "armed"
                      /\ active /\ sensor_timeouts = T!Timed(event) /\ stray = {}
                      /\ msg_to = "null"
    BY DEF OnlineIsServed
  <2>1. ModbusUp
    BY DEF SessionInv, LinkState, CONN_TYPE, ModbusUp
  <2>2. modbus_io = "watched" /\ socket /\ connect_to = "expired"
    BY <2>1 DEF LP!LinkInv, LP!LinkOrTimer, LP!TypeOK
  <2>3. poll_active /\ \A i \in Items : poll_to[i] = "armed"
    BY <2>1 DEF T!PollAlive
  <2>4. active
    BY DEF SessionInv, EventsFollowSession
  <2>5. sensor_timeouts = T!Timed(event) /\ stray = {}
    BY <2>4 DEF T!TimersMatchConfig, Events
  <2>6. msg_to = "null"
    BY DEF TimerArmed, Waiting
  <2> QED
    BY <2>2, <2>3, <2>4, <2>5, <2>6
<1>2. Spec => []TimerArmed
  BY TimerAlwaysArmed
<1> QED
  BY <1>1, <1>2, LinkInvInDaemon, DaemonImplementsSession, TelemetryHoldsInDaemon, PTL
=============================================================================
