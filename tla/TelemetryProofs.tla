-------------------------- MODULE TelemetryProofs --------------------------
(***************************************************************************)
(* Proofs about EventCheck and Telemetry, for every set of data items,     *)
(* every set of values and every set of event configurations.              *)
(***************************************************************************)
EXTENDS Telemetry, TLAPS

\* For the types that compare_knot_value knows, event_check_value asks for a
\* publication exactly when the event is met as confs/device.conf describes it.
THEOREM CheckIsDocumented ==
    ASSUME NEW on \in BOOLEAN, NEW value_type \in Comparable,
           NEW e \in [flags : SUBSET Flags, lower : Int, upper : Int],
           NEW current \in Int, NEW sent \in Int
    PROVE  event_check_value(on, e, current, sent, value_type) > 0
           <=> on /\ EventMet(e, current, sent)
<1>1. CASE ~on
  BY <1>1 DEF event_check_value
<1>2. CASE on
  <2>1. value_type \in ValueTypes
    BY DEF Comparable, ValueTypes
  <2>2. \A a, b \in Int :
           /\ is_value_equal(a, b, value_type) <=> a = b
           /\ is_lower_than_threshold(a, b, value_type) <=> a < b
           /\ is_higher_than_threshold(a, b, value_type) <=> a > b
    BY DEF is_value_equal, is_lower_than_threshold, is_higher_than_threshold,
       compare_knot_value
  <2>3. e.lower \in Int /\ e.upper \in Int
    OBVIOUS
  <2> QED
    BY <1>2, <2>1, <2>2, <2>3 DEF event_check_value, EventMet
<1> QED
  BY <1>1, <1>2

\* The types that compare_knot_value does not know are published by their flags
\* alone, whatever the values are: always with EventChange or with an upper
\* threshold, and never for a lower one.
THEOREM OtherTypesNotCompared ==
    ASSUME NEW on \in BOOLEAN, NEW value_type \in ValueTypes \ Comparable,
           NEW e, NEW current, NEW sent
    PROVE  event_check_value(on, e, current, sent, value_type) > 0
           <=> on /\ ("CHANGE" \in e.flags \/ "UPPER" \in e.flags)
<1>1. \A a, b : compare_knot_value(a, b, value_type) = 1
  BY DEF compare_knot_value
<1>2. \A a, b :
         /\ ~is_value_equal(a, b, value_type)
         /\ ~is_lower_than_threshold(a, b, value_type)
         /\ is_higher_than_threshold(a, b, value_type)
  BY <1>1 DEF is_value_equal, is_lower_than_threshold, is_higher_than_threshold
<1>3. CASE ~on
  BY <1>3 DEF event_check_value
<1>4. CASE on
  BY <1>2, <1>4 DEF event_check_value
<1> QED
  BY <1>3, <1>4

\* With EventChange, a value that differs from sent_val is always published, for
\* every type: the types that are not compared count as changed.
LEMMA ChangeIsNoticed ==
    ASSUME NEW e \in EventConfigs, "CHANGE" \in e.flags,
           NEW current \in Values, NEW sent \in Values, current # sent
    PROVE  event_check_value(TRUE, e, current, sent, ValueType) > 0
<1>1. current \in Int /\ sent \in Int /\ ValueType \in ValueTypes
  BY TelemetryAssumption
<1>2. ~is_value_equal(current, sent, ValueType)
  BY <1>1 DEF is_value_equal, compare_knot_value
<1> QED
  BY <1>1, <1>2 DEF event_check_value
-----------------------------------------------------------------------------
\* A publication changes the values of the cloud for the items it is about only.
LEMMA PublishType ==
    ASSUME TypeOK, NEW items, NEW values \in [Items -> Values],
           device_publish_data_list(items, values)
    PROVE  cloud_val' \in [Items -> Values \cup {NoValue}]
  BY DEF TypeOK, device_publish_data_list

\* Stopping and starting the events keeps the state of event.c well formed.
LEMMA EventType ==
    ASSUME NEW e \in EventStates, NEW events
    PROVE  /\ event_stop(e) \in EventStates
           /\ device_start_event(e, events) \in EventStates
<1>1. ASSUME NEW b \in BOOLEAN, NEW s \in SUBSET Items, NEW t \in SUBSET Items
      PROVE  [active |-> b, sensor_timeouts |-> s, stray |-> t] \in EventStates
  BY <1>1 DEF EventStates
<1>2. /\ e.stray \in SUBSET Items
      /\ e.stray \cup e.sensor_timeouts \in SUBSET Items
      /\ Timed(events) \in SUBSET Items
      /\ {} \in SUBSET Items
  BY DEF EventStates, Timed
<1>3. event_stop(e) \in EventStates
  BY <1>1, <1>2, Zenon DEF event_stop
<1>4. device_start_event(e, events) \in EventStates
  BY <1>1, <1>2 DEF device_start_event
<1> QED
  BY <1>3, <1>4

LEMMA StoppedType ==
    [active |-> FALSE, sensor_timeouts |-> {}, stray |-> {}] \in EventStates
<1>1. ASSUME NEW b \in BOOLEAN, NEW s \in SUBSET Items, NEW t \in SUBSET Items
      PROVE  [active |-> b, sensor_timeouts |-> s, stray |-> t] \in EventStates
  BY <1>1 DEF EventStates
<1>2. {} \in SUBSET Items
  OBVIOUS
<1> QED
  BY <1>1, <1>2

\* Telemetry keeps its types: the values of a data item are only ever values that
\* were read, and every timer belongs to a data item (device.c, event.c, poll.c).
THEOREM TypeCorrect == Spec => []TypeOK
<1>1. Init => TypeOK
  BY TelemetryAssumption, StoppedType DEF Init, TypeOK
<1>2. TypeOK /\ [Next]_vars => TypeOK'
  <2> SUFFICES ASSUME TypeOK, [Next]_vars PROVE TypeOK'
    OBVIOUS
  <2>0. ASSUME LeaveOnline
        PROVE  /\ session' \in {"offline", "online", "removed"}
               /\ ev' \in EventStates
    BY <2>0, EventType DEF LeaveOnline, TypeOK
  <2>1. CASE on_modbus_connected
    BY <2>1 DEF on_modbus_connected, poll_start, TypeOK
  <2>2. CASE on_modbus_disconnected
    BY <2>0, <2>2 DEF on_modbus_disconnected, poll_stop, TypeOK
  <2>3. CASE on_cloud_disconnected
    BY <2>0, <2>3 DEF on_cloud_disconnected, poll_vars, TypeOK
  <2>4. CASE enter_online
    BY <2>4, PublishType, EventType DEF enter_online, poll_vars, TypeOK
  <2>5. CASE enter_unregister
    BY <2>5 DEF enter_unregister, poll_vars, TypeOK
  <2>6. CASE device_start
    BY <2>6, TelemetryAssumption, StoppedType DEF device_start, TypeOK
  <2>7. ASSUME NEW events \in [Items -> EventConfigs], device_update_config(events)
        PROVE  TypeOK'
    BY <2>7, EventType DEF device_update_config, poll_vars, TypeOK
  <2>8. ASSUME NEW items \in SUBSET Items, DataRequested(items) PROVE TypeOK'
    BY <2>8, PublishType DEF DataRequested, poll_vars, TypeOK
  <2>9. ASSUME NEW i \in Items, on_sensor_to(i) PROVE TypeOK'
    BY <2>9, PublishType DEF on_sensor_to, PublishIfOnline, poll_vars, TypeOK
  <2>10. ASSUME NEW i \in Items, NEW ok, on_poll_timeout(i, ok) PROVE TypeOK'
    <3>1. CASE ~poll_active
      BY <2>10, <3>1 DEF on_poll_timeout, TypeOK
    <3>2. CASE poll_active
      <4>1. on_modbus_poll_receive(i, ok) /\ UNCHANGED poll_to
        BY <2>10, <3>2 DEF on_poll_timeout
      <4>2. current_val' \in [Items -> Values]
        BY <4>1 DEF on_modbus_poll_receive, TypeOK
      <4>3. sent_val' \in [Items -> Values]
        BY <4>1 DEF on_modbus_poll_receive, TypeOK
      <4>4. cloud_val' \in [Items -> Values \cup {NoValue}]
        BY <4>1, <4>2, PublishType DEF on_modbus_poll_receive, PublishIfOnline, TypeOK
      <4> QED
        BY <2>10, <4>1, <4>2, <4>3, <4>4 DEF on_poll_timeout, TypeOK
    <3> QED
      BY <3>1, <3>2
  <2>11. ASSUME NEW i \in Items, NEW value \in Values, RegisterChanges(i, value)
         PROVE  TypeOK'
    BY <2>11 DEF RegisterChanges, poll_vars, TypeOK
  <2>12. CASE UNCHANGED vars
    BY <2>12 DEF vars, poll_vars, TypeOK
  <2> QED
    BY <2>1, <2>2, <2>3, <2>4, <2>5, <2>6, <2>7, <2>8, <2>9, <2>10, <2>11, <2>12
       DEF Next
<1> QED
  BY <1>1, <1>2, PTL DEF Spec
-----------------------------------------------------------------------------
\* Polling never dies while the slave is connected: each timer that was lost in a
\* disconnection is armed again by the next connection (poll.c).
THEOREM PollStaysAlive == Spec => []PollAlive
<1>1. Init => PollAlive
  BY DEF Init, PollAlive
<1>2. TypeOK /\ PollAlive /\ [Next]_vars => PollAlive'
  <2> SUFFICES ASSUME TypeOK, PollAlive, [Next]_vars PROVE PollAlive'
    OBVIOUS
  <2> USE DEF PollAlive, TypeOK
  <2>1. CASE on_modbus_connected
    BY <2>1 DEF on_modbus_connected, poll_start
  <2>2. CASE on_modbus_disconnected
    BY <2>2 DEF on_modbus_disconnected, poll_stop
  <2>3. CASE on_cloud_disconnected \/ enter_online \/ enter_unregister
    BY <2>3 DEF on_cloud_disconnected, enter_online, enter_unregister, poll_vars
  <2>4. CASE device_start
    BY <2>4 DEF device_start
  <2>5. CASE \/ \E events \in [Items -> EventConfigs] : device_update_config(events)
             \/ \E items \in SUBSET Items : DataRequested(items)
             \/ \E i \in Items : on_sensor_to(i)
             \/ \E i \in Items, value \in Values : RegisterChanges(i, value)
    <3>1. UNCHANGED <<modbus_up, poll_active, poll_to>>
      BY <2>5 DEF device_update_config, DataRequested, on_sensor_to, RegisterChanges,
         poll_vars
    <3> QED
      BY <3>1
  <2>6. ASSUME NEW i \in Items, NEW ok, on_poll_timeout(i, ok) PROVE PollAlive'
    BY <2>6 DEF on_poll_timeout
  <2>7. CASE UNCHANGED vars
    BY <2>7 DEF vars, poll_vars
  <2> QED
    BY <2>1, <2>2, <2>3, <2>4, <2>5, <2>6, <2>7 DEF Next
<1> QED
  BY <1>1, <1>2, TypeCorrect, PTL DEF Spec

\* The session and the events agree: a thing that is offline has stopped them, so
\* the next event_start finds no queue that it would lose.
OfflineHasNoTimers == session = "offline" => ~ev.active

\* Exactly the timers of the current configuration run while events are active,
\* and none otherwise (event_start, event_stop, device_update_config).
THEOREM TimersAlwaysMatchConfig == Spec => []TimersMatchConfig
<1> DEFINE Inv == TimersMatchConfig /\ OfflineHasNoTimers
<1>1. Init => Inv
  BY DEF Init, TimersMatchConfig, OfflineHasNoTimers
<1>2. TypeOK /\ Inv /\ [Next]_vars => Inv'
  <2> SUFFICES ASSUME TypeOK, Inv, [Next]_vars PROVE Inv'
    OBVIOUS
  <2> USE DEF TimersMatchConfig, OfflineHasNoTimers
  <2>0. ASSUME LeaveOnline, event' = event PROVE Inv'
    BY <2>0 DEF LeaveOnline, event_stop, Timed
  <2>1. CASE on_modbus_connected
    BY <2>1 DEF on_modbus_connected, Timed
  <2>2. CASE on_modbus_disconnected
    BY <2>0, <2>2 DEF on_modbus_disconnected
  <2>3. CASE on_cloud_disconnected
    BY <2>0, <2>3 DEF on_cloud_disconnected
  <2>4. CASE enter_online
    BY <2>4 DEF enter_online, device_start_event, Timed
  <2>5. CASE enter_unregister
    BY <2>5 DEF enter_unregister, Timed
  <2>6. CASE device_start
    BY <2>6 DEF device_start
  <2>7. ASSUME NEW events \in [Items -> EventConfigs], device_update_config(events)
        PROVE  Inv'
    BY <2>7 DEF device_update_config, device_start_event, event_stop, Timed
  <2>8. CASE \/ \E items \in SUBSET Items : DataRequested(items)
             \/ \E i \in Items : on_sensor_to(i)
             \/ \E i \in Items, ok \in ReadOutcomes : on_poll_timeout(i, ok)
             \/ \E i \in Items, value \in Values : RegisterChanges(i, value)
    BY <2>8 DEF DataRequested, on_sensor_to, on_poll_timeout, RegisterChanges, Timed
  <2>9. CASE UNCHANGED vars
    BY <2>9 DEF vars, Timed
  <2> QED
    BY <2>1, <2>2, <2>3, <2>4, <2>5, <2>6, <2>7, <2>8, <2>9 DEF Next
<1> QED
  BY <1>1, <1>2, TypeCorrect, PTL DEF Spec
-----------------------------------------------------------------------------
\* A publication that cannot fail brings its items up to date.
LEMMA PublishReaches ==
    ASSUME TypeOK, ~PublishFaults, NEW items \in SUBSET Items, NEW values,
           device_publish_data_list(items, values)
    PROVE  /\ \A i \in items : cloud_val'[i] = values[i]
           /\ \A i \in Items \ items : cloud_val'[i] = cloud_val[i]
  BY DEF device_publish_data_list

\* An online thing with EventChange leaves the cloud behind only at the value of
\* sent_val (on_modbus_poll_receive, device_publish_data_all).
THEOREM AlwaysBehindOnlyAtSentValue == Spec => []BehindOnlyAtSentValue
<1>1. Init => BehindOnlyAtSentValue
  BY DEF Init, BehindOnlyAtSentValue
<1>2. TypeOK /\ TimersMatchConfig /\ BehindOnlyAtSentValue /\ [Next]_vars
      => BehindOnlyAtSentValue'
  <2> SUFFICES ASSUME TypeOK, TimersMatchConfig, BehindOnlyAtSentValue, [Next]_vars,
                      ~PublishFaults, \A e \in EventConfigs : "CHANGE" \in e.flags,
                      session' = "online", NEW i \in Items
               PROVE  current_val'[i] \in {cloud_val'[i], sent_val'[i]}
    BY DEF BehindOnlyAtSentValue
  <2>0. session = "online" => current_val[i] \in {cloud_val[i], sent_val[i]}
    BY DEF BehindOnlyAtSentValue
  <2>1. CASE on_modbus_connected
    BY <2>0, <2>1 DEF on_modbus_connected
  <2>2. CASE on_modbus_disconnected \/ on_cloud_disconnected
    BY <2>2 DEF on_modbus_disconnected, on_cloud_disconnected, LeaveOnline
  <2>3. CASE enter_online
    BY <2>3, PublishReaches DEF enter_online
  <2>4. CASE enter_unregister \/ device_start
    BY <2>4 DEF enter_unregister, device_start
  <2>5. CASE \E events \in [Items -> EventConfigs] : device_update_config(events)
    BY <2>0, <2>5 DEF device_update_config
  <2>6. ASSUME NEW items \in SUBSET Items, DataRequested(items)
        PROVE  current_val'[i] \in {cloud_val'[i], sent_val'[i]}
    <3>1. cloud_val'[i] \in {current_val[i], cloud_val[i]}
      BY <2>6, PublishReaches DEF DataRequested
    <3> QED
      BY <2>0, <2>6, <3>1 DEF DataRequested
  <2>7. ASSUME NEW j \in Items, on_sensor_to(j)
        PROVE  current_val'[i] \in {cloud_val'[i], sent_val'[i]}
    <3>1. session = "online" /\ device_publish_data_list({j}, current_val)
      BY <2>7 DEF on_sensor_to, PublishIfOnline
    <3>2. cloud_val'[i] \in {current_val[i], cloud_val[i]}
      BY <3>1, PublishReaches
    <3> QED
      BY <2>0, <2>7, <3>1, <3>2 DEF on_sensor_to
  <2>8. ASSUME NEW j \in Items, NEW ok, on_poll_timeout(j, ok)
        PROVE  current_val'[i] \in {cloud_val'[i], sent_val'[i]}
    <3>1. session = "online"
      BY <2>8 DEF on_poll_timeout
    <3>2. CASE ~poll_active
      BY <2>0, <2>8, <3>1, <3>2 DEF on_poll_timeout
    <3>3. CASE poll_active /\ j # i
      <4>1. on_modbus_poll_receive(j, ok)
        BY <2>8, <3>3 DEF on_poll_timeout
      <4>2. current_val'[i] = current_val[i] /\ sent_val'[i] = sent_val[i]
        BY <3>3, <4>1 DEF on_modbus_poll_receive, TypeOK
      <4>3. \/ device_publish_data_list({j}, current_val')
            \/ UNCHANGED cloud_val
        BY <4>1 DEF on_modbus_poll_receive, PublishIfOnline
      <4>4. CASE device_publish_data_list({j}, current_val')
        <5>1. {j} \in SUBSET Items /\ i \in Items \ {j}
          BY <3>3
        <5>2. cloud_val'[i] = cloud_val[i]
          BY <4>4, <5>1 DEF device_publish_data_list
        <5> QED
          BY <2>0, <3>1, <4>2, <5>2
      <4> QED
        BY <2>0, <3>1, <4>2, <4>3, <4>4
    <3>4. CASE poll_active /\ j = i
      <4> DEFINE value == IF ok THEN register[i] ELSE current_val[i]
                 check == event_check_value(ev.active, event[i], value, sent_val[i],
                                            ValueType)
      <4>1. current_val'[i] = value
        BY <2>8, <3>4 DEF on_poll_timeout, on_modbus_poll_receive, TypeOK
      <4>2. CASE sent_val' = [sent_val EXCEPT ![i] = value]
        BY <4>1, <4>2 DEF TypeOK
      <4>3. CASE ~(check > 0) /\ sent_val' = sent_val
        <5>1. value \in Values /\ sent_val[i] \in Values /\ event[i] \in EventConfigs
          BY DEF TypeOK
        <5>2. ev.active = TRUE
          BY <3>1 DEF TimersMatchConfig, TypeOK, EventStates
        <5>3. value = sent_val[i]
          BY <4>3, <5>1, <5>2, ChangeIsNoticed
        <5> QED
          BY <4>1, <4>3, <5>3
      <4>4. \/ sent_val' = [sent_val EXCEPT ![i] = value]
            \/ ~(check > 0) /\ sent_val' = sent_val
        <5>1. check \in Int
          BY DEF event_check_value
        <5> QED
          BY <2>8, <3>4, <5>1 DEF on_poll_timeout, on_modbus_poll_receive
      <4> QED
        BY <4>2, <4>3, <4>4
    <3> QED
      BY <3>2, <3>3, <3>4
  <2>9. ASSUME NEW j \in Items, NEW v \in Values, RegisterChanges(j, v)
        PROVE  current_val'[i] \in {cloud_val'[i], sent_val'[i]}
    BY <2>0, <2>9 DEF RegisterChanges
  <2>10. CASE UNCHANGED vars
    BY <2>0, <2>10 DEF vars
  <2> QED
    BY <2>1, <2>2, <2>3, <2>4, <2>5, <2>6, <2>7, <2>8, <2>9, <2>10 DEF Next
<1> QED
  BY <1>1, <1>2, TypeCorrect, TimersAlwaysMatchConfig, PTL DEF Spec
\* Once an item has been caught up with, no change of it is missed before the
\* session ends.
THEOREM CaughtUpAlwaysStays == Spec => CaughtUpStays
<1> DEFINE A == /\ session = "online" /\ session' = "online"
                /\ ~PublishFaults
                /\ \A e \in EventConfigs : "CHANGE" \in e.flags
                => \A i \in Items :
                      cloud_val[i] = sent_val[i]
                      => cloud_val'[i] = sent_val'[i] /\ current_val'[i] = sent_val'[i]
<1>1. ASSUME TypeOK, TimersMatchConfig, BehindOnlyAtSentValue, [Next]_vars
      PROVE  A \/ UNCHANGED vars
  <2> SUFFICES ASSUME session = "online", session' = "online", ~PublishFaults,
                      \A e \in EventConfigs : "CHANGE" \in e.flags,
                      NEW i \in Items, cloud_val[i] = sent_val[i], Next
               PROVE  cloud_val'[i] = sent_val'[i] /\ current_val'[i] = sent_val'[i]
    BY <1>1
  <2>0. current_val[i] = sent_val[i]
    BY <1>1 DEF BehindOnlyAtSentValue
  <2>1. ASSUME UNCHANGED <<current_val, sent_val>>,
               cloud_val'[i] \in {cloud_val[i], current_val[i]}
        PROVE  cloud_val'[i] = sent_val'[i] /\ current_val'[i] = sent_val'[i]
    BY <2>0, <2>1
  <2>2. CASE on_modbus_connected \/ enter_unregister \/ enter_online
             \/ on_modbus_disconnected \/ on_cloud_disconnected \/ device_start
    BY <2>1, <2>2 DEF on_modbus_connected, enter_unregister, enter_online,
       on_modbus_disconnected, on_cloud_disconnected, device_start, LeaveOnline
  <2>3. CASE \E events \in [Items -> EventConfigs] : device_update_config(events)
    BY <2>1, <2>3 DEF device_update_config
  <2>4. ASSUME NEW items \in SUBSET Items, DataRequested(items)
        PROVE  cloud_val'[i] = sent_val'[i] /\ current_val'[i] = sent_val'[i]
    BY <1>1, <2>1, <2>4, PublishReaches DEF DataRequested
  <2>5. ASSUME NEW j \in Items, on_sensor_to(j)
        PROVE  cloud_val'[i] = sent_val'[i] /\ current_val'[i] = sent_val'[i]
    <3>1. device_publish_data_list({j}, current_val)
      BY <2>5 DEF on_sensor_to, PublishIfOnline
    <3>2. cloud_val'[i] \in {cloud_val[i], current_val[i]}
      BY <1>1, <3>1, PublishReaches
    <3> QED
      BY <2>1, <2>5, <3>2 DEF on_sensor_to
  <2>6. ASSUME NEW j \in Items, NEW ok, on_poll_timeout(j, ok)
        PROVE  cloud_val'[i] = sent_val'[i] /\ current_val'[i] = sent_val'[i]
    <3>1. CASE ~poll_active
      BY <2>1, <2>6, <3>1 DEF on_poll_timeout
    <3>2. CASE poll_active
      <4> DEFINE value == IF ok THEN register[j] ELSE current_val[j]
                 check == event_check_value(ev.active, event[j], value, sent_val[j],
                                            ValueType)
      <4>1. on_modbus_poll_receive(j, ok)
        BY <2>6, <3>2 DEF on_poll_timeout
      <4>2. current_val' = [current_val EXCEPT ![j] = value]
        BY <4>1 DEF on_modbus_poll_receive
      <4>3. CASE /\ sent_val' = [sent_val EXCEPT ![j] = value]
                 /\ device_publish_data_list({j}, current_val')
        <5>1. \A k \in Items : cloud_val'[k] = IF k = j THEN current_val'[k]
                                                        ELSE cloud_val[k]
          BY <4>3 DEF device_publish_data_list
        <5> QED
          BY <1>1, <2>0, <4>2, <4>3, <5>1 DEF TypeOK
      <4>4. CASE ~(check > 0) /\ UNCHANGED <<sent_val, cloud_val>>
        <5>1. value \in Values /\ sent_val[j] \in Values /\ event[j] \in EventConfigs
          BY <1>1 DEF TypeOK
        <5>2. ev.active = TRUE
          BY <1>1 DEF TimersMatchConfig, TypeOK, EventStates
        <5>3. value = sent_val[j]
          BY <4>4, <5>1, <5>2, ChangeIsNoticed
        <5> QED
          BY <1>1, <2>0, <4>2, <4>4, <5>3 DEF TypeOK
      <4>5. check \in Int
        BY DEF event_check_value
      <4> QED
        BY <4>1, <4>3, <4>4, <4>5 DEF on_modbus_poll_receive, PublishIfOnline
    <3> QED
      BY <3>1, <3>2
  <2>7. ASSUME NEW j \in Items, NEW v \in Values, RegisterChanges(j, v)
        PROVE  cloud_val'[i] = sent_val'[i] /\ current_val'[i] = sent_val'[i]
    BY <2>1, <2>7 DEF RegisterChanges
  <2> QED
    BY <2>2, <2>3, <2>4, <2>5, <2>6, <2>7 DEF Next
<1>2. TypeOK /\ TimersMatchConfig /\ BehindOnlyAtSentValue /\ [Next]_vars => [A]_vars
  BY <1>1
<1> HIDE DEF A
<1>3. Spec => [][A]_vars
  BY <1>2, TypeCorrect, TimersAlwaysMatchConfig, AlwaysBehindOnlyAtSentValue, PTL
     DEF Spec
<1> QED
  BY <1>3 DEF CaughtUpStays, A
=============================================================================
