------------------------------ MODULE Session ------------------------------
(***************************************************************************)
(* The session of the thing with the cloud: the state machine of sm.c, and *)
(* the part of device.c that feeds it (link callbacks, message timer,      *)
(* cloud messages) and that it drives (credentials, subscription, requests *)
(* and publications).  thingd is one thread, the ell main loop: a callback *)
(* runs to its end before the next one starts, so each callback is one     *)
(* action.                                                                 *)
(*                                                                         *)
(* The cloud and the AMQP broker are external.  Requests and messages in   *)
(* flight are sets: they are taken in any order, may be lost, and a retry  *)
(* of a request that was answered is answered again.                       *)
(***************************************************************************)
EXTENDS Credentials, FiniteSets, Naturals

CONSTANTS
    StrictRouting,    \* whether the callback sees only messages for the id that
                      \*   knot_cloud_read_start was last given
    FreshIds,         \* whether an id that is drawn is one that nobody has seen
    ReadStartFails,   \* whether knot_cloud_read_start can fail
    Crashes,          \* whether the process can end inside a callback, between
                      \*   two saves of the credentials
    PermissionEvents, \* whether something raises EVT_REG_PERM (no code of the
                      \*   repository does)
    Notifications,    \* the messages the cloud sends without being asked
    Lossy,            \* whether the broker can lose messages
    MaxRequests,      \* bound: how many requests are on their way
    MaxInFlight       \* bound: how many messages are on their way

ASSUME SessionAssumption ==
    /\ StrictRouting \in BOOLEAN
    /\ FreshIds \in BOOLEAN
    /\ ReadStartFails \in BOOLEAN
    /\ Crashes \in BOOLEAN
    /\ PermissionEvents \in BOOLEAN
    /\ Notifications \subseteq {"UPDATE", "REQUEST", "CONFIG", "UNREGISTER"}
    /\ Lossy \in BOOLEAN
    /\ MaxRequests \in Nat \ {0}
    /\ MaxInFlight \in Nat \ {0}

VARIABLES
    state,          \* current_state
    conn_mask,      \* the links that are up
    msg_to,         \* thing.msg_to: no timer, a running one, an expired one
    thing,          \* thing.id and thing.token
    cred_file,      \* the credentials file
    sub,            \* the id last given to knot_cloud_read_start, if any
    active,         \* event.c's active: sensor events are evaluated
    to_cloud,       \* requests the cloud has not answered
    to_thing,       \* messages the thing has not received
    registered,     \* the ids registered at the cloud
    authenticated,  \* the ids whose credentials the cloud ever accepted
    published       \* the ids under which data was ever published

sm_vars    == <<state, msg_to, thing, cred_file, sub, active, to_cloud, published>>
cloud_vars == <<to_thing, registered, authenticated>>
vars       == <<sm_vars, conn_mask, cloud_vars>>

STATES == {"ST_DISCONNECTED", "ST_AUTH", "ST_REGISTER", "ST_CONFIG",
           "ST_ONLINE", "ST_UNREGISTER", "ST_ERROR"}

CONN_TYPE == {"MODBUS", "CLOUD"}

\* The states in which the thing waits for the answer to a request.
Waiting == {"ST_AUTH", "ST_REGISTER", "ST_CONFIG"}

Requests == [type : {"REGISTER", "AUTH", "CONFIG"}, id : IdOrNone,
             token : IdOrNone]

Messages == [type : {"UPDATE", "REQUEST", "REGISTER", "UNREGISTER", "AUTH",
                     "CONFIG"},
             id : IdOrNone, error : BOOLEAN]

TypeOK ==
    /\ state \in STATES
    /\ conn_mask \in SUBSET CONN_TYPE
    /\ msg_to \in {"null", "armed", "expired"}
    /\ thing \in Creds
    /\ cred_file \in CredFile
    /\ sub \in IdOrNone \cup {Absent}
    /\ active \in BOOLEAN
    /\ to_cloud \in SUBSET Requests
    /\ to_thing \in SUBSET Messages
    /\ registered \in SUBSET Ids
    /\ authenticated \in SUBSET Ids
    /\ published \in SUBSET IdOrNone
-----------------------------------------------------------------------------
(***************************************************************************)
(* device.c: the operations the state machine calls.                       *)
(***************************************************************************)

\* Mutant: the handle is tested the wrong way round.
CreateOnlyOverOld(to) == IF to # "null" THEN "armed" ELSE to

device_msg_timeout_create(to) == IF to # "null" THEN to ELSE "armed"

\* Mutant: the expired timer is not given a new delay.
ModifyForgotten(to) == to

device_msg_timeout_modify(to) == IF to = "null" THEN "null" ELSE "armed"

\* Mutant: the timer is removed but thing.msg_to keeps the old handle.
RemoveKeepsHandle == IF msg_to = "null" THEN "null" ELSE "expired"

device_msg_timeout_remove == "null"

\* Mutant: the test is inverted.
TokenTestInverted == thing.token = None

device_has_thing_token == thing.token # None

\* The ids the cloud or the broker has seen.
KnownIds == registered \cup authenticated \cup {m.id : m \in to_cloud \cup to_thing}

\* A random 64-bit number: it differs from the id it replaces, and hardly ever
\* comes up a second time.
device_generate_thing_id(th) ==
    {[th EXCEPT !.id = id] : id \in Ids \ ({th.id} \cup IF FreshIds THEN KnownIds ELSE {})}

\* Mutant: the subscription of the previous id is kept.
ReadCloudOnce(id) == sub' = IF sub = Absent THEN id ELSE sub

\* knot_cloud_read_start; a failure is logged and otherwise ignored.
device_start_read_cloud(id) ==
    \/ sub' = id
    \/ ReadStartFails /\ UNCHANGED sub

RegisterRequest(th) == [type |-> "REGISTER", id |-> th.id, token |-> None]
AuthRequest(th)     == [type |-> "AUTH", id |-> th.id, token |-> th.token]
ConfigRequest(th)   == [type |-> "CONFIG", id |-> th.id, token |-> None]

\* A request that cannot be sent is logged and otherwise ignored.
SendRequest(req) ==
    LET full == Cardinality(to_cloud \cup {req}) > MaxRequests
    IN  \/ ~full /\ to_cloud' = to_cloud \cup {req}
        \/ (full \/ Lossy) /\ UNCHANGED to_cloud

device_send_register_request(th) == SendRequest(RegisterRequest(th))
device_send_auth_request(th)     == SendRequest(AuthRequest(th))
device_send_config(th)           == SendRequest(ConfigRequest(th))

\* Mutant: event_stop is not called.
StopForgotten == active

\* event_stop and event_start set event.c's active.
device_stop_event == FALSE
device_start_event == TRUE

device_publish(th) == published' = published \cup {th.id}
-----------------------------------------------------------------------------
(***************************************************************************)
(* sm.c: entering a state.  "to" is the message timer as get_next left it. *)
(***************************************************************************)

enter_disconnected(to) ==
    /\ state' = "ST_DISCONNECTED"
    /\ msg_to' = to
    /\ UNCHANGED <<thing, cred_file, sub, to_cloud, published>>

enter_auth(to) ==
    /\ state' = "ST_AUTH"
    /\ msg_to' = device_msg_timeout_create(to)
    /\ device_send_auth_request(thing')
    /\ UNCHANGED <<active, published>>

enter_register(to) ==
    /\ state' = "ST_REGISTER"
    /\ msg_to' = device_msg_timeout_create(to)
    /\ device_send_register_request(thing')
    /\ UNCHANGED <<cred_file, active, published>>

enter_config(to) ==
    /\ state' = "ST_CONFIG"
    /\ msg_to' = device_msg_timeout_create(to)
    /\ device_send_config(thing)
    /\ UNCHANGED <<thing, cred_file, sub, active, published>>

enter_online(to) ==
    /\ state' = "ST_ONLINE"
    /\ msg_to' = to
    /\ device_publish(thing)
    /\ active' = device_start_event
    /\ UNCHANGED <<thing, cred_file, sub, to_cloud>>

enter_unregister(to) ==
    /\ state' = "ST_UNREGISTER"
    /\ msg_to' = to
    /\ \E r \in properties_clear_credentials(cred_file, thing) :
          cred_file' = r.file /\ thing' = r.thing
    /\ UNCHANGED <<sub, active, to_cloud, published>>

enter_error(to) ==
    /\ state' = "ST_ERROR"
    /\ msg_to' = to
    /\ UNCHANGED <<thing, sub, active, to_cloud, published>>

\* The next state is the current one: nothing is entered.
Stay(to) ==
    /\ msg_to' = to
    /\ UNCHANGED <<state, thing, cred_file, sub, active, to_cloud, published>>
-----------------------------------------------------------------------------
(***************************************************************************)
(* sm.c: get_next_<state>, each with the entry of the state it returns.    *)
(***************************************************************************)

get_next_disconnected(event, to) ==
    \/ /\ event = "EVT_READY"
       /\ device_has_thing_token
       /\ device_start_read_cloud(thing.id)
       /\ UNCHANGED <<thing, cred_file>>
       /\ enter_auth(to)
    \/ /\ event = "EVT_READY"
       /\ ~device_has_thing_token
       /\ thing' \in device_generate_thing_id(thing)
       /\ device_start_read_cloud(thing'.id)
       /\ enter_register(to)
    \/ /\ event # "EVT_READY"
       /\ Stay(to)

\* device_check_schema_change always returns 1: EVT_AUTH_OK leads to ST_CONFIG.
get_next_auth(event, to) ==
    \/ /\ event = "EVT_NOT_READY"
       /\ enter_disconnected(device_msg_timeout_remove)
       /\ UNCHANGED active
    \/ /\ event = "EVT_AUTH_OK"
       /\ enter_config(device_msg_timeout_remove)
    \/ /\ event \in {"EVT_AUTH_NOT_OK", "EVT_UNREG_REQ"}
       /\ enter_unregister(device_msg_timeout_remove)
    \/ /\ event = "EVT_TIMEOUT"
       /\ device_send_auth_request(thing)
       /\ msg_to' = device_msg_timeout_modify(to)
       /\ UNCHANGED <<state, thing, cred_file, sub, active, published>>
    \/ /\ event \notin {"EVT_NOT_READY", "EVT_AUTH_OK", "EVT_AUTH_NOT_OK",
                        "EVT_UNREG_REQ", "EVT_TIMEOUT"}
       /\ Stay(to)

\* EVT_REG_NOT_OK draws a new id but sends nothing: the request for it goes out
\* when the timer that is already running expires.
get_next_register(event, token, to) ==
    \/ /\ event = "EVT_NOT_READY"
       /\ enter_disconnected(device_msg_timeout_remove)
       /\ UNCHANGED active
    \/ /\ event = "EVT_REG_OK"
       /\ UNCHANGED sub
       /\ \E r \in properties_store_credentials(cred_file, thing.id, token) :
             /\ cred_file' = r.file
             /\ \/ /\ r.ok
                   /\ thing' = [thing EXCEPT !.token = token]
                   /\ enter_auth(device_msg_timeout_remove)
                \/ /\ ~r.ok
                   /\ enter_error(device_msg_timeout_remove)
    \/ /\ event = "EVT_REG_NOT_OK"
       /\ thing' \in device_generate_thing_id(thing)
       /\ device_start_read_cloud(thing'.id)
       /\ msg_to' = to
       /\ UNCHANGED <<state, cred_file, active, to_cloud, published>>
    \/ /\ event = "EVT_TIMEOUT"
       /\ device_send_register_request(thing)
       /\ msg_to' = device_msg_timeout_modify(to)
       /\ UNCHANGED <<state, thing, cred_file, sub, active, published>>
    \/ /\ event \notin {"EVT_NOT_READY", "EVT_REG_OK", "EVT_REG_NOT_OK",
                        "EVT_TIMEOUT"}
       /\ Stay(to)

get_next_config(event, to) ==
    \/ /\ event = "EVT_NOT_READY"
       /\ enter_disconnected(device_msg_timeout_remove)
       /\ UNCHANGED active
    \/ /\ event = "EVT_CFG_UPT_OK"
       /\ enter_online(device_msg_timeout_remove)
    \/ /\ event = "EVT_CFG_UPT_NOT_OK"
       /\ UNCHANGED cred_file
       /\ enter_error(device_msg_timeout_remove)
    \/ /\ event = "EVT_UNREG_REQ"
       /\ enter_unregister(device_msg_timeout_remove)
    \/ /\ event = "EVT_TIMEOUT"
       /\ device_send_config(thing)
       /\ msg_to' = device_msg_timeout_modify(to)
       /\ UNCHANGED <<state, thing, cred_file, sub, active, published>>
    \/ /\ event \notin {"EVT_NOT_READY", "EVT_CFG_UPT_OK", "EVT_CFG_UPT_NOT_OK",
                        "EVT_UNREG_REQ", "EVT_TIMEOUT"}
       /\ Stay(to)

\* EVT_CFG_UPT_OK stops the events, applies the configuration and starts them
\* again; device_update_config always returns 0, so the state is kept.
get_next_online(event, to) ==
    \/ /\ event = "EVT_NOT_READY"
       /\ enter_disconnected(to)
       /\ active' = device_stop_event
    \/ /\ event = "EVT_PUB_DATA"
       /\ device_publish(thing)
       /\ msg_to' = to
       /\ UNCHANGED <<state, thing, cred_file, sub, active, to_cloud>>
    \/ /\ event = "EVT_UNREG_REQ"
       /\ enter_unregister(to)
    \/ /\ event = "EVT_CFG_UPT_OK"
       /\ active' = device_start_event
       /\ msg_to' = to
       /\ UNCHANGED <<state, thing, cred_file, sub, to_cloud, published>>
    \/ /\ event \notin {"EVT_NOT_READY", "EVT_PUB_DATA", "EVT_UNREG_REQ",
                        "EVT_CFG_UPT_OK"}
       /\ Stay(to)

get_next_unregister(event, to) ==
    \/ /\ event = "EVT_REG_PERM"
       /\ thing' \in device_generate_thing_id(thing)
       /\ device_start_read_cloud(thing'.id)
       /\ enter_register(to)
    \/ /\ event # "EVT_REG_PERM"
       /\ Stay(to)

get_next_error(to) == Stay(to)

\* The timer that raises EVT_TIMEOUT has expired by then.
Timer(event) == IF event = "EVT_TIMEOUT" THEN "expired" ELSE msg_to

sm_input_event(event, token) ==
    LET to == Timer(event)
    IN  \/ state = "ST_DISCONNECTED" /\ get_next_disconnected(event, to)
        \/ state = "ST_AUTH" /\ get_next_auth(event, to)
        \/ state = "ST_REGISTER" /\ get_next_register(event, token, to)
        \/ state = "ST_CONFIG" /\ get_next_config(event, to)
        \/ state = "ST_ONLINE" /\ get_next_online(event, to)
        \/ state = "ST_UNREGISTER" /\ get_next_unregister(event, to)
        \/ state = "ST_ERROR" /\ get_next_error(to)
-----------------------------------------------------------------------------
(***************************************************************************)
(* device.c: the callbacks that raise events.                              *)
(***************************************************************************)

set_conn_bitmask(is_up, mask, conn) ==
    IF is_up THEN mask \cup {conn} ELSE mask \ {conn}

\* Mutant: one link that is up is enough.
ReadyWithOneLink(conn, is_up) ==
    /\ conn_mask' = set_conn_bitmask(is_up, conn_mask, conn)
    /\ \/ conn_mask' # {} /\ sm_input_event("EVT_READY", None)
       \/ conn_mask' = {} /\ sm_input_event("EVT_NOT_READY", None)
    /\ UNCHANGED cloud_vars

\* on_cloud_connected, on_cloud_disconnected, on_modbus_connected and
\* on_modbus_disconnected.
conn_handler(conn, is_up) ==
    /\ conn_mask' = set_conn_bitmask(is_up, conn_mask, conn)
    /\ \/ conn_mask' = CONN_TYPE /\ sm_input_event("EVT_READY", None)
       \/ conn_mask' # CONN_TYPE /\ sm_input_event("EVT_NOT_READY", None)
    /\ UNCHANGED cloud_vars

LinkUp == \E conn \in CONN_TYPE \ conn_mask : conn_handler(conn, TRUE)

LinkDown == \E conn \in conn_mask : conn_handler(conn, FALSE)

on_msg_timeout ==
    /\ msg_to = "armed"
    /\ sm_input_event("EVT_TIMEOUT", None)
    /\ UNCHANGED <<conn_mask, cloud_vars>>

\* A sensor timer (on_event_timeout) or a polled value that meets its event
\* (on_modbus_poll_receive); both need event.c to be active.
SensorEvent ==
    /\ active
    /\ sm_input_event("EVT_PUB_DATA", None)
    /\ UNCHANGED <<conn_mask, cloud_vars>>

\* Mutant: the error of an AUTH_MSG is not looked at.
AuthErrorIgnored(msg) ==
    CASE msg.type = "UPDATE"     -> IF msg.error THEN "none" ELSE "EVT_DATA_UPDT"
      [] msg.type = "REQUEST"    -> IF msg.error THEN "none" ELSE "EVT_PUB_DATA"
      [] msg.type = "REGISTER"   -> IF msg.error THEN "EVT_REG_NOT_OK"
                                                 ELSE "EVT_REG_OK"
      [] msg.type = "UNREGISTER" -> IF msg.error THEN "none" ELSE "EVT_UNREG_REQ"
      [] msg.type = "AUTH"       -> "EVT_AUTH_OK"
      [] msg.type = "CONFIG"     -> IF msg.error THEN "EVT_CFG_UPT_NOT_OK"
                                                 ELSE "EVT_CFG_UPT_OK"

\* The event a message is turned into; "none" when it is dropped.
CloudEvent(msg) ==
    CASE msg.type = "UPDATE"     -> IF msg.error THEN "none" ELSE "EVT_DATA_UPDT"
      [] msg.type = "REQUEST"    -> IF msg.error THEN "none" ELSE "EVT_PUB_DATA"
      [] msg.type = "REGISTER"   -> IF msg.error THEN "EVT_REG_NOT_OK"
                                                 ELSE "EVT_REG_OK"
      [] msg.type = "UNREGISTER" -> IF msg.error THEN "none" ELSE "EVT_UNREG_REQ"
      [] msg.type = "AUTH"       -> IF msg.error THEN "EVT_AUTH_NOT_OK"
                                                 ELSE "EVT_AUTH_OK"
      [] msg.type = "CONFIG"     -> IF msg.error THEN "EVT_CFG_UPT_NOT_OK"
                                                 ELSE "EVT_CFG_UPT_OK"

\* Which messages reach the callback (external: knot_cloud_read_start).
Deliverable(msg) ==
    /\ msg \in to_thing
    /\ "CLOUD" \in conn_mask
    /\ StrictRouting => msg.id = sub

on_cloud_receive(msg) ==
    /\ Deliverable(msg)
    /\ to_thing' = to_thing \ {msg}
    /\ \/ CloudEvent(msg) # "none" /\ sm_input_event(CloudEvent(msg), msg.id)
       \/ CloudEvent(msg) = "none" /\ UNCHANGED sm_vars
    /\ UNCHANGED <<conn_mask, registered, authenticated>>

RegistrationPermitted ==
    /\ PermissionEvents
    /\ sm_input_event("EVT_REG_PERM", None)
    /\ UNCHANGED <<conn_mask, cloud_vars>>

\* Mutant: a file without its keys is accepted.
StartUnchecked ==
    /\ state' = "ST_DISCONNECTED"
    /\ conn_mask' = {}
    /\ msg_to' = "null"
    /\ thing' = cred_file'
    /\ sub' = Absent
    /\ active' = FALSE
    /\ UNCHANGED <<to_cloud, published, registered, authenticated>>

\* device_start in a new process; it only succeeds on a file that has both keys.
device_start ==
    /\ Readable(cred_file')
    /\ state' = "ST_DISCONNECTED"
    /\ conn_mask' = {}
    /\ msg_to' = "null"
    /\ thing' = cred_file'
    /\ sub' = Absent
    /\ active' = FALSE
    /\ UNCHANGED <<to_cloud, published, registered, authenticated>>

\* The process ends between two callbacks and is started again.
Restart ==
    /\ UNCHANGED <<cred_file, to_thing>>
    /\ device_start

\* The states that a message to remove the thing, or one that its token is not
\* accepted, takes to ST_UNREGISTER.
Removes(event) ==
    \/ event = "EVT_UNREG_REQ" /\ state \in {"ST_AUTH", "ST_CONFIG", "ST_ONLINE"}
    \/ event = "EVT_AUTH_NOT_OK" /\ state = "ST_AUTH"

\* The process ends inside the callback, while it stores or erases credentials,
\* and is started again.
Crash(msg) ==
    /\ Crashes
    /\ Deliverable(msg)
    /\ to_thing' = to_thing \ {msg}
    /\ \/ /\ state = "ST_REGISTER" /\ CloudEvent(msg) = "EVT_REG_OK"
          /\ cred_file' \in StoreCut(cred_file, msg.id)
       \/ /\ Removes(CloudEvent(msg))
          /\ cred_file' \in ClearCut(cred_file)
    /\ device_start
-----------------------------------------------------------------------------
(***************************************************************************)
(* The cloud and the broker (external).                                    *)
(***************************************************************************)

Send(type, id, error) ==
    /\ Cardinality(to_thing) < MaxInFlight
    /\ to_thing' = to_thing \cup {[type |-> type, id |-> id, error |-> error]}

\* An id is registered when the answer is positive.
CloudRegister(req, error) ==
    /\ req.type = "REGISTER"
    /\ Send("REGISTER", req.id, error)
    /\ registered' = IF error THEN registered ELSE registered \cup ({req.id} \ {None})
    /\ UNCHANGED authenticated

\* Only the token that was issued for a registered id is accepted.
CloudAuth(req, error) ==
    /\ req.type = "AUTH"
    /\ ~error => req.id \in registered /\ req.token = req.id
    /\ Send("AUTH", req.id, error)
    /\ authenticated' = IF error THEN authenticated ELSE authenticated \cup {req.id}
    /\ UNCHANGED registered

CloudConfig(req, error) ==
    /\ req.type = "CONFIG"
    /\ Send("CONFIG", req.id, error)
    /\ UNCHANGED <<registered, authenticated>>

CloudAnswer(req, error) ==
    /\ req \in to_cloud
    /\ to_cloud' = to_cloud \ {req}
    /\ \/ CloudRegister(req, error)
       \/ CloudAuth(req, error)
       \/ CloudConfig(req, error)
    /\ UNCHANGED <<state, conn_mask, msg_to, thing, cred_file, sub, active, published>>

\* Somebody asks for data, sends data, changes the configuration or removes
\* the thing.
CloudNotify(type, id, error) ==
    /\ Send(type, id, error)
    /\ registered' = IF type = "UNREGISTER" /\ ~error THEN registered \ {id}
                                                      ELSE registered
    /\ UNCHANGED <<sm_vars, conn_mask, authenticated>>

\* The broker drops a message for an id that nobody reads any more.
Discard ==
    /\ StrictRouting
    /\ \E msg \in to_thing : msg.id # sub /\ to_thing' = to_thing \ {msg}
    /\ UNCHANGED <<sm_vars, conn_mask, registered, authenticated>>

Lose ==
    /\ Lossy
    /\ \/ /\ \E req \in to_cloud : to_cloud' = to_cloud \ {req}
          /\ UNCHANGED to_thing
       \/ /\ \E msg \in to_thing : to_thing' = to_thing \ {msg}
          /\ UNCHANGED to_cloud
    /\ UNCHANGED <<state, conn_mask, msg_to, thing, cred_file, sub, active,
                   published, registered, authenticated>>
-----------------------------------------------------------------------------
\* device_start: the thing starts with the credentials of its file, which are
\* empty or those of an earlier registration.
Init ==
    /\ state = "ST_DISCONNECTED"
    /\ conn_mask = {}
    /\ msg_to = "null"
    /\ cred_file \in {NoCreds} \cup {[id |-> id, token |-> id] : id \in Ids}
    /\ thing = cred_file
    /\ sub = Absent
    /\ active = FALSE
    /\ to_cloud = {}
    /\ to_thing = {}
    /\ registered \in {{}, {thing.id} \ {None}}
    /\ authenticated = {}
    /\ published = {}

Thing ==
    \/ LinkUp
    \/ LinkDown
    \/ on_msg_timeout
    \/ SensorEvent
    \/ \E msg \in to_thing : on_cloud_receive(msg)
    \/ RegistrationPermitted
    \/ Restart
    \/ \E msg \in to_thing : Crash(msg)

Cloud ==
    \/ \E req \in to_cloud, error \in BOOLEAN : CloudAnswer(req, error)
    \/ \E type \in Notifications, id \in registered, error \in BOOLEAN :
          CloudNotify(type, id, error)
    \/ Discard
    \/ Lose

Next == Thing \/ Cloud

Spec == Init /\ [][Next]_vars
-----------------------------------------------------------------------------
(***************************************************************************)
(* What a session promises.                                                *)
(***************************************************************************)

\* thing.msg_to is a running timer exactly in the states that wait for an
\* answer, so a lost answer is always followed by a retry, and it is NULL in
\* every other state, so no old timer is taken for a new one (the early return
\* of device_msg_timeout_create) and nothing is resent once it was answered.
TimerArmed == msg_to = IF state \in Waiting THEN "armed" ELSE "null"

\* The session is never ahead of the links, and never misses that both are up:
\* conn_handler raises EVT_READY once, so a thing that is disconnected with both
\* links up would stay so.
LinkState ==
    /\ state \in Waiting \cup {"ST_ONLINE"} => conn_mask = CONN_TYPE
    /\ state = "ST_DISCONNECTED" => conn_mask # CONN_TYPE

\* The configuration is sent, and data is published, only under an id whose
\* credentials the cloud has accepted: an answer to an earlier request, or one
\* to an earlier id, never brings a new id online.
OnlineAuthorised ==
    /\ state \in {"ST_CONFIG", "ST_ONLINE"} => thing.id \in authenticated
    /\ published \subseteq authenticated

\* A token is only ever held, in memory or in the file, together with the id it
\* was issued for, however answers, retries, new ids and restarts interleave.
CredentialsMatch ==
    /\ thing.token # None => thing.token = thing.id
    /\ cred_file.token \notin {None, Absent} => cred_file.token = cred_file.id

\* As long as the session can still go on, the file holds what a restart needs
\* to resume it: the token in memory, and the id that goes with it.  Only the
\* removal of the thing and a failed store may leave the two apart.
SessionPersisted ==
    state \notin {"ST_UNREGISTER", "ST_ERROR"} =>
        /\ cred_file.token = thing.token
        /\ thing.token # None => cred_file.id = thing.id

\* Sensor events are evaluated while the thing is online, and are stopped before
\* it can be authenticated again: event_start would otherwise lose the timers
\* that are still in sensor_timeouts.
EventsFollowSession ==
    /\ state = "ST_ONLINE" => active
    /\ active => state \in {"ST_ONLINE", "ST_UNREGISTER"}

\* A thing gives up credentials only when it is removed (enter_unregister), or
\* once its session is over: no new id, late answer or restart takes them away.
IdentityKept ==
    [][/\ state \notin {"ST_UNREGISTER", "ST_ERROR"}
       /\ thing.token # None
       /\ thing' # thing
       => state' = "ST_UNREGISTER"]_vars
-----------------------------------------------------------------------------
(***************************************************************************)
(* Progress.  The main loop runs an expired timer and takes a message that *)
(* is there; a request that is sent again and again is answered.           *)
(***************************************************************************)

AnswerSome(type) ==
    \E req \in to_cloud, error \in BOOLEAN :
        req.type = type /\ CloudAnswer(req, error)

Fairness ==
    /\ WF_vars(on_msg_timeout)
    /\ \A msg \in Messages : WF_vars(on_cloud_receive(msg))
    /\ WF_vars(Discard)
    /\ \A type \in {"REGISTER", "AUTH", "CONFIG"} : SF_vars(AnswerSome(type))

LiveSpec == Spec /\ Fairness

\* The request that the thing waits on in a state.
AwaitedRequest(s) ==
    CASE s = "ST_AUTH"     -> AuthRequest(thing)
      [] s = "ST_REGISTER" -> RegisterRequest(thing)
      [] s = "ST_CONFIG"   -> ConfigRequest(thing)

\* A thing that stays in a waiting state keeps its request before the cloud: above
\* all after EVT_REG_NOT_OK, where get_next_register draws a new id and leaves the
\* request for it to a timer that is running already.
ResendsUntilAnswered ==
    \A s \in Waiting :
        <>[](state = s) => []<>(AwaitedRequest(s) \in to_cloud)

RegisterRejected ==
    \E req \in to_cloud : req.type = "REGISTER" /\ CloudAnswer(req, TRUE)

\* When both links come up and stay up the thing gets online and stays there,
\* unless it is removed, ends in the error state, or the cloud rejects one id
\* after the other: it does not wait for ever in between.
EventuallySettles ==
    <>[](conn_mask = CONN_TYPE) =>
        \/ <>[](state \in {"ST_ONLINE", "ST_UNREGISTER", "ST_ERROR"})
        \/ []<><<RegisterRejected>>_vars
=============================================================================
