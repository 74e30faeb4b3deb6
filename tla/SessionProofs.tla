--------------------------- MODULE SessionProofs ---------------------------
(***************************************************************************)
(* Proofs about Session, for every set of ids and every bound.             *)
(*                                                                         *)
(* Every callback of the thing is one call of sm_input_event, so each      *)
(* invariant is first shown to be preserved by that call, one step per     *)
(* state of the machine, and then by the actions.  A process that ends,    *)
(* between callbacks or inside one, is another case: device_start.         *)
(***************************************************************************)
EXTENDS Session, TLAPS

EVENTS ==
    {"EVT_NOT_READY", "EVT_TIMEOUT", "EVT_READY", "EVT_AUTH_OK",
     "EVT_AUTH_NOT_OK", "EVT_REG_OK", "EVT_REG_NOT_OK", "EVT_CFG_UPT_OK",
     "EVT_CFG_UPT_NOT_OK", "EVT_UNREG_REQ", "EVT_REG_PERM", "EVT_PUB_DATA",
     "EVT_DATA_UPDT"}

\* The part of TypeOK that sm_input_event can change.
SmTypeOK ==
    /\ state \in STATES
    /\ msg_to \in {"null", "armed", "expired"}
    /\ thing \in Creds
    /\ cred_file \in CredFile
    /\ sub \in IdOrNone \cup {Absent}
    /\ active \in BOOLEAN
    /\ to_cloud \in SUBSET Requests
    /\ published \in SUBSET IdOrNone

\* A save either writes the settings, or reports a failure and leaves the file as
\* it was or empty (save_settings).
LEMMA SaveOutcome ==
    ASSUME NEW file \in CredFile, NEW settings \in CredFile,
           NEW r \in save_settings(file, settings)
    PROVE  /\ r.file \in CredFile
           /\ r.ok => r.file = settings
           /\ ~StoreFaults => r.ok
<1>1. EmptyFile \in CredFile
  BY DEF EmptyFile, CredFile
<1>2. \/ r = [ok |-> TRUE, file |-> settings]
      \/ StoreFaults /\ \E f \in {file, EmptyFile} : r = [ok |-> FALSE, file |-> f]
  BY DEF save_settings
<1> QED
  BY <1>1, <1>2

\* Overwriting one key of a pair of credentials keeps the other.
LEMMA Overwrite ==
    ASSUME NEW a, NEW b, NEW c, NEW f, f = [id |-> a, token |-> b]
    PROVE  /\ [f EXCEPT !.id = c] = [id |-> c, token |-> b]
           /\ [f EXCEPT !.token = c] = [id |-> a, token |-> c]
  OBVIOUS

\* Storing credentials keeps the type of the file whatever fails, and success
\* means that both keys were written (properties_store_credentials).
LEMMA StoreOutcome ==
    ASSUME NEW file \in CredFile, NEW id \in IdOrNone, NEW token \in IdOrNone,
           NEW r \in properties_store_credentials(file, id, token)
    PROVE  /\ r.file \in CredFile
           /\ r.ok => r.file = [id |-> id, token |-> token]
           /\ ~StoreFaults => r.ok
<1> DEFINE withToken == [file EXCEPT !.token = token]
           withBoth  == [withToken EXCEPT !.id = id]
           undone    == [withBoth EXCEPT !.token = None]
           first     == save_settings(file, withToken)
           second    == UNION {save_settings(x.file, withBoth) : x \in {y \in first : y.ok}}
           undo      == UNION {save_settings(x.file, undone) : x \in {y \in second : ~y.ok}}
<1>1. withToken \in CredFile /\ withBoth \in CredFile /\ undone \in CredFile
  BY DEF CredFile, IdOrNone
<1>2. withBoth = [id |-> id, token |-> token]
  <2>1. PICK i \in IdOrNone \cup {Absent}, k \in IdOrNone \cup {Absent} :
           file = [id |-> i, token |-> k]
    BY Zenon DEF CredFile
  <2>2. withToken = [id |-> i, token |-> token]
    BY <2>1, Overwrite
  <2> HIDE DEF withToken
  <2> QED
    BY <2>2, Overwrite
<1>3. r \in {y \in first : ~y.ok} \cup {y \in second : y.ok}
           \cup {[ok |-> FALSE, file |-> y.file] : y \in undo}
  BY DEF properties_store_credentials
<1> HIDE DEF withToken, withBoth, undone
<1>4. \A x \in first : x.file \in CredFile /\ (~StoreFaults => x.ok)
  BY <1>1, SaveOutcome
<1>5. \A x \in second :
         /\ x.file \in CredFile
         /\ x.ok => x.file = withBoth
         /\ ~StoreFaults => x.ok
  BY <1>1, <1>4, SaveOutcome
<1>6. \A x \in undo : x.file \in CredFile /\ StoreFaults
  BY <1>1, <1>5, SaveOutcome
<1> HIDE DEF first, second, undo
<1>7. CASE r \in {y \in first : ~y.ok}
  BY <1>4, <1>7
<1>8. CASE r \in {y \in second : y.ok}
  BY <1>2, <1>5, <1>8
<1>9. CASE r \in {[ok |-> FALSE, file |-> y.file] : y \in undo}
  BY <1>6, <1>9
<1> QED
  BY <1>3, <1>7, <1>8, <1>9

\* Clearing them keeps the types as well, and without failures nothing is left in
\* the file or in memory (properties_clear_credentials).
LEMMA ClearOutcome ==
    ASSUME NEW file \in CredFile, NEW th \in Creds,
           NEW r \in properties_clear_credentials(file, th)
    PROVE  /\ r.file \in CredFile
           /\ r.thing \in Creds
           /\ ~StoreFaults => r.file = NoCreds /\ r.thing = NoCreds
<1> DEFINE noToken == [file EXCEPT !.token = None]
           neither == [noToken EXCEPT !.id = None]
           first   == save_settings(file, noToken)
           second  == UNION {save_settings(x.file, neither) : x \in {y \in first : y.ok}}
           half    == [th EXCEPT !.token = None]
           none    == [th EXCEPT !.token = None, !.id = None]
<1>0. PICK i \in IdOrNone \cup {Absent}, k \in IdOrNone \cup {Absent} :
         file = [id |-> i, token |-> k]
  BY Zenon DEF CredFile
<1>0a. PICK ti \in IdOrNone, tk \in IdOrNone : th = [id |-> ti, token |-> tk]
  BY Zenon DEF Creds
<1>1. /\ noToken \in CredFile /\ neither \in CredFile /\ neither = NoCreds
      /\ half \in Creds /\ none \in Creds /\ none = NoCreds
  <2>1. noToken = [id |-> i, token |-> None] /\ half = [id |-> ti, token |-> None]
    BY <1>0, <1>0a, Overwrite
  <2>2. none = [half EXCEPT !.id = None]
    OBVIOUS
  <2> HIDE DEF noToken, half, none
  <2>3. neither = NoCreds /\ none = NoCreds
    BY <2>1, <2>2, Overwrite DEF NoCreds
  <2>4. NoCreds \in Creds /\ NoCreds \in CredFile
    BY DEF NoCreds, Creds, CredFile, IdOrNone
  <2>5. noToken \in CredFile /\ half \in Creds
    BY <2>1 DEF Creds, CredFile, IdOrNone
  <2> QED
    BY <2>3, <2>4, <2>5
<1>2. r \in {[file |-> y.file, thing |-> th] : y \in {x \in first : ~x.ok}}
           \cup {[file |-> y.file, thing |-> half] : y \in {x \in second : ~x.ok}}
           \cup {[file |-> y.file, thing |-> none] : y \in {x \in second : x.ok}}
  BY DEF properties_clear_credentials
<1> HIDE DEF noToken, neither, half, none
<1>3. \A x \in first : x.file \in CredFile /\ (~StoreFaults => x.ok)
  BY <1>1, SaveOutcome
<1>4. \A x \in second :
         /\ x.file \in CredFile
         /\ x.ok => x.file = neither
         /\ ~StoreFaults => x.ok
  BY <1>1, <1>3, SaveOutcome
<1> HIDE DEF first, second
<1>5. CASE r \in {[file |-> y.file, thing |-> th] : y \in {x \in first : ~x.ok}}
  BY <1>3, <1>5
<1>6. CASE r \in {[file |-> y.file, thing |-> half] : y \in {x \in second : ~x.ok}}
  BY <1>1, <1>4, <1>6
<1>7. CASE r \in {[file |-> y.file, thing |-> none] : y \in {x \in second : x.ok}}
  BY <1>1, <1>4, <1>7
<1> QED
  BY <1>2, <1>5, <1>6, <1>7

\* Drawing an id (device_generate_thing_id) changes the id only.
LEMMA GenerateType ==
    ASSUME NEW th \in Creds, NEW new \in device_generate_thing_id(th)
    PROVE  new \in Creds /\ new.token = th.token /\ new.id \in Ids
  BY DEF device_generate_thing_id, Creds, IdOrNone

\* Sending a request keeps to_cloud a set of requests.
LEMMA SendType ==
    ASSUME to_cloud \in SUBSET Requests, NEW req \in Requests, SendRequest(req)
    PROVE  to_cloud' \in SUBSET Requests
  BY DEF SendRequest

LEMMA RequestType ==
    ASSUME NEW th \in Creds
    PROVE  /\ RegisterRequest(th) \in Requests
           /\ AuthRequest(th) \in Requests
           /\ ConfigRequest(th) \in Requests
  BY DEF RegisterRequest, AuthRequest, ConfigRequest, Requests, Creds, IdOrNone

\* Whatever the state and the event, sm_input_event keeps the types.
LEMMA SmTypes ==
    ASSUME SmTypeOK, NEW event \in EVENTS, NEW token \in IdOrNone,
           sm_input_event(event, token)
    PROVE  SmTypeOK'
<1> DEFINE to == Timer(event)
<1>0. to \in {"null", "armed", "expired"}
  BY DEF Timer, SmTypeOK
<1>0a. \A s \in {"null", "armed", "expired"} :
          /\ device_msg_timeout_create(s) \in {"null", "armed", "expired"}
          /\ device_msg_timeout_modify(s) \in {"null", "armed", "expired"}
  BY DEF device_msg_timeout_create, device_msg_timeout_modify
<1>0b. device_msg_timeout_remove \in {"null", "armed", "expired"}
  BY DEF device_msg_timeout_remove
<1>0c. ASSUME NEW s \in {"null", "armed", "expired"}, enter_unregister(s)
       PROVE  SmTypeOK'
  BY <1>0c, ClearOutcome DEF enter_unregister, SmTypeOK, STATES
<1>0d. ASSUME Stay(to) PROVE SmTypeOK'
  BY <1>0, <1>0d DEF Stay, SmTypeOK
<1>0e. ASSUME NEW s \in {"null", "armed", "expired"}, enter_disconnected(s),
              active' \in BOOLEAN
       PROVE  SmTypeOK'
  BY <1>0e DEF enter_disconnected, SmTypeOK, STATES
<1> HIDE DEF to
<1>1. ASSUME get_next_disconnected(event, to) PROVE SmTypeOK'
  <2>1. CASE event = "EVT_READY" /\ device_has_thing_token
    BY <1>0, <1>0a, <1>1, <2>1, SendType, RequestType
       DEF get_next_disconnected, enter_auth, device_send_auth_request,
           device_start_read_cloud, SmTypeOK, STATES, Creds
  <2>2. CASE event = "EVT_READY" /\ ~device_has_thing_token
    BY <1>0, <1>0a, <1>1, <2>2, SendType, RequestType, GenerateType
       DEF get_next_disconnected, enter_register, device_send_register_request,
           device_start_read_cloud, SmTypeOK, STATES, IdOrNone
  <2>3. CASE event # "EVT_READY"
    BY <1>1, <2>3, <1>0d DEF get_next_disconnected
  <2> QED
    BY <2>1, <2>2, <2>3
<1>2. ASSUME get_next_auth(event, to) PROVE SmTypeOK'
  <2>1. CASE event = "EVT_TIMEOUT"
    BY <1>0, <1>0a, <1>2, <2>1, SendType, RequestType
       DEF get_next_auth, device_send_auth_request, SmTypeOK
  <2>2. CASE event = "EVT_AUTH_OK"
    BY <1>0b, <1>0a, <1>2, <2>2, SendType, RequestType
       DEF get_next_auth, enter_config, device_send_config, SmTypeOK, STATES
  <2>3. CASE event \in {"EVT_AUTH_NOT_OK", "EVT_UNREG_REQ"}
    BY <1>2, <2>3, <1>0b, <1>0c DEF get_next_auth
  <2>4. CASE event = "EVT_NOT_READY"
    BY <1>2, <2>4, <1>0b, <1>0e DEF get_next_auth, SmTypeOK
  <2>5. CASE event \notin {"EVT_NOT_READY", "EVT_AUTH_OK", "EVT_AUTH_NOT_OK",
                           "EVT_UNREG_REQ", "EVT_TIMEOUT"}
    BY <1>2, <2>5, <1>0d DEF get_next_auth
  <2> QED
    BY <2>1, <2>2, <2>3, <2>4, <2>5
<1>3. ASSUME get_next_register(event, token, to) PROVE SmTypeOK'
  <2>1. CASE event = "EVT_TIMEOUT"
    BY <1>0, <1>0a, <1>3, <2>1, SendType, RequestType
       DEF get_next_register, device_send_register_request, SmTypeOK
  <2>2. CASE event = "EVT_REG_NOT_OK"
    BY <1>0, <1>3, <2>2, GenerateType
       DEF get_next_register, device_start_read_cloud, SmTypeOK, IdOrNone
  <2>3. CASE event = "EVT_REG_OK"
    <3>1. thing.id \in IdOrNone
      BY DEF SmTypeOK, Creds
    <3>2. PICK r \in properties_store_credentials(cred_file, thing.id, token) :
             /\ cred_file' = r.file
             /\ sub' = sub
             /\ \/ /\ thing' = [thing EXCEPT !.token = token]
                   /\ enter_auth(device_msg_timeout_remove)
                \/ enter_error(device_msg_timeout_remove)
      BY <1>3, <2>3 DEF get_next_register
    <3>3. cred_file' \in CredFile
      BY <3>1, <3>2, StoreOutcome DEF SmTypeOK
    <3>4. CASE /\ thing' = [thing EXCEPT !.token = token]
               /\ enter_auth(device_msg_timeout_remove)
      <4>1. thing' \in Creds
        BY <3>4 DEF SmTypeOK, Creds
      <4> QED
        BY <1>0a, <1>0b, <3>2, <3>3, <3>4, <4>1, SendType, RequestType
           DEF enter_auth, device_send_auth_request, SmTypeOK, STATES
    <3>5. CASE enter_error(device_msg_timeout_remove)
      BY <1>0b, <3>2, <3>3, <3>5 DEF enter_error, SmTypeOK, STATES
    <3> QED
      BY <3>2, <3>4, <3>5
  <2>4. CASE event = "EVT_NOT_READY"
    BY <1>3, <2>4, <1>0b, <1>0e DEF get_next_register, SmTypeOK
  <2>5. CASE event \notin {"EVT_NOT_READY", "EVT_REG_OK", "EVT_REG_NOT_OK",
                           "EVT_TIMEOUT"}
    BY <1>3, <2>5, <1>0d DEF get_next_register
  <2> QED
    BY <2>1, <2>2, <2>3, <2>4, <2>5
<1>4. ASSUME get_next_config(event, to) PROVE SmTypeOK'
  <2>1. CASE event = "EVT_TIMEOUT"
    BY <1>0, <1>0a, <1>4, <2>1, SendType, RequestType
       DEF get_next_config, device_send_config, SmTypeOK
  <2>2. CASE event = "EVT_CFG_UPT_OK"
    BY <1>0b, <1>4, <2>2
       DEF get_next_config, enter_online, device_publish, device_start_event,
           SmTypeOK, STATES, Creds
  <2>3. CASE event = "EVT_CFG_UPT_NOT_OK"
    BY <1>0b, <1>4, <2>3 DEF get_next_config, enter_error, SmTypeOK, STATES
  <2>4. CASE event = "EVT_UNREG_REQ"
    BY <1>4, <2>4, <1>0b, <1>0c DEF get_next_config
  <2>5. CASE event = "EVT_NOT_READY"
    BY <1>4, <2>5, <1>0b, <1>0e DEF get_next_config, SmTypeOK
  <2>6. CASE event \notin {"EVT_NOT_READY", "EVT_CFG_UPT_OK", "EVT_TIMEOUT",
                           "EVT_CFG_UPT_NOT_OK", "EVT_UNREG_REQ"}
    BY <1>4, <2>6, <1>0d DEF get_next_config
  <2> QED
    BY <2>1, <2>2, <2>3, <2>4, <2>5, <2>6
<1>5. ASSUME get_next_online(event, to) PROVE SmTypeOK'
  <2>1. CASE event = "EVT_PUB_DATA"
    BY <1>0, <1>5, <2>1 DEF get_next_online, device_publish, SmTypeOK, Creds
  <2>2. CASE event = "EVT_CFG_UPT_OK"
    BY <1>0, <1>5, <2>2 DEF get_next_online, device_start_event, SmTypeOK
  <2>3. CASE event = "EVT_UNREG_REQ"
    BY <1>5, <2>3, <1>0, <1>0c DEF get_next_online
  <2>4. CASE event = "EVT_NOT_READY"
    BY <1>5, <2>4, <1>0, <1>0e DEF get_next_online, device_stop_event
  <2>5. CASE event \notin {"EVT_NOT_READY", "EVT_PUB_DATA", "EVT_UNREG_REQ",
                           "EVT_CFG_UPT_OK"}
    BY <1>5, <2>5, <1>0d DEF get_next_online
  <2> QED
    BY <2>1, <2>2, <2>3, <2>4, <2>5
<1>6. ASSUME get_next_unregister(event, to) PROVE SmTypeOK'
  <2>1. CASE event = "EVT_REG_PERM"
    BY <1>0, <1>0a, <1>6, <2>1, SendType, RequestType, GenerateType
       DEF get_next_unregister, enter_register, device_send_register_request,
           device_start_read_cloud, SmTypeOK, STATES, IdOrNone
  <2>2. CASE event # "EVT_REG_PERM"
    BY <1>6, <2>2, <1>0d DEF get_next_unregister
  <2> QED
    BY <2>1, <2>2
<1>7. ASSUME get_next_error(to) PROVE SmTypeOK'
  BY <1>7, <1>0d DEF get_next_error
<1> QED
  BY <1>1, <1>2, <1>3, <1>4, <1>5, <1>6, <1>7 DEF sm_input_event, to

\* What on_cloud_receive can raise.
CloudEvents ==
    {"EVT_AUTH_OK", "EVT_AUTH_NOT_OK", "EVT_REG_OK", "EVT_REG_NOT_OK",
     "EVT_CFG_UPT_OK", "EVT_CFG_UPT_NOT_OK", "EVT_UNREG_REQ", "EVT_PUB_DATA",
     "EVT_DATA_UPDT"}

\* A cloud message never raises a timeout, a link event or a permission, and
\* EVT_AUTH_OK only comes from a positive authentication answer.
LEMMA CloudEventType ==
    ASSUME NEW msg \in Messages, CloudEvent(msg) # "none"
    PROVE  /\ CloudEvent(msg) \in CloudEvents
           /\ CloudEvent(msg) = "EVT_AUTH_OK" => msg.type = "AUTH" /\ ~msg.error
<1>1. msg.error \in BOOLEAN
  BY DEF Messages
<1>2. CASE msg.type = "UPDATE"
  BY <1>1, <1>2 DEF CloudEvent, CloudEvents
<1>3. CASE msg.type = "REQUEST"
  BY <1>1, <1>3 DEF CloudEvent, CloudEvents
<1>4. CASE msg.type = "REGISTER"
  BY <1>1, <1>4 DEF CloudEvent, CloudEvents
<1>5. CASE msg.type = "UNREGISTER"
  BY <1>1, <1>5 DEF CloudEvent, CloudEvents
<1>6. CASE msg.type = "AUTH"
  BY <1>1, <1>6 DEF CloudEvent, CloudEvents
<1>7. CASE msg.type = "CONFIG"
  BY <1>1, <1>7 DEF CloudEvent, CloudEvents
<1> QED
  BY <1>2, <1>3, <1>4, <1>5, <1>6, <1>7 DEF Messages

StartsAgain == Restart \/ \E msg \in to_thing : Crash(msg)

\* However the process ended, device_start finds a file with both keys, whatever
\* part of properties_store_credentials or properties_clear_credentials was done.
LEMMA StartedAgain ==
    ASSUME TypeOK, StartsAgain
    PROVE  /\ device_start
           /\ cred_file' \in CredFile
           /\ thing' \in Creds
           /\ to_thing' \subseteq to_thing
<1>1. CASE Restart
  BY <1>1 DEF Restart, device_start, Readable, TypeOK, CredFile, Creds, IdOrNone
<1>2. ASSUME NEW msg \in to_thing, Crash(msg)
      PROVE  /\ device_start
             /\ cred_file' \in CredFile
             /\ thing' \in Creds
             /\ to_thing' \subseteq to_thing
  <2>1. msg.id \in IdOrNone
    BY DEF TypeOK, Messages
  <2>2. cred_file' \in StoreCut(cred_file, msg.id) \cup ClearCut(cred_file)
    BY <1>2 DEF Crash
  <2>3. cred_file' \in CredFile
    BY <2>1, <2>2 DEF StoreCut, ClearCut, EmptyFile, TypeOK, CredFile, IdOrNone
  <2>4. device_start /\ to_thing' \subseteq to_thing
    BY <1>2 DEF Crash
  <2> QED
    BY <2>3, <2>4 DEF device_start, Readable, CredFile, Creds, IdOrNone
<1> QED
  BY <1>1, <1>2 DEF StartsAgain

LEMMA TypeInit == Init => TypeOK
<1> SUFFICES ASSUME Init PROVE TypeOK
  OBVIOUS
<1>1. thing \in Creds /\ cred_file \in CredFile
  BY DEF Init, NoCreds, Creds, CredFile, IdOrNone
<1>2. registered \in SUBSET Ids
  BY <1>1 DEF Init, Creds, IdOrNone
<1> QED
  BY <1>1, <1>2 DEF Init, TypeOK, STATES, CONN_TYPE, IdOrNone

LEMMA TypeInductive ==
    ASSUME TypeOK, [Next]_vars
    PROVE  TypeOK'
<1>1. SmTypeOK
  BY DEF TypeOK, SmTypeOK
<1>2. None \in IdOrNone
  BY DEF IdOrNone
<1>3. ASSUME SmTypeOK', conn_mask' \in SUBSET CONN_TYPE,
             to_thing' \in SUBSET Messages, UNCHANGED <<registered, authenticated>>
      PROVE  TypeOK'
  BY <1>3 DEF TypeOK, SmTypeOK
<1>4. ASSUME NEW conn \in CONN_TYPE, NEW up \in BOOLEAN, conn_handler(conn, up)
      PROVE  TypeOK'
  <2>1. SmTypeOK'
    BY <1>1, <1>2, <1>4, SmTypes DEF conn_handler, EVENTS
  <2>2. conn_mask' \in SUBSET CONN_TYPE
    BY <1>4 DEF conn_handler, set_conn_bitmask, TypeOK
  <2> QED
    BY <2>1, <2>2, <1>3, <1>4 DEF conn_handler, cloud_vars, TypeOK
<1>5. CASE LinkUp
  BY <1>4, <1>5 DEF LinkUp
<1>6. CASE LinkDown
  BY <1>4, <1>6 DEF LinkDown, TypeOK
<1>7. CASE on_msg_timeout
  BY <1>1, <1>2, <1>3, <1>7, SmTypes
     DEF on_msg_timeout, EVENTS, cloud_vars, TypeOK
<1>8. CASE SensorEvent
  BY <1>1, <1>2, <1>3, <1>8, SmTypes
     DEF SensorEvent, EVENTS, cloud_vars, TypeOK
<1>9. ASSUME NEW msg \in to_thing, on_cloud_receive(msg) PROVE TypeOK'
  <2>1. msg \in Messages /\ msg.id \in IdOrNone
    BY DEF TypeOK, Messages
  <2>2. SmTypeOK'
    <3>1. CASE CloudEvent(msg) # "none" /\ sm_input_event(CloudEvent(msg), msg.id)
      BY <1>1, <2>1, <3>1, CloudEventType, SmTypes DEF CloudEvents, EVENTS
    <3>2. CASE UNCHANGED sm_vars
      BY <1>1, <3>2 DEF sm_vars, SmTypeOK
    <3> QED
      BY <1>9, <3>1, <3>2 DEF on_cloud_receive
  <2> QED
    BY <1>3, <1>9, <2>2 DEF on_cloud_receive, TypeOK
<1>10. CASE RegistrationPermitted
  BY <1>1, <1>2, <1>3, <1>10, SmTypes
     DEF RegistrationPermitted, EVENTS, cloud_vars, TypeOK
<1>11. CASE StartsAgain
  BY <1>11, StartedAgain DEF device_start, TypeOK, STATES
<1>12. ASSUME NEW type \in {"UPDATE", "REQUEST", "REGISTER", "UNREGISTER",
                            "AUTH", "CONFIG"},
              NEW id \in IdOrNone, NEW error \in BOOLEAN, Send(type, id, error)
       PROVE  to_thing' \in SUBSET Messages
  BY <1>12 DEF Send, Messages, TypeOK
<1>13. ASSUME NEW req \in to_cloud, NEW error \in BOOLEAN, CloudAnswer(req, error)
       PROVE  TypeOK'
  <2>1. req.id \in IdOrNone
    BY DEF TypeOK, Requests
  <2>2. to_thing' \in SUBSET Messages
    BY <1>12, <1>13, <2>1 DEF CloudAnswer, CloudRegister, CloudAuth, CloudConfig
  <2>3. registered' \in SUBSET Ids /\ authenticated' \in SUBSET Ids
    BY <1>13, <2>1 DEF CloudAnswer, CloudRegister, CloudAuth, CloudConfig, TypeOK, IdOrNone
  <2> QED
    BY <1>13, <2>2, <2>3 DEF CloudAnswer, TypeOK
<1>14. ASSUME NEW type \in Notifications, NEW id \in registered,
              NEW error \in BOOLEAN, CloudNotify(type, id, error)
       PROVE  TypeOK'
  <2>1. to_thing' \in SUBSET Messages
    BY <1>12, <1>14, SessionAssumption DEF CloudNotify, TypeOK, IdOrNone
  <2> QED
    BY <1>14, <2>1 DEF CloudNotify, sm_vars, TypeOK
<1>15. CASE Discard
  BY <1>15 DEF Discard, sm_vars, TypeOK
<1>16. CASE Lose
  BY <1>16 DEF Lose, TypeOK
<1>17. CASE UNCHANGED vars
  BY <1>17 DEF vars, sm_vars, cloud_vars, TypeOK
<1> QED
  BY <1>5, <1>6, <1>7, <1>8, <1>9, <1>10, <1>11, <1>13, <1>14, <1>15, <1>16, <1>17
     DEF Next, Thing, Cloud, StartsAgain

\* The session keeps its types in every step: thing.id and thing.token are
\* strings whatever the credentials file went through, and every message in
\* flight is one that on_cloud_receive knows.
THEOREM TypeCorrect == Spec => []TypeOK
  BY TypeInit, TypeInductive, PTL DEF Spec
-----------------------------------------------------------------------------
(***************************************************************************)
(* The message timer.                                                      *)
(***************************************************************************)

\* sm_input_event removes the timer when a waiting state is left, creates one
\* when a waiting state is entered, and gives an expired one a new delay.
LEMMA SmTimer ==
    ASSUME TimerArmed, NEW event, NEW token, sm_input_event(event, token),
           event = "EVT_TIMEOUT" => msg_to = "armed"
    PROVE  TimerArmed'
<1> USE DEF TimerArmed, Waiting, device_msg_timeout_create,
            device_msg_timeout_modify, device_msg_timeout_remove,
            enter_disconnected, enter_auth, enter_register, enter_config,
            enter_online, enter_unregister, enter_error, Stay
<1> DEFINE to == Timer(event)
<1>0. to = IF event = "EVT_TIMEOUT" THEN "expired" ELSE msg_to
  BY DEF Timer
<1> HIDE DEF to
<1>1. CASE state = "ST_DISCONNECTED" /\ get_next_disconnected(event, to)
  BY <1>0, <1>1 DEF get_next_disconnected
<1>2. CASE state = "ST_AUTH" /\ get_next_auth(event, to)
  BY <1>0, <1>2 DEF get_next_auth
<1>3. CASE state = "ST_REGISTER" /\ get_next_register(event, token, to)
  BY <1>0, <1>3 DEF get_next_register
<1>4. CASE state = "ST_CONFIG" /\ get_next_config(event, to)
  BY <1>0, <1>4 DEF get_next_config
<1>5. CASE state = "ST_ONLINE" /\ get_next_online(event, to)
  BY <1>0, <1>5 DEF get_next_online
<1>6. CASE state = "ST_UNREGISTER" /\ get_next_unregister(event, to)
  BY <1>0, <1>6 DEF get_next_unregister
<1>7. CASE state = "ST_ERROR" /\ get_next_error(to)
  BY <1>0, <1>7 DEF get_next_error
<1> QED
  BY <1>1, <1>2, <1>3, <1>4, <1>5, <1>6, <1>7 DEF sm_input_event, to

\* In every reachable state the timer runs exactly while an answer is awaited
\* (device_msg_timeout_create, _modify and _remove as sm.c calls them).
THEOREM TimerAlwaysArmed == Spec => []TimerArmed
<1>1. Init => TimerArmed
  BY DEF Init, TimerArmed, Waiting
<1>2. TypeOK /\ TimerArmed /\ [Next]_vars => TimerArmed'
  <2> SUFFICES ASSUME TypeOK, TimerArmed, [Next]_vars PROVE TimerArmed'
    OBVIOUS
  <2>1. CASE LinkUp \/ LinkDown
    BY <2>1, SmTimer DEF LinkUp, LinkDown, conn_handler
  <2>2. CASE on_msg_timeout
    BY <2>2, SmTimer DEF on_msg_timeout
  <2>3. CASE SensorEvent
    BY <2>3, SmTimer DEF SensorEvent
  <2>4. ASSUME NEW msg \in to_thing, on_cloud_receive(msg) PROVE TimerArmed'
    <3>1. CASE CloudEvent(msg) # "none" /\ sm_input_event(CloudEvent(msg), msg.id)
      <4>1. CloudEvent(msg) # "EVT_TIMEOUT"
        BY <3>1, CloudEventType DEF CloudEvents, TypeOK
      <4> QED
        BY <3>1, <4>1, SmTimer
    <3>2. CASE UNCHANGED sm_vars
      BY <3>2 DEF sm_vars, TimerArmed
    <3> QED
      BY <2>4, <3>1, <3>2 DEF on_cloud_receive
  <2>5. CASE RegistrationPermitted
    BY <2>5, SmTimer DEF RegistrationPermitted
  <2>6. CASE StartsAgain
    BY <2>6, StartedAgain DEF device_start, TimerArmed, Waiting
  <2>7. CASE Cloud
    BY <2>7 DEF Cloud, CloudAnswer, CloudNotify, Discard, Lose, sm_vars, TimerArmed
  <2>8. CASE UNCHANGED vars
    BY <2>8 DEF vars, sm_vars, TimerArmed
  <2> QED
    BY <2>1, <2>2, <2>3, <2>4, <2>5, <2>6, <2>7, <2>8 DEF Next, Thing, StartsAgain
<1> QED
  BY <1>1, <1>2, TypeCorrect, PTL DEF Spec
-----------------------------------------------------------------------------
(***************************************************************************)
(* Links, events and credentials, when nothing raises EVT_REG_PERM.        *)
(***************************************************************************)

\* What a session keeps besides the properties themselves: a thing registers
\* only when it has no token.
RegisterHasNoToken == state = "ST_REGISTER" => thing.token = None

SessionInv ==
    /\ LinkState
    /\ EventsFollowSession
    /\ RegisterHasNoToken
    /\ SessionPersisted

\* The state follows the links when conn_handler raises EVT_READY exactly with
\* both links up, and other events leave the links alone.
LEMMA SmLink ==
    ASSUME LinkState, NEW event, NEW token, sm_input_event(event, token),
           event # "EVT_REG_PERM",
           event = "EVT_READY" => conn_mask' = CONN_TYPE,
           event = "EVT_NOT_READY" => conn_mask' # CONN_TYPE,
           event \notin {"EVT_READY", "EVT_NOT_READY"} => conn_mask' = conn_mask
    PROVE  LinkState'
<1> USE DEF LinkState, Waiting, enter_disconnected, enter_auth, enter_register,
            enter_config, enter_online, enter_unregister, enter_error, Stay
<1> DEFINE to == Timer(event)
<1> HIDE DEF to
<1>1. CASE state = "ST_DISCONNECTED" /\ get_next_disconnected(event, to)
  BY <1>1 DEF get_next_disconnected
<1>2. CASE state = "ST_AUTH" /\ get_next_auth(event, to)
  BY <1>2 DEF get_next_auth
<1>3. CASE state = "ST_REGISTER" /\ get_next_register(event, token, to)
  BY <1>3 DEF get_next_register
<1>4. CASE state = "ST_CONFIG" /\ get_next_config(event, to)
  BY <1>4 DEF get_next_config
<1>5. CASE state = "ST_ONLINE" /\ get_next_online(event, to)
  BY <1>5 DEF get_next_online
<1>6. CASE state = "ST_UNREGISTER" /\ get_next_unregister(event, to)
  BY <1>6 DEF get_next_unregister
<1>7. CASE state = "ST_ERROR" /\ get_next_error(to)
  BY <1>7 DEF get_next_error
<1> QED
  BY <1>1, <1>2, <1>3, <1>4, <1>5, <1>6, <1>7 DEF sm_input_event, to

\* Events are started on the way into ST_ONLINE and stopped on the way out,
\* except on the way to ST_UNREGISTER.
LEMMA SmEvents ==
    ASSUME EventsFollowSession, NEW event, NEW token,
           sm_input_event(event, token), event # "EVT_REG_PERM"
    PROVE  EventsFollowSession'
<1> USE DEF EventsFollowSession, enter_disconnected, enter_auth, enter_register,
            enter_config, enter_online, enter_unregister, enter_error, Stay,
            device_start_event, device_stop_event
<1> DEFINE to == Timer(event)
<1> HIDE DEF to
<1>1. CASE state = "ST_DISCONNECTED" /\ get_next_disconnected(event, to)
  BY <1>1 DEF get_next_disconnected
<1>2. CASE state = "ST_AUTH" /\ get_next_auth(event, to)
  BY <1>2 DEF get_next_auth
<1>3. CASE state = "ST_REGISTER" /\ get_next_register(event, token, to)
  BY <1>3 DEF get_next_register
<1>4. CASE state = "ST_CONFIG" /\ get_next_config(event, to)
  BY <1>4 DEF get_next_config
<1>5. CASE state = "ST_ONLINE" /\ get_next_online(event, to)
  BY <1>5 DEF get_next_online
<1>6. CASE state = "ST_UNREGISTER" /\ get_next_unregister(event, to)
  BY <1>6 DEF get_next_unregister
<1>7. CASE state = "ST_ERROR" /\ get_next_error(to)
  BY <1>7 DEF get_next_error
<1> QED
  BY <1>1, <1>2, <1>3, <1>4, <1>5, <1>6, <1>7 DEF sm_input_event, to

\* The file and the memory change together, or the session is over.
LEMMA SmPersisted ==
    ASSUME SmTypeOK, RegisterHasNoToken, SessionPersisted, NEW event,
           NEW token \in IdOrNone, sm_input_event(event, token), event # "EVT_REG_PERM"
    PROVE  RegisterHasNoToken' /\ SessionPersisted'
<1> USE DEF RegisterHasNoToken, SessionPersisted, enter_disconnected, enter_auth,
            enter_register, enter_config, enter_online, enter_unregister,
            enter_error, Stay
<1> DEFINE to == Timer(event)
<1> HIDE DEF to
<1>0. \A new \in device_generate_thing_id(thing) : new.token = thing.token
  BY GenerateType DEF SmTypeOK
<1>1. CASE state = "ST_DISCONNECTED" /\ get_next_disconnected(event, to)
  BY <1>0, <1>1 DEF get_next_disconnected, device_has_thing_token
<1>2. CASE state = "ST_AUTH" /\ get_next_auth(event, to)
  BY <1>2 DEF get_next_auth
<1>3. CASE state = "ST_REGISTER" /\ get_next_register(event, token, to)
  <2>1. CASE event = "EVT_REG_OK"
    <3>1. PICK r \in properties_store_credentials(cred_file, thing.id, token) :
             /\ cred_file' = r.file
             /\ \/ /\ r.ok
                   /\ thing' = [thing EXCEPT !.token = token]
                   /\ enter_auth(device_msg_timeout_remove)
                \/ enter_error(device_msg_timeout_remove)
      BY <1>3, <2>1 DEF get_next_register
    <3>2. CASE /\ r.ok
               /\ thing' = [thing EXCEPT !.token = token]
               /\ enter_auth(device_msg_timeout_remove)
      <4>1. cred_file' = [id |-> thing.id, token |-> token]
        BY <3>1, <3>2, StoreOutcome DEF SmTypeOK, Creds
      <4>2. thing'.id = thing.id /\ thing'.token = token
        BY <3>2 DEF SmTypeOK, Creds
      <4> QED
        BY <3>2, <4>1, <4>2
    <3>3. CASE enter_error(device_msg_timeout_remove)
      BY <3>3
    <3> QED
      BY <3>1, <3>2, <3>3
  <2>2. CASE event # "EVT_REG_OK"
    BY <1>0, <1>3, <2>2 DEF get_next_register
  <2> QED
    BY <2>1, <2>2
<1>4. CASE state = "ST_CONFIG" /\ get_next_config(event, to)
  BY <1>4 DEF get_next_config
<1>5. CASE state = "ST_ONLINE" /\ get_next_online(event, to)
  BY <1>5 DEF get_next_online
<1>6. CASE state = "ST_UNREGISTER" /\ get_next_unregister(event, to)
  BY <1>6 DEF get_next_unregister
<1>7. CASE state = "ST_ERROR" /\ get_next_error(to)
  BY <1>7 DEF get_next_error
<1> QED
  BY <1>1, <1>2, <1>3, <1>4, <1>5, <1>6, <1>7 DEF sm_input_event, to

\* The parts of SessionInv are preserved together by every step.
LEMMA SessionInvInductive ==
    ASSUME ~PermissionEvents, TypeOK, SessionInv, [Next]_vars
    PROVE  SessionInv'
<1>0. SmTypeOK /\ None \in IdOrNone
  BY DEF TypeOK, SmTypeOK, IdOrNone
<1>1. ASSUME NEW event, NEW token \in IdOrNone, sm_input_event(event, token),
             event # "EVT_REG_PERM",
             event = "EVT_READY" => conn_mask' = CONN_TYPE,
             event = "EVT_NOT_READY" => conn_mask' # CONN_TYPE,
             event \notin {"EVT_READY", "EVT_NOT_READY"} => conn_mask' = conn_mask
      PROVE  SessionInv'
  BY <1>0, <1>1, SmLink, SmEvents, SmPersisted DEF SessionInv
<1>2. CASE LinkUp \/ LinkDown
  BY <1>0, <1>1, <1>2 DEF LinkUp, LinkDown, conn_handler
<1>3. CASE on_msg_timeout
  BY <1>0, <1>1, <1>3 DEF on_msg_timeout
<1>4. CASE SensorEvent
  BY <1>0, <1>1, <1>4 DEF SensorEvent
<1>5. ASSUME NEW msg \in to_thing, on_cloud_receive(msg) PROVE SessionInv'
  <2>1. CASE CloudEvent(msg) # "none" /\ sm_input_event(CloudEvent(msg), msg.id)
    <3>1. CloudEvent(msg) \in CloudEvents /\ msg.id \in IdOrNone
      BY <2>1, CloudEventType DEF TypeOK, Messages
    <3> QED
      BY <1>1, <1>5, <2>1, <3>1 DEF CloudEvents, on_cloud_receive
  <2>2. CASE UNCHANGED sm_vars
    BY <1>5, <2>2 DEF sm_vars, on_cloud_receive, SessionInv, LinkState,
       EventsFollowSession, RegisterHasNoToken, SessionPersisted
  <2> QED
    BY <1>5, <2>1, <2>2 DEF on_cloud_receive
<1>6. CASE RegistrationPermitted
  BY <1>6 DEF RegistrationPermitted
<1>7. CASE StartsAgain
  BY <1>7, StartedAgain DEF device_start, SessionInv, LinkState, Waiting, CONN_TYPE,
     EventsFollowSession, RegisterHasNoToken, SessionPersisted
<1>8. CASE Cloud
  BY <1>8 DEF Cloud, CloudAnswer, CloudNotify, Discard, Lose, sm_vars, SessionInv,
     LinkState, EventsFollowSession, RegisterHasNoToken, SessionPersisted
<1>9. CASE UNCHANGED vars
  BY <1>9 DEF vars, sm_vars, SessionInv, LinkState, EventsFollowSession,
     RegisterHasNoToken, SessionPersisted
<1> QED
  BY <1>2, <1>3, <1>4, <1>5, <1>6, <1>7, <1>8, <1>9 DEF Next, Thing, StartsAgain

LEMMA SessionInvInit == Init => SessionInv
  BY DEF Init, SessionInv, LinkState, Waiting, CONN_TYPE, EventsFollowSession,
     RegisterHasNoToken, SessionPersisted

LEMMA SessionInvAlways ==
    ASSUME ~PermissionEvents
    PROVE  Spec => [](TypeOK /\ SessionInv)
<1>1. TypeOK /\ SessionInv /\ [Next]_vars => SessionInv'
  BY SessionInvInductive
<1> QED
  BY <1>1, SessionInvInit, TypeCorrect, PTL DEF Spec

\* The session never runs without both links, and a thing with both links up is
\* never left disconnected (conn_handler and the EVT_NOT_READY cases of sm.c).
THEOREM LinksFollowed ==
    ASSUME ~PermissionEvents
    PROVE  Spec => []LinkState
<1>1. SessionInv => LinkState
  BY DEF SessionInv
<1> QED
  BY <1>1, SessionInvAlways, PTL

\* Sensor events are active in ST_ONLINE, and nowhere from where the thing could
\* come online again (enter_online, device_stop_event).
THEOREM EventsFollowed ==
    ASSUME ~PermissionEvents
    PROVE  Spec => []EventsFollowSession
<1>1. SessionInv => EventsFollowSession
  BY DEF SessionInv
<1> QED
  BY <1>1, SessionInvAlways, PTL

\* While the session can go on, a restart resumes it with the same credentials,
\* even when writes to the credentials file fail (properties.c).
THEOREM SessionAlwaysPersisted ==
    ASSUME ~PermissionEvents
    PROVE  Spec => []SessionPersisted
<1>1. SessionInv => SessionPersisted
  BY DEF SessionInv
<1> QED
  BY <1>1, SessionInvAlways, PTL

\* sm_input_event changes the credentials of a thing that has a token only when
\* it enters ST_UNREGISTER.
LEMMA SmIdentity ==
    ASSUME RegisterHasNoToken, NEW event, NEW token, sm_input_event(event, token),
           thing.token # None, state \notin {"ST_UNREGISTER", "ST_ERROR"},
           thing' # thing
    PROVE  state' = "ST_UNREGISTER"
<1> USE DEF RegisterHasNoToken, enter_disconnected, enter_auth, enter_config,
            enter_online, enter_unregister, enter_error, Stay
<1> DEFINE to == Timer(event)
<1> HIDE DEF to
<1>1. CASE state = "ST_DISCONNECTED" /\ get_next_disconnected(event, to)
  BY <1>1 DEF get_next_disconnected, device_has_thing_token
<1>2. CASE state = "ST_AUTH" /\ get_next_auth(event, to)
  BY <1>2 DEF get_next_auth
<1>3. CASE state = "ST_CONFIG" /\ get_next_config(event, to)
  BY <1>3 DEF get_next_config
<1>4. CASE state = "ST_ONLINE" /\ get_next_online(event, to)
  BY <1>4 DEF get_next_online
<1>5. state # "ST_REGISTER"
  OBVIOUS
<1> QED
  BY <1>1, <1>2, <1>3, <1>4, <1>5 DEF sm_input_event, to

\* No interleaving of answers, timeouts, link changes and restarts between
\* callbacks takes the credentials away from a thing that is neither removed nor
\* in ST_ERROR.
THEOREM IdentityAlwaysKept ==
    ASSUME ~PermissionEvents, ~Crashes
    PROVE  Spec => IdentityKept
<1> DEFINE A == /\ state \notin {"ST_UNREGISTER", "ST_ERROR"}
                /\ thing.token # None
                /\ thing' # thing
                => state' = "ST_UNREGISTER"
<1>1. ASSUME TypeOK, SessionInv, [Next]_vars PROVE A \/ UNCHANGED vars
  <2> SUFFICES ASSUME state \notin {"ST_UNREGISTER", "ST_ERROR"},
                      thing.token # None, thing' # thing
               PROVE  state' = "ST_UNREGISTER"
    OBVIOUS
  <2>1. ASSUME NEW event, NEW token, sm_input_event(event, token)
        PROVE  state' = "ST_UNREGISTER"
    BY <1>1, <2>1, SmIdentity DEF SessionInv
  <2>2. CASE LinkUp \/ LinkDown
    BY <2>1, <2>2 DEF LinkUp, LinkDown, conn_handler
  <2>3. CASE on_msg_timeout \/ SensorEvent \/ RegistrationPermitted
    BY <2>1, <2>3 DEF on_msg_timeout, SensorEvent, RegistrationPermitted
  <2>4. ASSUME NEW msg \in to_thing, on_cloud_receive(msg)
        PROVE  state' = "ST_UNREGISTER"
    BY <2>1, <2>4 DEF on_cloud_receive, sm_vars
  <2>5. CASE StartsAgain
    <3>0. Restart
      BY <2>5 DEF StartsAgain, Crash
    <3>1. thing'.id = thing.id /\ thing'.token = thing.token
      BY <1>1, <3>0 DEF Restart, device_start, SessionInv, SessionPersisted
    <3>2. thing \in Creds /\ thing' \in CredFile
      BY <1>1, <3>0 DEF Restart, device_start, TypeOK
    <3> QED
      BY <3>1, <3>2 DEF Creds, CredFile
  <2>6. CASE Cloud \/ UNCHANGED vars
    BY <2>6 DEF Cloud, CloudAnswer, CloudNotify, Discard, Lose, vars, sm_vars
  <2> QED
    BY <1>1, <2>2, <2>3, <2>4, <2>5, <2>6 DEF Next, Thing, StartsAgain
<1>2. TypeOK /\ SessionInv /\ [Next]_vars => [A]_vars
  BY <1>1
<1> HIDE DEF A
<1>3. Spec => [][A]_vars
  BY <1>2, SessionInvAlways, PTL DEF Spec
<1> QED
  BY <1>3 DEF IdentityKept, A
-----------------------------------------------------------------------------
(***************************************************************************)
(* Authorisation, when the broker only delivers the messages of the id the *)
(* thing has subscribed to.                                                *)
(***************************************************************************)

\* A thing in a session listens to its own id.
ListensToOwnId == state \in Waiting \cup {"ST_ONLINE"} => sub = thing.id

\* A positive authentication answer is about credentials that were accepted.
AnswersHonest ==
    \A msg \in to_thing :
        msg.type = "AUTH" /\ ~msg.error => msg.id \in authenticated

AuthInv == ListensToOwnId /\ AnswersHonest /\ OnlineAuthorised

\* Whatever the event, the subscription follows the id (device_start_read_cloud
\* after every device_generate_thing_id).
LEMMA SmListens ==
    ASSUME StrictRouting, ~ReadStartFails, SmTypeOK, ListensToOwnId,
           NEW event, NEW token, sm_input_event(event, token)
    PROVE  ListensToOwnId'
<1> USE DEF ListensToOwnId, Waiting, device_start_read_cloud, enter_disconnected,
            enter_auth, enter_register, enter_config, enter_online,
            enter_unregister, enter_error, Stay
<1> DEFINE to == Timer(event)
<1> HIDE DEF to
<1>1. CASE state = "ST_DISCONNECTED" /\ get_next_disconnected(event, to)
  BY <1>1 DEF get_next_disconnected
<1>2. CASE state = "ST_AUTH" /\ get_next_auth(event, to)
  BY <1>2 DEF get_next_auth
<1>3. CASE state = "ST_REGISTER" /\ get_next_register(event, token, to)
  BY <1>3 DEF get_next_register, SmTypeOK, Creds
<1>4. CASE state = "ST_CONFIG" /\ get_next_config(event, to)
  BY <1>4 DEF get_next_config
<1>5. CASE state = "ST_ONLINE" /\ get_next_online(event, to)
  BY <1>5 DEF get_next_online
<1>6. CASE state = "ST_UNREGISTER" /\ get_next_unregister(event, to)
  BY <1>6 DEF get_next_unregister
<1>7. CASE state = "ST_ERROR" /\ get_next_error(to)
  BY <1>7 DEF get_next_error
<1> QED
  BY <1>1, <1>2, <1>3, <1>4, <1>5, <1>6, <1>7 DEF sm_input_event, to

\* Only EVT_AUTH_OK leads to ST_CONFIG, and only ST_CONFIG to ST_ONLINE, where
\* alone data is published.
LEMMA SmAuthorised ==
    ASSUME OnlineAuthorised, NEW event, NEW token, sm_input_event(event, token),
           authenticated' = authenticated,
           event = "EVT_AUTH_OK" /\ state = "ST_AUTH" => thing.id \in authenticated
    PROVE  OnlineAuthorised'
<1> USE DEF OnlineAuthorised, device_publish, enter_disconnected, enter_auth,
            enter_register, enter_config, enter_online, enter_unregister,
            enter_error, Stay
<1> DEFINE to == Timer(event)
<1> HIDE DEF to
<1>1. CASE state = "ST_DISCONNECTED" /\ get_next_disconnected(event, to)
  BY <1>1 DEF get_next_disconnected
<1>2. CASE state = "ST_AUTH" /\ get_next_auth(event, to)
  BY <1>2 DEF get_next_auth
<1>3. CASE state = "ST_REGISTER" /\ get_next_register(event, token, to)
  BY <1>3 DEF get_next_register
<1>4. CASE state = "ST_CONFIG" /\ get_next_config(event, to)
  BY <1>4 DEF get_next_config
<1>5. CASE state = "ST_ONLINE" /\ get_next_online(event, to)
  BY <1>5 DEF get_next_online
<1>6. CASE state = "ST_UNREGISTER" /\ get_next_unregister(event, to)
  BY <1>6 DEF get_next_unregister
<1>7. CASE state = "ST_ERROR" /\ get_next_error(to)
  BY <1>7 DEF get_next_error
<1> QED
  BY <1>1, <1>2, <1>3, <1>4, <1>5, <1>6, <1>7 DEF sm_input_event, to

\* A positive authentication answer is about credentials that were accepted, also
\* after a step of the cloud.
LEMMA CloudHonest ==
    ASSUME Cloud, AnswersHonest, OnlineAuthorised
    PROVE  AnswersHonest' /\ OnlineAuthorised'
<1>1. OnlineAuthorised'
  BY DEF Cloud, CloudAnswer, CloudRegister, CloudAuth, CloudConfig,
     CloudNotify, Discard, Lose, sm_vars, OnlineAuthorised
<1>2. ASSUME NEW req \in to_cloud, NEW error \in BOOLEAN, CloudAnswer(req, error)
      PROVE  AnswersHonest'
  BY <1>2 DEF CloudAnswer, CloudRegister, CloudAuth, CloudConfig, Send, AnswersHonest
<1>3. ASSUME NEW type \in Notifications, NEW id \in registered,
             NEW error \in BOOLEAN, CloudNotify(type, id, error)
      PROVE  AnswersHonest'
  BY <1>3, SessionAssumption DEF CloudNotify, Send, AnswersHonest
<1>4. CASE Discard \/ Lose
  <2>1. to_thing' \subseteq to_thing
    BY <1>4 DEF Discard, Lose
  <2>2. authenticated' = authenticated
    BY <1>4 DEF Discard, Lose
  <2> QED
    BY <1>1, <2>1, <2>2 DEF AnswersHonest
<1> QED
  BY <1>1, <1>2, <1>3, <1>4 DEF Cloud

\* A thing configures itself and publishes only under an id whose credentials
\* the cloud accepted, under every loss, reordering, duplicate and write failure.
THEOREM AlwaysAuthorised ==
    ASSUME StrictRouting, ~ReadStartFails
    PROVE  Spec => []OnlineAuthorised
<1>1. Init => AuthInv
  BY DEF Init, AuthInv, ListensToOwnId, AnswersHonest, OnlineAuthorised, Waiting
<1>2. TypeOK /\ AuthInv /\ [Next]_vars => AuthInv'
  <2> SUFFICES ASSUME TypeOK, AuthInv, [Next]_vars PROVE AuthInv'
    OBVIOUS
  <2>0. SmTypeOK
    BY DEF TypeOK, SmTypeOK
  <2>1. ASSUME NEW event, NEW token, sm_input_event(event, token),
               event # "EVT_AUTH_OK", UNCHANGED cloud_vars
        PROVE  AuthInv'
    BY <2>0, <2>1, SmListens, SmAuthorised DEF AuthInv, AnswersHonest, cloud_vars
  <2>2. CASE LinkUp \/ LinkDown
    BY <2>1, <2>2 DEF LinkUp, LinkDown, conn_handler
  <2>3. CASE on_msg_timeout \/ SensorEvent \/ RegistrationPermitted
    BY <2>1, <2>3 DEF on_msg_timeout, SensorEvent, RegistrationPermitted
  <2>4. ASSUME NEW msg \in to_thing, on_cloud_receive(msg) PROVE AuthInv'
    <3>1. AnswersHonest'
      BY <2>4 DEF on_cloud_receive, AuthInv, AnswersHonest
    <3>2. CASE CloudEvent(msg) # "none" /\ sm_input_event(CloudEvent(msg), msg.id)
      <4>1. CloudEvent(msg) = "EVT_AUTH_OK" /\ state = "ST_AUTH"
            => thing.id \in authenticated
        <5>1. msg \in Messages
          BY DEF TypeOK
        <5>2. CloudEvent(msg) = "EVT_AUTH_OK" => msg.id \in authenticated
          BY <3>2, <5>1, CloudEventType DEF AuthInv, AnswersHonest
        <5>3. state = "ST_AUTH" => msg.id = thing.id
          BY <2>4 DEF on_cloud_receive, Deliverable, AuthInv, ListensToOwnId, Waiting
        <5> QED
          BY <5>2, <5>3
      <4> QED
        BY <2>0, <2>4, <3>1, <3>2, <4>1, SmListens, SmAuthorised
           DEF AuthInv, on_cloud_receive
    <3>3. CASE UNCHANGED sm_vars
      BY <2>4, <3>1, <3>3
         DEF sm_vars, on_cloud_receive, AuthInv, ListensToOwnId, OnlineAuthorised
    <3> QED
      BY <2>4, <3>2, <3>3 DEF on_cloud_receive
  <2>5. CASE StartsAgain
    BY <2>5, StartedAgain DEF device_start, AuthInv, ListensToOwnId, AnswersHonest,
       OnlineAuthorised, Waiting
  <2>6. CASE Cloud
    <3>1. ListensToOwnId'
      BY <2>6 DEF Cloud, CloudAnswer, CloudNotify, Discard, Lose, sm_vars, AuthInv,
         ListensToOwnId
    <3> QED
      BY <2>6, <3>1, CloudHonest DEF AuthInv
  <2>7. CASE UNCHANGED vars
    BY <2>7 DEF vars, sm_vars, cloud_vars, AuthInv, ListensToOwnId, AnswersHonest,
       OnlineAuthorised
  <2> QED
    BY <2>2, <2>3, <2>4, <2>5, <2>6, <2>7 DEF Next, Thing, StartsAgain
<1>3. AuthInv => OnlineAuthorised
  BY DEF AuthInv
<1> QED
  BY <1>1, <1>2, <1>3, TypeCorrect, PTL DEF Spec
-----------------------------------------------------------------------------
(***************************************************************************)
(* Credentials, when besides no write to the credentials file fails.       *)
(***************************************************************************)

NoTokenOutside ==
    state \in {"ST_REGISTER", "ST_UNREGISTER"} => thing.token = None

CredInv == ListensToOwnId /\ NoTokenOutside /\ CredentialsMatch

\* The token of an answer is stored under the current id, which is the id of the
\* answer because the thing listens to nothing else.
LEMMA SmCredentials ==
    ASSUME ~StoreFaults, SmTypeOK, CredInv, NEW event, NEW token,
           sm_input_event(event, token),
           event = "EVT_REG_OK" /\ state = "ST_REGISTER" => token = thing.id
    PROVE  NoTokenOutside' /\ CredentialsMatch'
<1> USE DEF CredInv, NoTokenOutside, CredentialsMatch, enter_disconnected,
            enter_auth, enter_register, enter_config, enter_online, enter_error,
            Stay
<1> DEFINE to == Timer(event)
<1> HIDE DEF to
<1>0. \A new \in device_generate_thing_id(thing) : new.token = thing.token
  BY GenerateType DEF SmTypeOK
<1>0a. ASSUME NEW t, enter_unregister(t) PROVE NoTokenOutside' /\ CredentialsMatch'
  BY <1>0a, ClearOutcome DEF enter_unregister, NoCreds, SmTypeOK
<1>1. CASE state = "ST_DISCONNECTED" /\ get_next_disconnected(event, to)
  BY <1>0, <1>1 DEF get_next_disconnected, device_has_thing_token
<1>2. CASE state = "ST_AUTH" /\ get_next_auth(event, to)
  BY <1>0a, <1>2 DEF get_next_auth
<1>3. CASE state = "ST_REGISTER" /\ get_next_register(event, token, to)
  <2>1. CASE event = "EVT_REG_OK"
    <3>1. /\ cred_file' = [id |-> thing.id, token |-> thing.id]
          /\ \/ /\ thing' = [thing EXCEPT !.token = thing.id]
                /\ enter_auth(device_msg_timeout_remove)
             \/ enter_error(device_msg_timeout_remove)
      <4>1. thing.id \in IdOrNone /\ token = thing.id
        BY <1>3, <2>1 DEF SmTypeOK, Creds
      <4>2. PICK r \in properties_store_credentials(cred_file, thing.id, token) :
               /\ cred_file' = r.file
               /\ \/ /\ thing' = [thing EXCEPT !.token = token]
                     /\ enter_auth(device_msg_timeout_remove)
                  \/ enter_error(device_msg_timeout_remove)
        BY <1>3, <2>1 DEF get_next_register
      <4>3. r.ok /\ (r.ok => r.file = [id |-> thing.id, token |-> thing.id])
        BY <4>1, StoreOutcome DEF SmTypeOK
      <4> QED
        BY <4>1, <4>2, <4>3
    <3>2. thing' = [thing EXCEPT !.token = thing.id] => thing'.token = thing'.id
      BY DEF SmTypeOK, Creds
    <3> QED
      BY <1>3, <3>1, <3>2
  <2>2. CASE event # "EVT_REG_OK"
    BY <1>0, <1>3, <2>2 DEF get_next_register
  <2> QED
    BY <2>1, <2>2
<1>4. CASE state = "ST_CONFIG" /\ get_next_config(event, to)
  BY <1>0a, <1>4 DEF get_next_config
<1>5. CASE state = "ST_ONLINE" /\ get_next_online(event, to)
  BY <1>0a, <1>5 DEF get_next_online
<1>6. CASE state = "ST_UNREGISTER" /\ get_next_unregister(event, to)
  BY <1>0, <1>6 DEF get_next_unregister
<1>7. CASE state = "ST_ERROR" /\ get_next_error(to)
  BY <1>7 DEF get_next_error
<1> QED
  BY <1>1, <1>2, <1>3, <1>4, <1>5, <1>6, <1>7 DEF sm_input_event, to

\* What is delivered to a registering thing is about its own id, the token of a
\* registration answer included (on_cloud_receive).
LEMMA DeliveredIsOwn ==
    ASSUME StrictRouting, ListensToOwnId, NEW msg, Deliverable(msg),
           state = "ST_REGISTER"
    PROVE  msg.id = thing.id
  BY DEF Deliverable, ListensToOwnId, Waiting

\* A token is held and stored only with its own id, whatever the order of
\* answers, rejections, timeouts, link losses and restarts.
THEOREM CredentialsAlwaysMatch ==
    ASSUME StrictRouting, ~StoreFaults, ~ReadStartFails, ~Crashes
    PROVE  Spec => []CredentialsMatch
<1>1. Init => CredInv
  <2> SUFFICES ASSUME Init PROVE CredInv
    OBVIOUS
  <2>1. CASE cred_file = NoCreds
    BY <2>1 DEF Init, CredInv, ListensToOwnId, NoTokenOutside, CredentialsMatch,
       Waiting, NoCreds
  <2>2. CASE \E id \in Ids : cred_file = [id |-> id, token |-> id]
    BY <2>2 DEF Init, CredInv, ListensToOwnId, NoTokenOutside, CredentialsMatch,
       Waiting
  <2> QED
    BY <2>1, <2>2 DEF Init
<1>2. TypeOK /\ CredInv /\ [Next]_vars => CredInv'
  <2> SUFFICES ASSUME TypeOK, CredInv, [Next]_vars PROVE CredInv'
    OBVIOUS
  <2>0. SmTypeOK
    BY DEF TypeOK, SmTypeOK
  <2>1. ASSUME NEW event, NEW token, sm_input_event(event, token),
               event = "EVT_REG_OK" /\ state = "ST_REGISTER" => token = thing.id
        PROVE  CredInv'
    <3>1. ListensToOwnId'
      BY <2>0, <2>1, SmListens DEF CredInv
    <3>2. NoTokenOutside' /\ CredentialsMatch'
      BY <2>0, <2>1, SmCredentials
    <3> QED
      BY <3>1, <3>2 DEF CredInv
  <2>2. CASE LinkUp \/ LinkDown
    BY <2>1, <2>2 DEF LinkUp, LinkDown, conn_handler
  <2>3. CASE on_msg_timeout \/ SensorEvent \/ RegistrationPermitted
    BY <2>1, <2>3 DEF on_msg_timeout, SensorEvent, RegistrationPermitted
  <2>4. ASSUME NEW msg \in to_thing, on_cloud_receive(msg) PROVE CredInv'
    <3>1. CASE sm_input_event(CloudEvent(msg), msg.id)
      <4>1. state = "ST_REGISTER" => msg.id = thing.id
        BY <2>4, DeliveredIsOwn DEF on_cloud_receive, CredInv
      <4> QED
        BY <2>1, <3>1, <4>1
    <3>2. CASE UNCHANGED sm_vars
      BY <3>2 DEF sm_vars, CredInv, ListensToOwnId, NoTokenOutside, CredentialsMatch
    <3> QED
      BY <2>4, <3>1, <3>2 DEF on_cloud_receive
  <2>5. CASE StartsAgain
    BY <2>5 DEF StartsAgain, Crash, Restart, device_start, Readable, CredInv, ListensToOwnId, NoTokenOutside,
       CredentialsMatch, Waiting
  <2>6. CASE Cloud
    BY <2>6 DEF Cloud, CloudAnswer, CloudNotify, Discard, Lose, sm_vars, CredInv,
       ListensToOwnId, NoTokenOutside, CredentialsMatch
  <2>7. CASE UNCHANGED vars
    BY <2>7 DEF vars, sm_vars, CredInv, ListensToOwnId, NoTokenOutside,
       CredentialsMatch
  <2> QED
    BY <2>2, <2>3, <2>4, <2>5, <2>6, <2>7 DEF Next, Thing, StartsAgain
<1>3. CredInv => CredentialsMatch
  BY DEF CredInv
<1> QED
  BY <1>1, <1>2, <1>3, TypeCorrect, PTL DEF Spec
-----------------------------------------------------------------------------
(***************************************************************************)
(* Authorisation, when knot_cloud_read_start can fail.  The thing may then *)
(* listen to an id it has given up, and takes the answers for that id for  *)
(* its own: its token is stored with the new id, and a positive AUTH_MSG   *)
(* would bring the new id online.  That no such message can come rests on  *)
(* the history of the old id: it was drawn when nobody knew of it, and was *)
(* given up before it had a token, so no AUTH request was ever made of it. *)
(***************************************************************************)

\* No authentication of the id is on its way, in either direction.
NotAsked(id) ==
    \A m \in to_cloud \cup to_thing : m.type = "AUTH" => m.id # id

\* While the session can go on: an id that the thing listens to, and that is not
\* its own or has no token yet, was never presented for authentication.
OldIdNotAsked ==
    /\ state \notin {"ST_UNREGISTER", "ST_ERROR"}
    /\ sub # Absent
    /\ sub # thing.id \/ thing.token = None
    => sub \in Ids /\ NotAsked(sub)

TokenOnceRegistered ==
    state \in {"ST_AUTH", "ST_CONFIG", "ST_ONLINE"} => thing.token # None

\* AUTH requests are sent in ST_AUTH only, with the id of the thing (enter_auth and
\* the timeout of get_next_auth).
LEMMA SmAsks ==
    ASSUME NEW event, NEW token, sm_input_event(event, token)
    PROVE  \A m \in to_cloud' : m.type = "AUTH" =>
              m \in to_cloud \/ (state' = "ST_AUTH" /\ m.id = thing'.id)
<1> USE DEF SendRequest, RegisterRequest, AuthRequest, ConfigRequest,
            device_send_register_request, device_send_auth_request,
            device_send_config, enter_disconnected, enter_auth, enter_register,
            enter_config, enter_online, enter_unregister, enter_error, Stay
<1> DEFINE to == Timer(event)
<1> HIDE DEF to
<1>1. CASE state = "ST_DISCONNECTED" /\ get_next_disconnected(event, to)
  BY <1>1 DEF get_next_disconnected
<1>2. CASE state = "ST_AUTH" /\ get_next_auth(event, to)
  BY <1>2 DEF get_next_auth
<1>3. CASE state = "ST_REGISTER" /\ get_next_register(event, token, to)
  BY <1>3 DEF get_next_register
<1>4. CASE state = "ST_CONFIG" /\ get_next_config(event, to)
  BY <1>4 DEF get_next_config
<1>5. CASE state = "ST_ONLINE" /\ get_next_online(event, to)
  BY <1>5 DEF get_next_online
<1>6. CASE state = "ST_UNREGISTER" /\ get_next_unregister(event, to)
  BY <1>6 DEF get_next_unregister
<1>7. CASE state = "ST_ERROR" /\ get_next_error(to)
  BY <1>7 DEF get_next_error
<1> QED
  BY <1>1, <1>2, <1>3, <1>4, <1>5, <1>6, <1>7 DEF sm_input_event, to

\* How the id that the thing listens to comes about, unless the session is over: it
\* is kept, by a thing that has no token or keeps its credentials; it was just
\* drawn; or it is that of a thing with a token.
LEMMA SmSubscribes ==
    ASSUME SmTypeOK, RegisterHasNoToken, NEW event, NEW token,
           sm_input_event(event, token), event # "EVT_REG_PERM"
    PROVE  \/ state' \in {"ST_UNREGISTER", "ST_ERROR"}
           \/ /\ state \notin {"ST_UNREGISTER", "ST_ERROR"}
              /\ sub' = sub
              /\ thing' = thing \/ thing.token = None
           \/ thing' \in device_generate_thing_id(thing) /\ sub' = thing'.id
           \/ thing'.token # None /\ sub' = thing'.id
<1> USE DEF RegisterHasNoToken, device_start_read_cloud, device_has_thing_token,
            enter_disconnected, enter_auth, enter_register, enter_config,
            enter_online, enter_unregister, enter_error, Stay
<1> DEFINE to == Timer(event)
<1> HIDE DEF to
<1>1. CASE state = "ST_DISCONNECTED" /\ get_next_disconnected(event, to)
  BY <1>1 DEF get_next_disconnected
<1>2. CASE state = "ST_AUTH" /\ get_next_auth(event, to)
  BY <1>2 DEF get_next_auth
<1>3. CASE state = "ST_REGISTER" /\ get_next_register(event, token, to)
  BY <1>3 DEF get_next_register
<1>4. CASE state = "ST_CONFIG" /\ get_next_config(event, to)
  BY <1>4 DEF get_next_config
<1>5. CASE state = "ST_ONLINE" /\ get_next_online(event, to)
  BY <1>5 DEF get_next_online
<1>6. CASE state = "ST_UNREGISTER" /\ get_next_unregister(event, to)
  BY <1>6 DEF get_next_unregister
<1>7. CASE state = "ST_ERROR" /\ get_next_error(to)
  BY <1>7 DEF get_next_error
<1> QED
  BY <1>1, <1>2, <1>3, <1>4, <1>5, <1>6, <1>7 DEF sm_input_event, to

\* The token of a registration answer is not empty, so a thing that authenticates
\* itself has one.
LEMMA SmToken ==
    ASSUME SmTypeOK, TokenOnceRegistered, NEW event, NEW token,
           sm_input_event(event, token),
           event = "EVT_REG_OK" /\ state = "ST_REGISTER" => token # None
    PROVE  TokenOnceRegistered'
<1> USE DEF TokenOnceRegistered, device_has_thing_token, enter_disconnected,
            enter_auth, enter_register, enter_config, enter_online,
            enter_unregister, enter_error, Stay
<1> DEFINE to == Timer(event)
<1> HIDE DEF to
<1>1. CASE state = "ST_DISCONNECTED" /\ get_next_disconnected(event, to)
  BY <1>1 DEF get_next_disconnected
<1>2. CASE state = "ST_AUTH" /\ get_next_auth(event, to)
  BY <1>2 DEF get_next_auth
<1>3. CASE state = "ST_REGISTER" /\ get_next_register(event, token, to)
  BY <1>3 DEF get_next_register, SmTypeOK, Creds
<1>4. CASE state = "ST_CONFIG" /\ get_next_config(event, to)
  BY <1>4 DEF get_next_config
<1>5. CASE state = "ST_ONLINE" /\ get_next_online(event, to)
  BY <1>5 DEF get_next_online
<1>6. CASE state = "ST_UNREGISTER" /\ get_next_unregister(event, to)
  BY <1>6 DEF get_next_unregister
<1>7. CASE state = "ST_ERROR" /\ get_next_error(to)
  BY <1>7 DEF get_next_error
<1> QED
  BY <1>1, <1>2, <1>3, <1>4, <1>5, <1>6, <1>7 DEF sm_input_event, to

\* An id that is drawn is one that nobody was asked about (device_generate_thing_id).
LEMMA FreshNotAsked ==
    ASSUME FreshIds, SmTypeOK, NEW new \in device_generate_thing_id(thing)
    PROVE  new.id \in Ids /\ NotAsked(new.id)
<1>1. PICK id \in Ids \ KnownIds : new = [thing EXCEPT !.id = id]
  BY DEF device_generate_thing_id
<1>2. new.id = id
  BY <1>1 DEF SmTypeOK, Creds
<1> QED
  BY <1>1, <1>2 DEF KnownIds, NotAsked

LEMMA SmOldId ==
    ASSUME FreshIds, SmTypeOK, RegisterHasNoToken, OldIdNotAsked, TokenOnceRegistered',
           NEW event, NEW token, sm_input_event(event, token), event # "EVT_REG_PERM",
           to_thing' \subseteq to_thing
    PROVE  OldIdNotAsked'
<1> SUFFICES ASSUME state' \notin {"ST_UNREGISTER", "ST_ERROR"}, sub' # Absent,
                    sub' # thing'.id \/ thing'.token = None
             PROVE  /\ sub' \in Ids
                    /\ \A m \in to_cloud' \cup to_thing' : m.type = "AUTH" => m.id # sub'
  BY DEF OldIdNotAsked, NotAsked
<1>1. sub' \in Ids /\ \A m \in to_cloud \cup to_thing : m.type = "AUTH" => m.id # sub'
  <2>1. CASE /\ state \notin {"ST_UNREGISTER", "ST_ERROR"}
             /\ sub' = sub
             /\ thing' = thing \/ thing.token = None
    BY <2>1 DEF OldIdNotAsked, NotAsked
  <2>2. CASE thing' \in device_generate_thing_id(thing) /\ sub' = thing'.id
    BY <2>2, FreshNotAsked DEF NotAsked
  <2>3. ~(thing'.token # None /\ sub' = thing'.id)
    OBVIOUS
  <2> QED
    BY <2>1, <2>2, <2>3, SmSubscribes
<1>2. state' = "ST_AUTH" => sub' # thing'.id
  BY DEF TokenOnceRegistered
<1> QED
  BY <1>1, <1>2, SmAsks

\* The cloud answers an AUTH request with the id it has, and asks for no
\* authentication by itself.
LEMMA CloudAsksNothing ==
    ASSUME Cloud, OldIdNotAsked
    PROVE  OldIdNotAsked'
<1>1. UNCHANGED <<state, thing, sub>>
  BY DEF Cloud, CloudAnswer, CloudNotify, Discard, Lose, sm_vars
<1>2. \A m \in to_cloud' \cup to_thing' : m.type = "AUTH" =>
         \E n \in to_cloud \cup to_thing : n.type = "AUTH" /\ n.id = m.id
  <2>1. ASSUME NEW req \in to_cloud, NEW error \in BOOLEAN, CloudAnswer(req, error)
        PROVE  \A m \in to_cloud' \cup to_thing' : m.type = "AUTH" =>
                  \E n \in to_cloud \cup to_thing : n.type = "AUTH" /\ n.id = m.id
    BY <2>1 DEF CloudAnswer, CloudRegister, CloudAuth, CloudConfig, Send
  <2>2. ASSUME NEW type \in Notifications, NEW id \in registered,
               NEW error \in BOOLEAN, CloudNotify(type, id, error)
        PROVE  \A m \in to_cloud' \cup to_thing' : m.type = "AUTH" =>
                  m \in to_cloud \cup to_thing
    BY <2>2, SessionAssumption DEF CloudNotify, Send, sm_vars
  <2>3. CASE Discard \/ Lose
    BY <2>3 DEF Discard, Lose, sm_vars
  <2> QED
    BY <2>1, <2>2, <2>3 DEF Cloud
<1> QED
  BY <1>1, <1>2 DEF OldIdNotAsked, NotAsked

FreshInv ==
    OldIdNotAsked /\ TokenOnceRegistered /\ AnswersHonest /\ OnlineAuthorised

LEMMA FreshInvInductive ==
    ASSUME StrictRouting, FreshIds, ~PermissionEvents,
           TypeOK, RegisterHasNoToken, FreshInv, [Next]_vars
    PROVE  FreshInv'
<1>0. SmTypeOK
  BY DEF TypeOK, SmTypeOK
<1>1. ASSUME NEW event, NEW token, sm_input_event(event, token),
             event \notin {"EVT_REG_PERM", "EVT_REG_OK", "EVT_AUTH_OK"},
             UNCHANGED cloud_vars
      PROVE  FreshInv'
  <2>1. TokenOnceRegistered'
    BY <1>0, <1>1, SmToken DEF FreshInv
  <2>2. OldIdNotAsked'
    BY <1>0, <1>1, <2>1, SmOldId DEF FreshInv, cloud_vars
  <2>3. AnswersHonest' /\ OnlineAuthorised'
    BY <1>1, SmAuthorised DEF FreshInv, AnswersHonest, cloud_vars
  <2> QED
    BY <2>1, <2>2, <2>3 DEF FreshInv
<1>2. CASE LinkUp \/ LinkDown
  BY <1>1, <1>2 DEF LinkUp, LinkDown, conn_handler
<1>3. CASE on_msg_timeout \/ SensorEvent
  BY <1>1, <1>3 DEF on_msg_timeout, SensorEvent
<1>4. ASSUME NEW msg \in to_thing, on_cloud_receive(msg) PROVE FreshInv'
  <2>0. /\ msg \in Messages
        /\ msg.id = sub
        /\ to_thing' \subseteq to_thing
        /\ authenticated' = authenticated
    BY <1>4 DEF on_cloud_receive, Deliverable, TypeOK
  <2>1. AnswersHonest'
    BY <2>0 DEF FreshInv, AnswersHonest
  <2>2. CASE CloudEvent(msg) # "none" /\ sm_input_event(CloudEvent(msg), msg.id)
    <3>1. /\ CloudEvent(msg) # "EVT_REG_PERM"
          /\ CloudEvent(msg) = "EVT_AUTH_OK" => msg.type = "AUTH" /\ ~msg.error
      BY <2>0, <2>2, CloudEventType DEF CloudEvents
    <3>2. sub # Absent
      BY <2>0, CredentialsAssumption DEF Messages, IdOrNone
    <3>3. state = "ST_REGISTER" => msg.id # None
      BY <2>0, <3>2, CredentialsAssumption DEF FreshInv, OldIdNotAsked, RegisterHasNoToken
    <3>4. TokenOnceRegistered'
      BY <1>0, <2>2, <3>3, SmToken DEF FreshInv
    <3>5. OldIdNotAsked'
      BY <1>0, <2>0, <2>2, <3>1, <3>4, SmOldId DEF FreshInv
    <3>6. CloudEvent(msg) = "EVT_AUTH_OK" /\ state = "ST_AUTH"
          => thing.id \in authenticated
      <4> SUFFICES ASSUME CloudEvent(msg) = "EVT_AUTH_OK", state = "ST_AUTH"
                   PROVE  thing.id \in authenticated
        OBVIOUS
      <4>1. msg.id \in authenticated
        BY <3>1 DEF FreshInv, AnswersHonest
      <4>2. sub = thing.id
        BY <2>0, <3>1, <3>2 DEF FreshInv, OldIdNotAsked, NotAsked
      <4> QED
        BY <2>0, <4>1, <4>2
    <3>7. OnlineAuthorised'
      BY <2>0, <2>2, <3>6, SmAuthorised DEF FreshInv
    <3> QED
      BY <2>1, <3>4, <3>5, <3>7 DEF FreshInv
  <2>3. CASE UNCHANGED sm_vars
    BY <2>0, <2>1, <2>3 DEF sm_vars, FreshInv, OldIdNotAsked, NotAsked,
       TokenOnceRegistered, OnlineAuthorised
  <2> QED
    BY <1>4, <2>2, <2>3 DEF on_cloud_receive
<1>5. CASE StartsAgain
  BY <1>5, StartedAgain DEF device_start, FreshInv, OldIdNotAsked, TokenOnceRegistered,
     AnswersHonest, OnlineAuthorised
<1>6. CASE Cloud
  <2>1. TokenOnceRegistered'
    BY <1>6 DEF Cloud, CloudAnswer, CloudNotify, Discard, Lose, sm_vars, FreshInv,
       TokenOnceRegistered
  <2> QED
    BY <1>6, <2>1, CloudAsksNothing, CloudHonest DEF FreshInv
<1>7. CASE UNCHANGED vars
  BY <1>7 DEF vars, sm_vars, cloud_vars, FreshInv, OldIdNotAsked, NotAsked,
     TokenOnceRegistered, AnswersHonest, OnlineAuthorised
<1>8. ~RegistrationPermitted
  BY DEF RegistrationPermitted
<1> QED
  BY <1>2, <1>3, <1>4, <1>5, <1>6, <1>7, <1>8 DEF Next, Thing, StartsAgain

\* As long as ids are fresh, a subscription that fails (device_start_read_cloud, whose
\* result sm.c ignores) never lets a thing configure itself or publish under an id
\* that the cloud did not accept, although it then stores the token of one id with
\* another.
THEOREM AuthorisedWithoutSubscription ==
    ASSUME StrictRouting, FreshIds, ~PermissionEvents
    PROVE  Spec => []OnlineAuthorised
<1>1. Init => FreshInv
  BY DEF Init, FreshInv, OldIdNotAsked, TokenOnceRegistered, AnswersHonest,
     OnlineAuthorised
<1>2. TypeOK /\ SessionInv /\ FreshInv /\ [Next]_vars => FreshInv'
  BY FreshInvInductive DEF SessionInv
<1>3. FreshInv => OnlineAuthorised
  BY DEF FreshInv
<1> QED
  BY <1>1, <1>2, <1>3, SessionInvAlways, PTL DEF Spec
=============================================================================
