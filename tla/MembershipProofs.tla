-------------------------- MODULE MembershipProofs --------------------------
(***************************************************************************)
(* Session implements Membership, for every set of ids and every bound.    *)
(*                                                                         *)
(* The invariants are those of SessionProofs; what is new is that a thing  *)
(* that registers has an id, so that the token it gets is not empty.       *)
(***************************************************************************)
EXTENDS SessionMembership, SessionProofs

-----------------------------------------------------------------------------
(***************************************************************************)
(* A thing that authenticates itself has a token, whatever the broker      *)
(* delivers and whatever fails.                                            *)
(***************************************************************************)

\* A thing registers under an id it has drawn, and the cloud answers to that id.
RegistersNamed ==
    /\ state = "ST_REGISTER" => thing.id # None
    /\ \A m \in to_cloud \cup to_thing : m.type = "REGISTER" => m.id # None

NamedInv == RegistersNamed /\ TokenOnceRegistered

\* REGISTER requests are sent in ST_REGISTER only (enter_register and the timeout of
\* get_next_register), after an id was drawn.
LEMMA SmNamed ==
    ASSUME SmTypeOK, RegistersNamed, NEW event, NEW token, sm_input_event(event, token),
           to_thing' \subseteq to_thing
    PROVE  RegistersNamed'
<1> USE DEF SendRequest, RegisterRequest, AuthRequest, ConfigRequest,
            device_send_register_request, device_send_auth_request,
            device_send_config, enter_disconnected, enter_auth, enter_register,
            enter_config, enter_online, enter_unregister, enter_error, Stay
<1> DEFINE to == Timer(event)
<1> HIDE DEF to
<1>0. \A new \in device_generate_thing_id(thing) : new.id # None
  BY GenerateType, CredentialsAssumption DEF SmTypeOK
<1>8. /\ state' = "ST_REGISTER" => thing'.id # None
      /\ \A m \in to_cloud' : m.type = "REGISTER" =>
            m \in to_cloud \/ (state' = "ST_REGISTER" /\ m.id = thing'.id)
  <2>1. CASE state = "ST_DISCONNECTED" /\ get_next_disconnected(event, to)
    BY <1>0, <2>1 DEF get_next_disconnected
  <2>2. CASE state = "ST_AUTH" /\ get_next_auth(event, to)
    BY <2>2 DEF get_next_auth
  <2>3. CASE state = "ST_REGISTER" /\ get_next_register(event, token, to)
    BY <1>0, <2>3 DEF get_next_register, RegistersNamed
  <2>4. CASE state = "ST_CONFIG" /\ get_next_config(event, to)
    BY <2>4 DEF get_next_config
  <2>5. CASE state = "ST_ONLINE" /\ get_next_online(event, to)
    BY <2>5 DEF get_next_online
  <2>6. CASE state = "ST_UNREGISTER" /\ get_next_unregister(event, to)
    BY <1>0, <2>6 DEF get_next_unregister
  <2>7. CASE state = "ST_ERROR" /\ get_next_error(to)
    BY <2>7 DEF get_next_error
  <2> QED
    BY <2>1, <2>2, <2>3, <2>4, <2>5, <2>6, <2>7 DEF sm_input_event, to
<1> QED
  BY <1>8 DEF RegistersNamed

\* The cloud answers a REGISTER request with the id it has.
LEMMA CloudNamed ==
    ASSUME Cloud, RegistersNamed
    PROVE  RegistersNamed'
<1>1. UNCHANGED <<state, thing>>
  BY DEF Cloud, CloudAnswer, CloudNotify, Discard, Lose, sm_vars
<1>2. ASSUME NEW req \in to_cloud, NEW error \in BOOLEAN, CloudAnswer(req, error)
      PROVE  \A m \in to_cloud' \cup to_thing' : m.type = "REGISTER" => m.id # None
  BY <1>2 DEF CloudAnswer, CloudRegister, CloudAuth, CloudConfig, Send, RegistersNamed
<1>3. ASSUME NEW type \in Notifications, NEW id \in registered,
             NEW error \in BOOLEAN, CloudNotify(type, id, error)
      PROVE  \A m \in to_cloud' \cup to_thing' : m.type = "REGISTER" => m.id # None
  BY <1>3, SessionAssumption DEF CloudNotify, Send, sm_vars, RegistersNamed
<1>4. CASE Discard \/ Lose
  BY <1>4 DEF Discard, Lose, sm_vars, RegistersNamed
<1> QED
  BY <1>1, <1>2, <1>3, <1>4 DEF Cloud, RegistersNamed

\* Only a registration answer raises EVT_REG_OK.
LEMMA RegisteredByAnswer ==
    ASSUME NEW msg \in Messages, CloudEvent(msg) = "EVT_REG_OK"
    PROVE  msg.type = "REGISTER"
  BY DEF CloudEvent, Messages

LEMMA NamedInductive ==
    ASSUME TypeOK, NamedInv, [Next]_vars
    PROVE  NamedInv'
<1>0. SmTypeOK
  BY DEF TypeOK, SmTypeOK
<1>1. ASSUME NEW event, NEW token, sm_input_event(event, token),
             event = "EVT_REG_OK" => token # None, to_thing' \subseteq to_thing
      PROVE  NamedInv'
  BY <1>0, <1>1, SmNamed, SmToken DEF NamedInv
<1>2. CASE LinkUp \/ LinkDown
  BY <1>1, <1>2 DEF LinkUp, LinkDown, conn_handler, cloud_vars
<1>3. CASE on_msg_timeout \/ SensorEvent \/ RegistrationPermitted
  BY <1>1, <1>3 DEF on_msg_timeout, SensorEvent, RegistrationPermitted, cloud_vars
<1>4. ASSUME NEW msg \in to_thing, on_cloud_receive(msg) PROVE NamedInv'
  <2>1. CloudEvent(msg) = "EVT_REG_OK" => msg.id # None
    BY RegisteredByAnswer DEF TypeOK, NamedInv, RegistersNamed
  <2>2. to_thing' \subseteq to_thing
    BY <1>4 DEF on_cloud_receive
  <2>3. CASE sm_input_event(CloudEvent(msg), msg.id)
    BY <1>1, <2>1, <2>2, <2>3
  <2>4. CASE UNCHANGED sm_vars
    BY <2>2, <2>4 DEF sm_vars, NamedInv, RegistersNamed, TokenOnceRegistered
  <2> QED
    BY <1>4, <2>3, <2>4 DEF on_cloud_receive
<1>5. CASE StartsAgain
  BY <1>5, StartedAgain DEF device_start, NamedInv, RegistersNamed, TokenOnceRegistered
<1>6. CASE Cloud
  <2>1. TokenOnceRegistered'
    BY <1>6 DEF Cloud, CloudAnswer, CloudNotify, Discard, Lose, sm_vars, NamedInv,
       TokenOnceRegistered
  <2> QED
    BY <1>6, <2>1, CloudNamed DEF NamedInv
<1>7. CASE UNCHANGED vars
  BY <1>7 DEF vars, sm_vars, cloud_vars, NamedInv, RegistersNamed, TokenOnceRegistered
<1> QED
  BY <1>2, <1>3, <1>4, <1>5, <1>6, <1>7 DEF Next, Thing, StartsAgain

LEMMA NamedAlways == Spec => []NamedInv
<1>1. Init => NamedInv
  BY DEF Init, NamedInv, RegistersNamed, TokenOnceRegistered
<1>2. TypeOK /\ NamedInv /\ [Next]_vars => NamedInv'
  BY NamedInductive
<1> QED
  BY <1>1, <1>2, TypeCorrect, PTL DEF Spec

\* A thing that authenticates itself, is configured or is online holds a token
\* (get_next_disconnected, get_next_register), under every delivery and every fault.
THEOREM TokenAlwaysHeld == Spec => []TokenOnceRegistered
<1>1. NamedInv => TokenOnceRegistered
  BY DEF NamedInv
<1> QED
  BY <1>1, NamedAlways, PTL
-----------------------------------------------------------------------------
(***************************************************************************)
(* The steps of Membership, in terms of the variables of Session.          *)
(***************************************************************************)

LEMMA PhaseIs ==
    /\ state = "ST_DISCONNECTED" => Phase = "away"
    /\ state \in Waiting => Phase = "joining"
    /\ state = "ST_ONLINE" => Phase = "online"
    /\ state \in {"ST_UNREGISTER", "ST_ERROR"} => Phase = "over"
    /\ state' = "ST_DISCONNECTED" => Phase' = "away"
    /\ state' \in Waiting => Phase' = "joining"
    /\ state' = "ST_ONLINE" => Phase' = "online"
    /\ state' \in {"ST_UNREGISTER", "ST_ERROR"} => Phase' = "over"
<1>1. /\ state = "ST_DISCONNECTED" => Phase = "away"
      /\ state \in Waiting => Phase = "joining"
      /\ state = "ST_ONLINE" => Phase = "online"
      /\ state \in {"ST_UNREGISTER", "ST_ERROR"} => Phase = "over"
  BY DEF Phase, Waiting
<1>2. /\ state' = "ST_DISCONNECTED" => Phase' = "away"
      /\ state' \in Waiting => Phase' = "joining"
      /\ state' = "ST_ONLINE" => Phase' = "online"
      /\ state' \in {"ST_UNREGISTER", "ST_ERROR"} => Phase' = "over"
  BY DEF Phase, Waiting
<1> QED
  BY <1>1, <1>2

\* The parts of the mapping that a step leaves alone.
SameLink   == (conn_mask' = CONN_TYPE) <=> (conn_mask = CONN_TYPE)
SameMember == thing'.id = thing.id /\ ((thing'.token = None) <=> (thing.token = None))
SameCloud  == UNCHANGED <<authenticated, published>>

LEMMA StutterStep ==
    ASSUME Phase' = Phase, SameLink, SameMember, SameCloud
    PROVE  UNCHANGED M!vars
  BY DEF M!vars, SameLink, SameMember, SameCloud

LEMMA ConnectStep ==
    ASSUME conn_mask # CONN_TYPE, conn_mask' = CONN_TYPE, SameCloud,
           \/ /\ Phase = "away" /\ Phase' = "joining"
              /\ thing.token # None /\ SameMember
           \/ /\ Phase = "away" /\ Phase' = "joining"
              /\ thing.token = None /\ thing'.token = None
              /\ thing'.id \in Ids \ {thing.id}
           \/ Phase = "over" /\ Phase' = "over" /\ SameMember
    PROVE  M!Connect
  BY DEF M!Connect, SameMember, SameCloud

LEMMA DisconnectStep ==
    ASSUME conn_mask = CONN_TYPE, conn_mask' # CONN_TYPE, SameCloud, SameMember,
           IF Phase = "over" THEN Phase' = "over" ELSE Phase' = "away"
    PROVE  M!Disconnect
  BY DEF M!Disconnect, SameMember, SameCloud

LEMMA RenameStep ==
    ASSUME Phase = "joining", Phase' = "joining", SameLink, SameCloud,
           thing.token = None, thing'.token = None, thing'.id \in Ids \ {thing.id}
    PROVE  M!Rename
  BY DEF M!Rename, SameLink, SameCloud

LEMMA EnrolStep ==
    ASSUME Phase = "joining", Phase' = "joining", SameLink, SameCloud,
           thing.token = None, thing'.token # None, thing'.id = thing.id
    PROVE  M!Enrol
  BY DEF M!Enrol, SameLink, SameCloud

LEMMA AcceptStep ==
    ASSUME NEW id, Phase' = Phase, SameLink, SameMember,
           authenticated' = authenticated \cup {id}, published' = published
    PROVE  M!Accept(id)
  BY DEF M!Accept, SameLink, SameMember

LEMMA AdmitStep ==
    ASSUME Phase = "joining", Phase' = "online", SameLink, SameMember,
           thing.token # None, thing.id \in authenticated,
           published' = published \cup {thing.id}, authenticated' = authenticated
    PROVE  M!Admit
  BY DEF M!Admit, SameLink, SameMember

LEMMA ReportStep ==
    ASSUME Phase = "online", Phase' = "online", SameLink, SameMember,
           published' = published \cup {thing.id}, authenticated' = authenticated
    PROVE  M!Report
  BY DEF M!Report, SameLink, SameMember

LEMMA RemoveStep ==
    ASSUME Phase \in {"joining", "online"}, Phase' = "over", SameLink, SameCloud,
           thing.token # None,
           \/ SameMember
           \/ thing'.token = None /\ thing'.id \in {thing.id, None}
    PROVE  M!Remove
  BY DEF M!Remove, M!Forget, SameLink, SameMember, SameCloud

LEMMA FailStep ==
    ASSUME Phase = "joining", Phase' = "over", SameLink, SameMember, SameCloud
    PROVE  M!Fail
  BY DEF M!Fail, SameLink, SameMember, SameCloud
-----------------------------------------------------------------------------
(***************************************************************************)
(* The steps of Session.                                                   *)
(***************************************************************************)

\* An id that is drawn is another one (device_generate_thing_id).
LEMMA GenerateRenames ==
    ASSUME NEW th \in Creds, NEW new \in device_generate_thing_id(th)
    PROVE  new.token = th.token /\ new.id \in Ids \ {th.id}
  BY DEF device_generate_thing_id, Creds

\* Clearing the credentials erases the token before the id, and each in memory only
\* after the file (properties_clear_credentials).
LEMMA ClearForgets ==
    ASSUME NEW file, NEW th \in Creds, NEW r \in properties_clear_credentials(file, th)
    PROVE  r.thing = th \/ (r.thing.token = None /\ r.thing.id \in {th.id, None})
<1>1. r.thing \in {th, [th EXCEPT !.token = None], [th EXCEPT !.token = None, !.id = None]}
  <2> DEFINE noToken == [file EXCEPT !.token = None]
             neither == [noToken EXCEPT !.id = None]
             first   == save_settings(file, noToken)
             second  == UNION {save_settings(x.file, neither) : x \in {y \in first : y.ok}}
             half    == [th EXCEPT !.token = None]
             none    == [th EXCEPT !.token = None, !.id = None]
  <2>1. r \in {[file |-> y.file, thing |-> th] : y \in {x \in first : ~x.ok}}
             \cup {[file |-> y.file, thing |-> half] : y \in {x \in second : ~x.ok}}
             \cup {[file |-> y.file, thing |-> none] : y \in {x \in second : x.ok}}
    BY DEF properties_clear_credentials
  <2> HIDE DEF noToken, neither, first, second, half, none
  <2>2. r.thing \in {th, half, none}
    BY <2>1
  <2> QED
    BY <2>2 DEF half, none
<1>2. PICK i \in IdOrNone, k \in IdOrNone : th = [id |-> i, token |-> k]
  BY Zenon DEF Creds
<1> DEFINE half == [th EXCEPT !.token = None]
           none == [th EXCEPT !.token = None, !.id = None]
<1>3. half = [id |-> i, token |-> None]
  BY <1>2, Overwrite
<1>4. none = [half EXCEPT !.id = None]
  OBVIOUS
<1> HIDE DEF half, none
<1>5. none = [id |-> None, token |-> None]
  BY <1>3, <1>4, Overwrite
<1>6. r.thing \in {th, half, none}
  BY <1>1 DEF half, none
<1> QED
  BY <1>2, <1>3, <1>5, <1>6

\* What is known of a reachable state.
KnownInv ==
    TypeOK /\ LinkState /\ SessionPersisted /\ RegisterHasNoToken /\ TokenOnceRegistered
    /\ OnlineAuthorised

\* Every call of sm_input_event is a step of Membership or none.
LEMMA SmMember ==
    ASSUME KnownInv, NEW event, NEW token \in IdOrNone, sm_input_event(event, token),
           event # "EVT_REG_PERM",
           event = "EVT_REG_OK" /\ state = "ST_REGISTER" => token # None,
           event = "EVT_READY" => conn_mask' = CONN_TYPE,
           event = "EVT_NOT_READY" => conn_mask' # CONN_TYPE,
           event \notin {"EVT_READY", "EVT_NOT_READY"} => conn_mask' = conn_mask,
           authenticated' = authenticated
    PROVE  M!Next \/ UNCHANGED M!vars
<1> DEFINE to == Timer(event)
<1> HIDE DEF to
<1> USE DEF KnownInv
<1>0. thing \in Creds
  BY DEF TypeOK
<1>a. state \in Waiting \cup {"ST_ONLINE"} => conn_mask = CONN_TYPE
  BY DEF LinkState
<1>b. ASSUME state \in Waiting \cup {"ST_ONLINE"}, event # "EVT_NOT_READY"
      PROVE  SameLink
  BY <1>a, <1>b DEF SameLink
<1>c. ASSUME NEW t, state \in Waiting, Stay(t), event # "EVT_NOT_READY"
      PROVE  UNCHANGED M!vars
  <2>1. Phase' = Phase /\ SameMember /\ SameCloud
    BY <1>c, PhaseIs DEF Stay, SameMember, SameCloud
  <2> QED
    BY <1>b, <1>c, <2>1, StutterStep
<1>d. ASSUME NEW t, state \in Waiting \cup {"ST_ONLINE"}, enter_disconnected(t),
             event = "EVT_NOT_READY"
      PROVE  M!Disconnect
  <2>1. Phase \in {"joining", "online"} /\ Phase' = "away" /\ SameMember /\ SameCloud
    BY <1>d, PhaseIs DEF enter_disconnected, SameMember, SameCloud
  <2> QED
    BY <1>a, <1>d, <2>1, DisconnectStep
<1>e. ASSUME NEW t, state \in {"ST_AUTH", "ST_CONFIG", "ST_ONLINE"}, enter_unregister(t),
             event # "EVT_NOT_READY"
      PROVE  M!Remove
  <2>1. thing' = thing \/ (thing'.token = None /\ thing'.id \in {thing.id, None})
    BY <1>0, <1>e, ClearForgets DEF enter_unregister
  <2>2. Phase \in {"joining", "online"} /\ Phase' = "over" /\ SameCloud
    BY <1>e, PhaseIs DEF enter_unregister, Waiting, SameCloud
  <2>3. thing.token # None
    BY <1>e DEF TokenOnceRegistered
  <2> QED
    BY <1>b, <1>e, <2>1, <2>2, <2>3, RemoveStep DEF SameMember, Waiting
<1>f. ASSUME NEW t, state \in Waiting, enter_error(t), event # "EVT_NOT_READY"
      PROVE  M!Fail
  <2>1. Phase = "joining" /\ Phase' = "over" /\ SameMember /\ SameCloud
    BY <1>f, PhaseIs DEF enter_error, SameMember, SameCloud
  <2> QED
    BY <1>b, <1>f, <2>1, FailStep
<1>g. ASSUME state \in Waiting, state' = state, thing' = thing, published' = published,
             event # "EVT_NOT_READY"
      PROVE  UNCHANGED M!vars
  <2>1. Phase' = Phase /\ SameMember /\ SameCloud
    BY <1>g, PhaseIs DEF SameMember, SameCloud
  <2> QED
    BY <1>b, <1>g, <2>1, StutterStep
<1>1. CASE state = "ST_DISCONNECTED" /\ get_next_disconnected(event, to)
  <2>0. conn_mask # CONN_TYPE /\ Phase = "away"
    BY <1>1, PhaseIs DEF LinkState
  <2>1. CASE /\ event = "EVT_READY"
             /\ device_has_thing_token
             /\ UNCHANGED <<thing, cred_file>>
             /\ enter_auth(to)
    <3>1. Phase' = "joining" /\ SameMember /\ SameCloud /\ thing.token # None
      BY <2>1, PhaseIs DEF enter_auth, device_has_thing_token, Waiting, SameMember, SameCloud
    <3> QED
      BY <2>0, <2>1, <3>1, ConnectStep DEF M!Next
  <2>2. CASE /\ event = "EVT_READY"
             /\ ~device_has_thing_token
             /\ thing' \in device_generate_thing_id(thing)
             /\ enter_register(to)
    <3>1. Phase' = "joining" /\ SameCloud /\ thing.token = None
      BY <2>2, PhaseIs DEF enter_register, device_has_thing_token, Waiting, SameCloud
    <3>2. thing'.token = None /\ thing'.id \in Ids \ {thing.id}
      BY <1>0, <2>2, <3>1, GenerateRenames
    <3> QED
      BY <2>0, <2>2, <3>1, <3>2, ConnectStep DEF M!Next
  <2>3. CASE event # "EVT_READY" /\ Stay(to)
    <3>1. Phase' = Phase /\ SameMember /\ SameCloud
      BY <1>1, <2>3, PhaseIs DEF Stay, SameMember, SameCloud
    <3>2. SameLink
      BY <2>0, <2>3 DEF SameLink
    <3> QED
      BY <3>1, <3>2, StutterStep
  <2> QED
    BY <1>1, <2>1, <2>2, <2>3 DEF get_next_disconnected
<1>2. CASE state = "ST_AUTH" /\ get_next_auth(event, to)
  <2>1. state \in Waiting
    BY <1>2 DEF Waiting
  <2>2. CASE event = "EVT_AUTH_OK" /\ enter_config(device_msg_timeout_remove)
    <3>1. Phase' = Phase /\ SameMember /\ SameCloud
      BY <2>1, <2>2, PhaseIs DEF enter_config, Waiting, SameMember, SameCloud
    <3> QED
      BY <1>b, <2>1, <2>2, <3>1, StutterStep
  <2> QED
    BY <1>2, <1>c, <1>d, <1>e, <1>g, <2>1, <2>2 DEF get_next_auth, M!Next
<1>3. CASE state = "ST_REGISTER" /\ get_next_register(event, token, to)
  <2>1. state \in Waiting /\ Phase = "joining" /\ thing.token = None
    BY <1>3, PhaseIs DEF Waiting, RegisterHasNoToken
  <2>2. CASE event = "EVT_REG_OK"
    <3>1. \/ /\ thing' = [thing EXCEPT !.token = token]
             /\ enter_auth(device_msg_timeout_remove)
          \/ enter_error(device_msg_timeout_remove)
      BY <1>3, <2>2 DEF get_next_register
    <3>2. CASE /\ thing' = [thing EXCEPT !.token = token]
               /\ enter_auth(device_msg_timeout_remove)
      <4>1. thing'.id = thing.id /\ thing'.token # None
        BY <1>0, <1>3, <2>2, <3>2 DEF Creds
      <4>2. Phase' = "joining" /\ SameCloud
        BY <3>2, PhaseIs DEF enter_auth, Waiting, SameCloud
      <4> QED
        BY <1>b, <2>1, <2>2, <4>1, <4>2, EnrolStep DEF M!Next
    <3> QED
      BY <1>f, <2>1, <2>2, <3>1, <3>2 DEF M!Next
  <2>3. CASE /\ event = "EVT_REG_NOT_OK"
             /\ thing' \in device_generate_thing_id(thing)
             /\ UNCHANGED <<state, cred_file, active, to_cloud, published>>
    <3>1. thing'.token = None /\ thing'.id \in Ids \ {thing.id}
      BY <1>0, <2>1, <2>3, GenerateRenames
    <3>2. Phase' = "joining" /\ SameCloud
      BY <2>1, <2>3, PhaseIs DEF SameCloud
    <3> QED
      BY <1>b, <2>1, <2>3, <3>1, <3>2, RenameStep DEF M!Next
  <2> QED
    BY <1>3, <1>c, <1>d, <1>g, <2>1, <2>2, <2>3 DEF get_next_register, M!Next
<1>4. CASE state = "ST_CONFIG" /\ get_next_config(event, to)
  <2>1. state \in Waiting /\ Phase = "joining" /\ thing.token # None
        /\ thing.id \in authenticated
    BY <1>4, PhaseIs DEF Waiting, TokenOnceRegistered, OnlineAuthorised
  <2>2. CASE event = "EVT_CFG_UPT_OK" /\ enter_online(device_msg_timeout_remove)
    <3>1. Phase' = "online" /\ SameMember /\ published' = published \cup {thing.id}
      BY <2>2, PhaseIs DEF enter_online, device_publish, SameMember
    <3> QED
      BY <1>b, <2>1, <2>2, <3>1, AdmitStep DEF M!Next
  <2> QED
    BY <1>4, <1>c, <1>d, <1>e, <1>f, <1>g, <2>1, <2>2 DEF get_next_config, M!Next
<1>5. CASE state = "ST_ONLINE" /\ get_next_online(event, to)
  <2>0. Phase = "online"
    BY <1>5, PhaseIs
  <2>1. CASE /\ event = "EVT_PUB_DATA"
             /\ device_publish(thing)
             /\ UNCHANGED <<state, thing, cred_file, sub, active, to_cloud>>
    <3>1. Phase' = "online" /\ SameMember /\ published' = published \cup {thing.id}
      BY <1>5, <2>1, PhaseIs DEF device_publish, SameMember
    <3> QED
      BY <1>5, <1>b, <2>0, <2>1, <3>1, ReportStep DEF M!Next
  <2>2. CASE event # "EVT_NOT_READY" /\ UNCHANGED <<state, thing, published>>
    <3>1. Phase' = Phase /\ SameMember /\ SameCloud
      BY <1>5, <2>2, PhaseIs DEF SameMember, SameCloud
    <3> QED
      BY <1>5, <1>b, <2>2, <3>1, StutterStep
  <2> QED
    BY <1>5, <1>d, <1>e, <2>1, <2>2 DEF get_next_online, Stay, M!Next
<1>6. CASE state \in {"ST_UNREGISTER", "ST_ERROR"} /\ Stay(to)
  <2>1. Phase = "over" /\ Phase' = "over" /\ SameMember /\ SameCloud
    BY <1>6, PhaseIs DEF Stay, SameMember, SameCloud
  <2>2. CASE SameLink
    BY <2>1, <2>2, StutterStep
  <2>3. CASE conn_mask = CONN_TYPE /\ conn_mask' # CONN_TYPE
    BY <2>1, <2>3, DisconnectStep DEF M!Next
  <2>4. CASE conn_mask # CONN_TYPE /\ conn_mask' = CONN_TYPE
    BY <2>1, <2>4, ConnectStep DEF M!Next
  <2> QED
    BY <2>2, <2>3, <2>4 DEF SameLink
<1> QED
  BY <1>1, <1>2, <1>3, <1>4, <1>5, <1>6
     DEF sm_input_event, to, get_next_unregister, get_next_error

\* A process that ends between callbacks, or in the middle of storing or clearing
\* credentials, and is started again.
LEMMA StartMember ==
    ASSUME KnownInv, StartsAgain
    PROVE  M!Next
<1> USE DEF KnownInv
<1>0. /\ thing \in Creds /\ thing' \in Creds /\ state \in STATES
      /\ device_start
  BY StartedAgain DEF TypeOK
<1>1. Phase' = "away" /\ conn_mask' # CONN_TYPE /\ SameCloud /\ thing' = cred_file'
  BY <1>0, PhaseIs DEF device_start, CONN_TYPE, SameCloud
<1>2. thing'.id \in Ids \cup {None}
  BY <1>0 DEF Creds, IdOrNone
<1>3. \/ Phase # "over" /\ thing.token # None /\ SameMember
      \/ /\ Phase \in {"joining", "online"} /\ thing.token # None
         /\ thing'.token = None /\ thing'.id = thing.id
      \/ Phase # "over" /\ thing.token = None /\ thing'.token = None
      \/ Phase = "joining" /\ thing.token = None /\ thing'.token # None
      \/ Phase = "over"
  <2>1. CASE Phase = "over"
    BY <2>1
  <2>2. CASE Phase # "over"
    <3>0. state \notin {"ST_UNREGISTER", "ST_ERROR"}
      BY <2>2, PhaseIs
    <3>1. cred_file.token = thing.token /\ (thing.token # None => cred_file.id = thing.id)
      BY <3>0 DEF SessionPersisted
    <3>2. CASE Restart
      BY <1>1, <2>2, <3>1, <3>2 DEF Restart, SameMember
    <3>3. ASSUME NEW msg \in to_thing, Crash(msg)
          PROVE  \/ Phase # "over" /\ thing.token # None /\ SameMember
                 \/ /\ Phase \in {"joining", "online"} /\ thing.token # None
                    /\ thing'.token = None /\ thing'.id = thing.id
                 \/ Phase # "over" /\ thing.token = None /\ thing'.token = None
                 \/ Phase = "joining" /\ thing.token = None /\ thing'.token # None
      <4>1. CASE state = "ST_REGISTER"
        BY <2>2, <4>1, PhaseIs DEF RegisterHasNoToken, Waiting
      <4>2. CASE state # "ST_REGISTER"
        <5>1. Removes(CloudEvent(msg)) /\ cred_file' \in ClearCut(cred_file)
          BY <3>3, <4>2 DEF Crash
        <5>2. cred_file' = [cred_file EXCEPT !.token = None]
          BY <1>0, <5>1 DEF device_start, ClearCut, Readable, EmptyFile
        <5>3. cred_file'.token = None /\ cred_file'.id = cred_file.id
          BY <5>2 DEF TypeOK, CredFile
        <5>4. state \in {"ST_AUTH", "ST_CONFIG", "ST_ONLINE"}
          BY <5>1 DEF Removes
        <5>5. Phase \in {"joining", "online"} /\ thing.token # None
          BY <5>4, PhaseIs DEF TokenOnceRegistered, Waiting
        <5> QED
          BY <1>1, <3>1, <5>3, <5>5
      <4> QED
        BY <4>1, <4>2
    <3> QED
      BY <3>2, <3>3 DEF StartsAgain
  <2> QED
    BY <2>1, <2>2
<1>4. M!Restart
  BY <1>1, <1>2, <1>3 DEF M!Restart, SameMember, SameCloud
<1> QED
  BY <1>4 DEF M!Next

LEMMA CloudMember ==
    ASSUME KnownInv, Cloud
    PROVE  M!Next \/ UNCHANGED M!vars
<1>1. UNCHANGED <<state, conn_mask, thing, published>>
  BY DEF Cloud, CloudAnswer, CloudNotify, Discard, Lose, sm_vars
<1>2. Phase' = Phase /\ SameLink /\ SameMember
  BY <1>1 DEF Phase, SameLink, SameMember
<1>3. CASE authenticated' = authenticated
  BY <1>1, <1>2, <1>3, StutterStep DEF SameCloud
<1>4. CASE authenticated' # authenticated
  <2>1. PICK req \in to_cloud, error \in BOOLEAN : CloudAnswer(req, error)
    BY <1>4 DEF Cloud, CloudNotify, Discard, Lose
  <2>2. CloudAuth(req, error) /\ ~error
    BY <1>4, <2>1 DEF CloudAnswer, CloudRegister, CloudAuth, CloudConfig
  <2>3. req.id \in Ids /\ authenticated' = authenticated \cup {req.id}
    BY <2>2 DEF CloudAuth, KnownInv, TypeOK
  <2> QED
    BY <1>1, <1>2, <2>3, AcceptStep DEF M!Next
<1> QED
  BY <1>3, <1>4

\* The session implements the abstract membership (sm.c with its callers in
\* device.c), whichever messages are lost, repeated or late, wherever the process
\* ends and whichever save fails; subscriptions may fail as long as ids are fresh.
THEOREM SessionImplementsMembership ==
    ASSUME StrictRouting, ~PermissionEvents, FreshIds \/ ~ReadStartFails
    PROVE  Spec => ImplementsMembership
<1>1. Init => M!Init
  <2> SUFFICES ASSUME Init PROVE M!Init
    OBVIOUS
  <2>1. /\ Phase = "away" /\ conn_mask # CONN_TYPE
        /\ authenticated = {} /\ published = {}
    BY PhaseIs DEF Init, CONN_TYPE
  <2>2. \/ thing.id = None /\ thing.token = None
        \/ thing.id \in Ids /\ thing.token # None
    BY CredentialsAssumption DEF Init, NoCreds
  <2> QED
    BY <2>1, <2>2 DEF M!Init
<1>2. KnownInv /\ NamedInv /\ [Next]_vars => [M!Next]_(M!vars)
  <2> SUFFICES ASSUME KnownInv, NamedInv, [Next]_vars PROVE M!Next \/ UNCHANGED M!vars
    OBVIOUS
  <2>0. None \in IdOrNone
    BY DEF IdOrNone
  <2>1. CASE LinkUp \/ LinkDown
    BY <2>0, <2>1, SmMember DEF LinkUp, LinkDown, conn_handler, cloud_vars
  <2>2. CASE on_msg_timeout
    BY <2>0, <2>2, SmMember DEF on_msg_timeout, cloud_vars
  <2>3. CASE SensorEvent
    BY <2>0, <2>3, SmMember DEF SensorEvent, cloud_vars
  <2>4. ASSUME NEW msg \in to_thing, on_cloud_receive(msg)
        PROVE  M!Next \/ UNCHANGED M!vars
    <3>0. msg \in Messages /\ msg.id \in IdOrNone
      BY DEF KnownInv, TypeOK, Messages
    <3>1. UNCHANGED <<conn_mask, authenticated>>
      BY <2>4 DEF on_cloud_receive
    <3>2. CASE CloudEvent(msg) # "none" /\ sm_input_event(CloudEvent(msg), msg.id)
      <4>1. CloudEvent(msg) \in CloudEvents
        BY <3>0, <3>2, CloudEventType
      <4>2. CloudEvent(msg) = "EVT_REG_OK" => msg.id # None
        BY <3>0, RegisteredByAnswer DEF NamedInv, RegistersNamed
      <4> QED
        BY <3>0, <3>1, <3>2, <4>1, <4>2, SmMember DEF CloudEvents
    <3>3. CASE UNCHANGED sm_vars
      BY <3>1, <3>3, StutterStep DEF sm_vars, Phase, SameLink, SameMember, SameCloud
    <3> QED
      BY <2>4, <3>2, <3>3 DEF on_cloud_receive
  <2>5. CASE StartsAgain
    BY <2>5, StartMember
  <2>6. CASE Cloud
    BY <2>6, CloudMember
  <2>7. CASE UNCHANGED vars
    BY <2>7, StutterStep
       DEF vars, sm_vars, cloud_vars, Phase, SameLink, SameMember, SameCloud
  <2>8. ~RegistrationPermitted
    BY DEF RegistrationPermitted
  <2> QED
    BY <2>1, <2>2, <2>3, <2>4, <2>5, <2>6, <2>7, <2>8 DEF Next, Thing, StartsAgain
<1>3. Spec => []OnlineAuthorised
  <2>1. CASE FreshIds
    BY <2>1, AuthorisedWithoutSubscription
  <2>2. CASE ~ReadStartFails
    BY <2>2, AlwaysAuthorised
  <2> QED
    BY <2>1, <2>2
<1>4. TypeOK /\ SessionInv /\ TokenOnceRegistered /\ OnlineAuthorised => KnownInv
  BY DEF SessionInv, KnownInv
<1>5. NamedInv => TokenOnceRegistered
  BY DEF NamedInv
<1> QED
  BY <1>1, <1>2, <1>3, <1>4, <1>5, NamedAlways, SessionInvAlways, PTL
     DEF Spec, ImplementsMembership, M!Spec
=============================================================================
