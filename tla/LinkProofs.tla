----------------------------- MODULE LinkProofs -----------------------------
(***************************************************************************)
(* The invariant of ModbusLink, for every set of urls and device files.    *)
(* ModbusProofs uses it for the interface and DaemonProofs for the daemon. *)
(***************************************************************************)
EXTENDS ModbusLink, TLAPS

\* A process that does not run has no timer that could fire and no socket.
IdleWhenNotRunning ==
    proc # "running" => connect_to = "null" /\ modbus_io = "null" /\ ~socket

\* Only a connection of the context is watched.
IoHasContext == modbus_io # "null" => modbus_ctx = "made"

LinkInv ==
    TypeOK /\ IdleWhenNotRunning /\ IoHasContext /\ LinkOrTimer /\ SocketsNotLeaked

\* What create_ctx returns: a context, or no context and a value that lets
\* device_start go on only for a url of no known form.
LEMMA StartOutcome ==
    ASSUME url \in Urls, NEW r \in iface_modbus_start
    PROVE  /\ r.ctx \in {"null", "made"}
           /\ r.rc >= 0 /\ r.ctx = "null" => ~Documented(url)
<1> USE DEF Made, Failed, EINVAL, ENOENT
<1>1. \A c \in modbus_new : c = Made \/ (c.ctx = "null" /\ c.rc = -22)
  BY DEF modbus_new
<1>2. \A c \in StaleErrno : c.ctx = "null"
  BY DEF StaleErrno
<1>3. ASSUME NEW c \in create_ctx(url)
      PROVE  /\ c.ctx \in {"null", "made"}
             /\ c.rc >= 0 /\ c.ctx = "null" => ~Documented(url)
  <2>1. CASE url.prefix = "tcp://"
    BY <1>1, <1>2, <1>3, <2>1 DEF create_ctx, create_tcp, Documented
  <2>2. CASE url.prefix = "serial://"
    BY <1>1, <1>2, <1>3, <2>2 DEF create_ctx, create_rtu, Documented
  <2>3. CASE url.prefix \notin {"tcp://", "serial://"}
    BY <1>3, <2>3 DEF create_ctx, Documented
  <2> QED
    BY <2>1, <2>2, <2>3
<1>4. CASE r \in create_ctx(url)
  BY <1>3, <1>4
<1>5. CASE r.ctx = "made"
  BY <1>5
<1> QED
  BY <1>4, <1>5 DEF iface_modbus_start

\* Every step of the link keeps the parts of LinkInv together.
LEMMA LinkInvInductive ==
    ASSUME LinkInv, [Next]_vars
    PROVE  LinkInv'
<1> USE DEF LinkInv, TypeOK, IdleWhenNotRunning, IoHasContext, SocketsNotLeaked,
            LinkOrTimer
<1>1. CASE device_start
  <2>1. PICK r \in iface_modbus_start :
           \/ /\ r.rc >= 0
              /\ proc' = "running"
              /\ modbus_ctx' = r.ctx
              /\ connect_to' = IF r.ctx = "made" THEN "armed" ELSE "null"
           \/ /\ proc' = "failed"
              /\ modbus_ctx' \in {"null", r.ctx}
              /\ connect_to' = "null"
    BY <1>1 DEF device_start
  <2>2. /\ r.ctx \in {"null", "made"}
        /\ r.rc >= 0 /\ r.ctx = "null" => ~Documented(url)
    BY StartOutcome
  <2> QED
    BY <1>1, <2>1, <2>2 DEF device_start, Documented
<1>0. Closed = 0
  <2>1. CASE socket
    BY <2>1 DEF Closed
  <2>2. CASE ~socket
    BY <2>2 DEF Closed
  <2> QED
    BY <2>1, <2>2
<1>2. ASSUME NEW ok \in BOOLEAN, attempt_connect(ok) PROVE LinkInv'
  <2>1. proc = "running" /\ modbus_ctx = "made" /\ ~up
    BY <1>2 DEF attempt_connect
  <2>2. CASE Connect /\ up' = TRUE
    <3>1. up' /\ socket' /\ up' \in BOOLEAN /\ socket' \in BOOLEAN
      BY <2>2 DEF Connect
    <3> QED
      BY <1>0, <1>2, <2>1, <2>2, <3>1 DEF attempt_connect, Connect
  <2>3. CASE Retry /\ UNCHANGED up
    <3>1. ~socket' /\ socket' \in BOOLEAN
      BY <2>3 DEF Retry
    <3> QED
      BY <1>0, <1>2, <2>1, <2>3, <3>1 DEF attempt_connect, Retry
  <2> QED
    BY <1>2, <2>2, <2>3 DEF attempt_connect
<1>3. CASE on_disconnected
  BY <1>3 DEF on_disconnected, Disconnect
<1>4. CASE device_destroy
  <2>1. ~socket' /\ socket' \in BOOLEAN /\ up' \in BOOLEAN
    BY <1>4 DEF device_destroy, iface_modbus_stop
  <2> QED
    BY <1>0, <1>4, <2>1 DEF device_destroy, iface_modbus_stop
<1>5. CASE PeerLost
  BY <1>5 DEF PeerLost, link_vars, Documented
<1>6. CASE UNCHANGED vars
  BY <1>6 DEF vars, link_vars, Documented
<1> QED
  BY <1>1, <1>2, <1>3, <1>4, <1>5, <1>6 DEF Next

LEMMA LinkInvInit == Init => LinkInv
<1> SUFFICES ASSUME Init PROVE LinkInv
  OBVIOUS
<1>1. ~socket /\ socket \in BOOLEAN /\ up \in BOOLEAN
  BY DEF Init
<1> QED
  BY <1>1 DEF Init, LinkInv, TypeOK, IdleWhenNotRunning, IoHasContext, SocketsNotLeaked,
     LinkOrTimer

\* In every reachable state of the link (attempt_connect, on_disconnected,
\* iface_modbus_start, iface_modbus_stop) LinkInv holds.
THEOREM LinkInvHolds == Spec => []LinkInv
  BY LinkInvInit, LinkInvInductive, PTL DEF Spec
-----------------------------------------------------------------------------
\* create_rtu opens a file whose name holds the line settings: where /dev has none
\* of that kind, no serial:// url ever gets a context, and so nothing that could
\* connect, start after start, although the url and its device file are in order.
THEOREM SerialNeverConnects ==
    ASSUME \A d \in DevFiles : ~d.settings
    PROVE  Spec => [](url.prefix = "serial://" =>
                        modbus_ctx = "null" /\ connect_to = "null" /\ ~up)
<1> DEFINE NoContext == url.prefix = "serial://" =>
                          modbus_ctx = "null" /\ connect_to = "null" /\ ~up
<1>1. Init => NoContext
  BY DEF Init
<1>2. LinkInv /\ NoContext /\ [Next]_vars => NoContext'
  <2> SUFFICES ASSUME LinkInv, NoContext, [Next]_vars, url'.prefix = "serial://"
               PROVE  modbus_ctx' = "null" /\ connect_to' = "null" /\ ~up'
    OBVIOUS
  <2>0. url' = url
    BY DEF Next, device_start, attempt_connect, on_disconnected, device_destroy, PeerLost, vars
  <2>1. modbus_ctx = "null" /\ connect_to = "null" /\ ~up
    BY <2>0
  <2>2. CASE device_start
    <3>1. \A r \in create_ctx(url) : r.ctx = "null"
      <4>1. [file |-> url.file, settings |-> TRUE] \notin DevFiles
        OBVIOUS
      <4> QED
        BY <2>0, <4>1 DEF create_ctx, create_rtu, StaleErrno, Failed
    <3>2. \A r \in iface_modbus_start : r.ctx = "null"
      BY <3>1 DEF iface_modbus_start, Made
    <3> QED
      BY <2>2, <3>2 DEF device_start
  <2>3. ASSUME NEW ok \in BOOLEAN, attempt_connect(ok) PROVE FALSE
    BY <2>1, <2>3 DEF attempt_connect
  <2>4. CASE on_disconnected
    BY <2>1, <2>4 DEF on_disconnected, Disconnect, LinkInv, IoHasContext
  <2>5. CASE device_destroy
    <3>1. up' \in {up, FALSE}
      BY <2>5 DEF device_destroy
    <3>2. ~up'
      BY <2>1, <3>1
    <3> QED
      BY <2>5, <3>2 DEF device_destroy, iface_modbus_stop
  <2>6. CASE PeerLost \/ UNCHANGED vars
    BY <2>1, <2>6 DEF PeerLost, vars, link_vars
  <2> QED
    BY <2>2, <2>3, <2>4, <2>5, <2>6 DEF Next
<1> QED
  BY <1>1, <1>2, LinkInvHolds, PTL DEF Spec
=============================================================================
