----------------------------- MODULE ModbusLink -----------------------------
(***************************************************************************)
(* The connection of iface-modbus.c to the slave: how it is set up when    *)
(* the device starts, and the loop that connects, notices a disconnection  *)
(* and connects again.  connect_to is a one-shot timer: after it expired   *)
(* it runs again only when it is modified.  A callback of the main loop is *)
(* one action.                                                             *)
(*                                                                         *)
(* A url is a record: its prefix, whether the rest has the format the      *)
(* prefix calls for, and, for serial://, the name of the device file.      *)
(***************************************************************************)
EXTENDS Integers

CONSTANTS
    Urls,         \* the urls the device file can hold
    DevFiles,     \* the names of the files in /dev; a name is a url's file name,
                  \*   with or without the line settings that follow it
    StartFaults   \* whether libmodbus and the cloud library can refuse to start

ASSUME LinkAssumption ==
    /\ Urls \subseteq [prefix : {"tcp://", "serial://", "other"}, wellFormed : BOOLEAN,
                       file : STRING]
    /\ DevFiles \subseteq [file : STRING, settings : BOOLEAN]
    /\ StartFaults \in BOOLEAN

VARIABLES
    proc,         \* the process: not started, running, or ended and how
    url,          \* thing.modbus_slave.url
    modbus_ctx,   \* the libmodbus context
    connect_to,   \* the timer of attempt_connect
    modbus_io,    \* the l_io that watches the socket
    socket,       \* modbus_get_socket(modbus_ctx) # -1
    open_sockets, \* how many sockets of the process are open to the slave
    peer,         \* the other end of the last connection (external)
    up            \* what the callbacks last told the device

link_vars == <<modbus_ctx, connect_to, modbus_io, socket, open_sockets>>
vars      == <<proc, url, link_vars, peer, up>>

TypeOK ==
    /\ proc \in {"off", "running", "failed", "stopped"}
    /\ url \in Urls
    /\ modbus_ctx \in {"null", "made"}
    /\ connect_to \in {"null", "armed", "expired"}
    /\ modbus_io \in {"null", "watched", "closed"}
    /\ socket \in BOOLEAN
    /\ open_sockets \in Nat
    /\ peer \in {"alive", "gone"}
    /\ up \in BOOLEAN
-----------------------------------------------------------------------------
(***************************************************************************)
(* Starting.  A context is made, or errno is returned with its sign        *)
(* reversed; a format that sscanf refuses leaves errno as it was.          *)
(***************************************************************************)

Made      == [ctx |-> "made", rc |-> 0]
Failed(e) == [ctx |-> "null", rc |-> -e]

EINVAL == 22
ENOENT == 2

\* What a libmodbus constructor returns (external).
modbus_new == {Made} \cup IF StartFaults THEN {Failed(EINVAL)} ELSE {}

\* errno when nothing set it: whatever an earlier call left there.
StaleErrno == {Failed(0), Failed(ENOENT)}

create_tcp(u) == IF u.wellFormed THEN modbus_new ELSE StaleErrno

\* All that follows the prefix is opened, the line settings included, which the
\* format demands.
create_rtu(u) ==
    IF ~u.wellFormed THEN StaleErrno
    ELSE IF [file |-> u.file, settings |-> TRUE] \in DevFiles THEN modbus_new
    ELSE {Failed(ENOENT)}

\* errno is set to a negative number for a prefix that is not known.
create_ctx(u) ==
    CASE u.prefix = "tcp://"    -> create_tcp(u)
      [] u.prefix = "serial://" -> create_rtu(u)
      [] OTHER                  -> {Failed(-EINVAL)}

\* modbus_set_slave can refuse the slave id; the context stays.
iface_modbus_start ==
    create_ctx(url) \cup
    {[ctx |-> "made", rc |-> -EINVAL] : r \in {c \in create_ctx(url) : StartFaults /\ c = Made}}

\* modbus_close.
Closed == IF socket THEN open_sockets - 1 ELSE open_sockets

\* Only a negative value of iface_modbus_start ends the start; a context that was
\* made is then left behind.  When knot_cloud_start fails the Modbus side is stopped
\* again.
device_start ==
    /\ proc # "running"
    /\ modbus_io' = "null" /\ socket' = FALSE /\ open_sockets' = 0
    /\ peer' = "gone" /\ up' = FALSE
    /\ \E r \in iface_modbus_start :
          \/ /\ r.rc >= 0
             /\ proc' = "running"
             /\ modbus_ctx' = r.ctx
             /\ connect_to' = IF r.ctx = "made" THEN "armed" ELSE "null"
          \/ /\ r.rc < 0
             /\ proc' = "failed"
             /\ modbus_ctx' = r.ctx
             /\ connect_to' = "null"
          \/ /\ r.rc >= 0 /\ StartFaults
             /\ proc' = "failed"
             /\ modbus_ctx' = "null"
             /\ connect_to' = "null"
    /\ UNCHANGED url
-----------------------------------------------------------------------------
(***************************************************************************)
(* The connection.                                                         *)
(***************************************************************************)

\* Mutant: a socket that is still open is not closed first.
ConnectOverOpenSocket ==
    /\ connect_to' = "expired"
    /\ modbus_io' = "watched"
    /\ socket' = TRUE
    /\ open_sockets' = open_sockets + 1
    /\ peer' = "alive"
    /\ UNCHANGED modbus_ctx

\* attempt_connect when all goes well, but for the callback.
Connect ==
    /\ connect_to' = "expired"
    /\ modbus_io' = "watched"
    /\ socket' = TRUE
    /\ open_sockets' = Closed + 1
    /\ peer' = "alive"
    /\ UNCHANGED modbus_ctx

\* Mutant: the timer is not modified when there is nothing to close.
RetryForgotten ==
    /\ connect_to' = IF socket THEN "armed" ELSE "expired"
    /\ modbus_io' = "null"
    /\ socket' = FALSE
    /\ open_sockets' = Closed
    /\ UNCHANGED <<modbus_ctx, peer>>

\* attempt_connect when modbus_connect, l_io_new or the disconnect handler fails:
\* what was opened is closed again and the timer runs once more.
Retry ==
    /\ connect_to' = "armed"
    /\ modbus_io' = "null"
    /\ socket' = FALSE
    /\ open_sockets' = Closed
    /\ UNCHANGED <<modbus_ctx, peer>>

attempt_connect(ok) ==
    /\ connect_to = "armed"
    /\ \/ ok /\ Connect /\ up' = TRUE
       \/ ~ok /\ Retry /\ UNCHANGED up
    /\ UNCHANGED <<proc, url>>

\* Mutant: the timer is left as it is.
NoReconnect ==
    /\ modbus_io = "watched"
    /\ modbus_io' = "closed"
    /\ UNCHANGED <<modbus_ctx, connect_to, socket, open_sockets, peer>>

\* on_disconnected, but for the callback; the socket stays open until the next
\* attempt.
Disconnect ==
    /\ modbus_io = "watched"
    /\ modbus_io' = "closed"
    /\ connect_to' = IF connect_to # "null" THEN "armed" ELSE "null"
    /\ UNCHANGED <<modbus_ctx, socket, open_sockets, peer>>

on_disconnected ==
    /\ peer = "gone"
    /\ Disconnect
    /\ up' = FALSE
    /\ UNCHANGED <<proc, url>>

\* iface_modbus_stop, but for the callback that destroying the l_io may run.
iface_modbus_stop ==
    /\ connect_to' = "null"
    /\ modbus_io' = "null"
    /\ socket' = FALSE
    /\ open_sockets' = Closed
    /\ modbus_ctx' = "null"

\* When the main loop has ended.
device_destroy ==
    /\ proc = "running"
    /\ proc' = "stopped"
    /\ iface_modbus_stop
    /\ up' \in {up, FALSE}
    /\ UNCHANGED <<url, peer>>

\* The slave goes away (external); on_disconnected runs when the kernel tells.
PeerLost ==
    /\ peer = "alive"
    /\ peer' = "gone"
    /\ UNCHANGED <<proc, url, link_vars, up>>
-----------------------------------------------------------------------------
Init ==
    /\ proc = "off"
    /\ url \in Urls
    /\ modbus_ctx = "null"
    /\ connect_to = "null"
    /\ modbus_io = "null"
    /\ socket = FALSE
    /\ open_sockets = 0
    /\ peer = "gone"
    /\ up = FALSE

Next ==
    \/ device_start
    \/ \E ok \in BOOLEAN : attempt_connect(ok)
    \/ on_disconnected
    \/ device_destroy
    \/ PeerLost

Spec == Init /\ [][Next]_vars
-----------------------------------------------------------------------------
(***************************************************************************)
(* What is promised.                                                       *)
(***************************************************************************)

\* A url as the example device file gives it.
Documented(u) == u.prefix \in {"tcp://", "serial://"} /\ u.wellFormed

\* A running daemon either watches a connection, which is then the one the device
\* was told of, or has its reconnect timer running: never neither, it would not
\* connect again, and never both, the timer would close a connection that works.
\* Only a url of no known form leaves a daemon that runs without any of it.
LinkOrTimer ==
    proc = "running" =>
        \/ /\ modbus_ctx = "made"
           /\ up <=> modbus_io = "watched"
           /\ up <=> connect_to # "armed"
           /\ connect_to # "null"
           /\ up => socket
        \/ modbus_ctx = "null" /\ connect_to = "null" /\ ~up /\ ~Documented(url)

\* Every socket that was opened to the slave is closed again, however often the
\* link goes up and down and whatever fails: none is left but the one of the
\* context, and none at all once the device is destroyed.
SocketsNotLeaked ==
    /\ open_sockets = IF socket THEN 1 ELSE 0
    /\ socket => modbus_ctx = "made"

\* "KNoT Virtual Thing supports both Modbus RTU and Modbus TCP"
\* (confs/device.conf): with a url of either form, whose device file is there, a
\* start fails for no reason but that a library refused it.
DocumentedUrlStarts ==
    proc = "failed" =>
        \/ StartFaults
        \/ ~Documented(url)
        \/ /\ url.prefix = "serial://"
           /\ [file |-> url.file, settings |-> FALSE] \notin DevFiles
=============================================================================
