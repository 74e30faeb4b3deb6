------------------------- MODULE SessionMembership -------------------------
(***************************************************************************)
(* How the session of Session is the membership of Membership.             *)
(***************************************************************************)
EXTENDS Session

Phase ==
    CASE state = "ST_DISCONNECTED"           -> "away"
      [] state \in Waiting                   -> "joining"
      [] state = "ST_ONLINE"                 -> "online"
      [] state \in {"ST_UNREGISTER", "ST_ERROR"} -> "over"

M == INSTANCE Membership WITH
        phase    <- Phase,
        linked   <- conn_mask = CONN_TYPE,
        name     <- thing.id,
        member   <- thing.token # None,
        accepted <- authenticated,
        reported <- published

\* Each callback of device.c, each restart and each step of the cloud is a step of
\* Membership or none: the thing joins exactly when both links are up, keeps its
\* name and its token through disconnections and restarts, goes online only when
\* its credentials were accepted, and once removed or failed stays so until a restart.
ImplementsMembership == M!Spec
=============================================================================
