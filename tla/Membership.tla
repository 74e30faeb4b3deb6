----------------------------- MODULE Membership -----------------------------
(***************************************************************************)
(* What the session promises, without its messages, timers and files: how  *)
(* a thing becomes a member of the cloud, reports to it and ceases to be a *)
(* member.  Module Session is shown to implement this specification.       *)
(***************************************************************************)
CONSTANTS
    Ids,    \* the ids of things
    None    \* no id

VARIABLES
    phase,     \* where the thing is
    linked,    \* both links are up
    name,      \* the id of the thing
    member,    \* the thing holds a token
    accepted,  \* the ids whose credentials the cloud has accepted
    reported   \* the ids under which data was reported

vars == <<phase, linked, name, member, accepted, reported>>

Init ==
    /\ phase = "away"
    /\ linked = FALSE
    /\ \/ name = None /\ member = FALSE
       \/ name \in Ids /\ member = TRUE
    /\ accepted = {}
    /\ reported = {}

\* The second link comes up: a thing that is away joins at once, a member under its
\* name and any other one under a new name.
Connect ==
    /\ ~linked
    /\ linked' = TRUE
    /\ \/ phase = "away" /\ phase' = "joining" /\ member /\ UNCHANGED name
       \/ phase = "away" /\ phase' = "joining" /\ ~member /\ name' \in Ids \ {name}
       \/ phase = "over" /\ UNCHANGED <<phase, name>>
    /\ UNCHANGED <<member, accepted, reported>>

\* A link goes down: the thing is away until both are up again.
Disconnect ==
    /\ linked
    /\ linked' = FALSE
    /\ phase' = IF phase = "over" THEN "over" ELSE "away"
    /\ UNCHANGED <<name, member, accepted, reported>>

\* Only a thing that is no member yet takes another name.
Rename ==
    /\ phase = "joining"
    /\ ~member
    /\ name' \in Ids \ {name}
    /\ UNCHANGED <<phase, linked, member, accepted, reported>>

Enrol ==
    /\ phase = "joining"
    /\ ~member
    /\ member' = TRUE
    /\ UNCHANGED <<phase, linked, name, accepted, reported>>

\* The cloud accepts the credentials of an id.
Accept(id) ==
    /\ accepted' = accepted \cup {id}
    /\ UNCHANGED <<phase, linked, name, member, reported>>

\* A member that was accepted goes online, and reports.
Admit ==
    /\ phase = "joining"
    /\ member
    /\ name \in accepted
    /\ phase' = "online"
    /\ reported' = reported \cup {name}
    /\ UNCHANGED <<linked, name, member, accepted>>

Report ==
    /\ phase = "online"
    /\ reported' = reported \cup {name}
    /\ UNCHANGED <<phase, linked, name, member, accepted>>

\* A member loses its token before its name, and may keep either.
Forget ==
    \/ UNCHANGED <<name, member>>
    \/ member' = FALSE /\ name' \in {name, None}

Remove ==
    /\ phase \in {"joining", "online"}
    /\ member
    /\ phase' = "over"
    /\ Forget
    /\ UNCHANGED <<linked, accepted, reported>>

\* The token cannot be stored, or the configuration is rejected.
Fail ==
    /\ phase = "joining"
    /\ phase' = "over"
    /\ UNCHANGED <<linked, name, member, accepted, reported>>

\* The process starts again.  A member is one still, under its name, unless the
\* process ended while it was removed; a thing that was none is one only if the
\* process ended while it was enrolled.  Once it is over nothing is certain.
Restart ==
    /\ phase' = "away"
    /\ linked' = FALSE
    /\ \/ phase # "over" /\ member /\ UNCHANGED <<name, member>>
       \/ phase \in {"joining", "online"} /\ member /\ member' = FALSE /\ UNCHANGED name
       \/ phase # "over" /\ ~member /\ member' = FALSE /\ name' \in Ids \cup {None}
       \/ phase = "joining" /\ ~member /\ member' = TRUE /\ name' \in Ids \cup {None}
       \/ phase = "over" /\ member' \in BOOLEAN /\ name' \in Ids \cup {None}
    /\ UNCHANGED <<accepted, reported>>

Next ==
    \/ Connect
    \/ Disconnect
    \/ Rename
    \/ Enrol
    \/ \E id \in Ids : Accept(id)
    \/ Admit
    \/ Report
    \/ Remove
    \/ Fail
    \/ Restart

Spec == Init /\ [][Next]_vars
=============================================================================
