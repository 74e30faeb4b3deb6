---------------------------- MODULE Credentials ----------------------------
(***************************************************************************)
(* The credentials of the thing, in memory (struct knot_thing) and in the  *)
(* credentials file, and what the two operations of properties.c that      *)
(* rewrite the file can leave behind.                                      *)
(*                                                                         *)
(* An id is one of Ids.  A token is represented by the id it was issued    *)
(* for, so a pair of credentials matches when id = token.  None is the     *)
(* empty string, Absent a key the file does not have.                      *)
(*                                                                         *)
(* save_settings (storage.c) truncates the file and then writes it: when   *)
(* the first call fails the file is as it was, when the second one fails   *)
(* it has no key at all.                                                   *)
(***************************************************************************)
CONSTANTS
    Ids,          \* the ids the thing can draw
    None,         \* the empty string
    Absent,       \* the key is not in the file
    StoreFaults   \* whether a write to the credentials file can fail

ASSUME CredentialsAssumption ==
    /\ None \notin Ids
    /\ Absent \notin Ids \cup {None}
    /\ StoreFaults \in BOOLEAN

IdOrNone == Ids \cup {None}

Creds == [id : IdOrNone, token : IdOrNone]

CredFile == [id : IdOrNone \cup {Absent}, token : IdOrNone \cup {Absent}]

EmptyFile == [id |-> Absent, token |-> Absent]

NoCreds == [id |-> None, token |-> None]

\* Both keys are there: set_thing_credentials reads two strings, and not the
\* null pointers it would copy from if a key were missing.
Readable(file) == file.id # Absent /\ file.token # Absent

\* storage_write_key_string sets a key in the l_settings and saves them all: the
\* outcomes of that when the file is as "file" and the l_settings as "settings".
save_settings(file, settings) ==
    {[ok |-> TRUE, file |-> settings]}
    \cup {[ok |-> FALSE, file |-> f] : f \in IF StoreFaults THEN {file, EmptyFile} ELSE {}}

\* Mutant: the id is never written.
StoreKeepsOldId(file, id, token) ==
    {[ok |-> TRUE, file |-> [file EXCEPT !.token = token]]}

\* The token is written first, then the id.  When the second write fails the
\* token is written again as the empty string; that write saves the id along
\* with it (both are in the l_settings by then), and its own outcome is ignored.
properties_store_credentials(file, id, token) ==
    LET withToken == [file EXCEPT !.token = token]
        withBoth  == [withToken EXCEPT !.id = id]
        undone    == [withBoth EXCEPT !.token = None]
        first     == save_settings(file, withToken)
        second    == UNION {save_settings(r.file, withBoth) : r \in {x \in first : x.ok}}
        undo      == UNION {save_settings(r.file, undone) : r \in {x \in second : ~x.ok}}
    IN  {r \in first : ~r.ok} \cup {r \in second : r.ok}
        \cup {[ok |-> FALSE, file |-> r.file] : r \in undo}

\* The file a process leaves that ends between the saves of the operation; one that
\* ends inside a save leaves it without its keys.
StoreCut(file, token) == {[file EXCEPT !.token = token], EmptyFile}

ClearCut(file) == {[file EXCEPT !.token = None], EmptyFile}

\* The token is erased first, then the id; each is erased in memory only after
\* it was erased in the file, and the first failure ends the operation.
properties_clear_credentials(file, thing) ==
    LET noToken == [file EXCEPT !.token = None]
        neither == [noToken EXCEPT !.id = None]
        first   == save_settings(file, noToken)
        second  == UNION {save_settings(r.file, neither) : r \in {x \in first : x.ok}}
    IN  {[file |-> r.file, thing |-> thing] : r \in {x \in first : ~x.ok}}
        \cup {[file |-> r.file, thing |-> [thing EXCEPT !.token = None]] :
                  r \in {x \in second : ~x.ok}}
        \cup {[file |-> r.file, thing |-> [thing EXCEPT !.token = None, !.id = None]] :
                  r \in {x \in second : x.ok}}
=============================================================================
