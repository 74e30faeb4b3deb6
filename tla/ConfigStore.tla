---------------------------- MODULE ConfigStore ----------------------------
(***************************************************************************)
(* The configuration of the data items, in memory (thing.data_items) and   *)
(* in the device file: how properties.c and storage.c read it when thingd  *)
(* starts, and how a configuration that the cloud sends is applied.        *)
(*                                                                         *)
(* A data item, in memory and in the file, is a function on the parameters *)
(* it has.  A schema is one of Schemas and is written parameter by         *)
(* parameter, so a file can hold those of different schemas; what the      *)
(* other parameters hold is an integer.                                    *)
(*                                                                         *)
(* Every write of a key saves the whole file.  The handler is one callback *)
(* of the main loop, but the process can end between two of its writes:    *)
(* each write is an action of its own and nothing but the end of the       *)
(* process comes in between.                                               *)
(***************************************************************************)
EXTENDS Integers, Functions

CONSTANTS
    Items,        \* the data items, by sensor id
    Schemas,      \* the schemas a configuration can ask for
    Fits,         \* those whose value type fits the ModbusBitOffset of the items
    Events,       \* the events a configuration can ask for
    InitFiles,    \* the device files thingd is first started with
    WriteFaults,  \* whether a save can fail
    Crashes       \* whether the process can end in the middle of an update

SchemaKeys == {"TypeId", "Unit", "ValueType", "SensorName"}
EventKeys  == {"TimeSec", "Change", "LowerThreshold", "UpperThreshold"}
SourceKeys == {"RegisterAddress", "TypeEndianness", "BitOffset"}
Keys       == SchemaKeys \cup EventKeys \cup SourceKeys

\* The order in which update_schema_data_item and update_event_data_item write.
Place == [TypeId |-> 1, Unit |-> 2, ValueType |-> 3, SensorName |-> 4,
          TimeSec |-> 5, Change |-> 6, LowerThreshold |-> 7, UpperThreshold |-> 8]

IsGroup(g) ==
    /\ SchemaKeys \subseteq DOMAIN g /\ DOMAIN g \subseteq Keys
    /\ \A k \in SchemaKeys : g[k] \in Schemas

IsFile(f) ==
    /\ f = [thing |-> f.thing, items |-> f.items]
    /\ f.thing \in BOOLEAN
    /\ DOMAIN f.items \subseteq Items
    /\ \A i \in DOMAIN f.items : IsGroup(f.items[i])

ASSUME ConfigStoreAssumption ==
    /\ Fits \subseteq Schemas
    /\ WriteFaults \in BOOLEAN
    /\ Crashes \in BOOLEAN
    /\ \A event \in Events : DOMAIN event \subseteq EventKeys
    /\ \A f \in InitFiles : IsFile(f)

VARIABLES
    running,     \* the process runs
    data_items,  \* thing.data_items: the schema and the event of each item
    file,        \* the device file: [KNoTThing], and a group for each item
    settings,    \* the l_settings of the file while the handler has it open
    item,        \* the data item of the last configuration
    todo,        \* what the handler has still to write of it
    failed       \* whether a save has ever failed

vars == <<running, data_items, file, settings, item, todo, failed>>

NoKeys    == [k \in {} |-> 0]
EmptyFile == [thing |-> FALSE, items |-> [i \in {} |-> NoKeys]]

\* f, and g where f has nothing.
Over(f, g) ==
    [x \in DOMAIN f \cup DOMAIN g |-> IF x \in DOMAIN f THEN f[x] ELSE g[x]]

Uniform(schema) == [k \in SchemaKeys |-> schema]
-----------------------------------------------------------------------------
(***************************************************************************)
(* Reading the file (properties_create_device).                            *)
(***************************************************************************)

Has(group, keys) == keys \subseteq DOMAIN group

\* knot_schema_is_valid (external): the type, the unit and the value type are one
\* of the combinations of the KNoT protocol.
knot_schema_is_valid(group) ==
    group["TypeId"] = group["Unit"] /\ group["Unit"] = group["ValueType"]

set_schema(group) == Has(group, SchemaKeys) /\ knot_schema_is_valid(group)

\* knot_event_is_valid (external): the thresholds are in order.
set_event(group) ==
    Has(group, {"LowerThreshold", "UpperThreshold"}) =>
        group["LowerThreshold"] <= group["UpperThreshold"]

valid_bit_offset(group) == group["ValueType"] \in Fits

set_modbus_source_properties(group) ==
    Has(group, SourceKeys) /\ valid_bit_offset(group)

\* The keys of [KNoTThing].
set_thing_name(f) == f.thing
set_modbus_slave_properties(f) == f.thing

\* The first data item that is refused ends the start.
set_data_items(f) ==
    \A i \in DOMAIN f.items :
        /\ set_schema(f.items[i])
        /\ set_event(f.items[i])
        /\ set_modbus_source_properties(f.items[i])

set_thing_properties(f) ==
    set_thing_name(f) /\ set_modbus_slave_properties(f) /\ set_data_items(f)

\* A parameter that is there sets its flag.
EventOf(group) == Restrict(group, DOMAIN group \cap EventKeys)

device_start ==
    /\ ~running
    /\ set_thing_properties(file)
    /\ running' = TRUE
    /\ data_items' = [i \in DOMAIN file.items |->
                         Over(EventOf(file.items[i]), Restrict(file.items[i], SchemaKeys))]
    /\ UNCHANGED <<file, settings, item, todo, failed>>
-----------------------------------------------------------------------------
(***************************************************************************)
(* Applying a configuration.                                               *)
(***************************************************************************)

\* The groups that are no data items are removed from the l_settings, not only
\* from the list that is returned.
get_data_item_groups(f) == [f EXCEPT !.thing = FALSE]

\* Mutant: the unit is not written.
UnitForgotten(schema) == [k \in SchemaKeys \ {"Unit"} |-> schema]

update_schema_data_item(schema) == Uniform(schema)

\* Mutant: the thresholds are not written.
ThresholdsForgotten(event) == Restrict(event, DOMAIN event \cap {"TimeSec", "Change"})

\* The keys of the flags that are set are written.  The key of a flag that is not
\* set is removed only when the file does not have it (!storage_has_unit), which
\* removes and saves nothing.
update_event_data_item(event) == event

\* A configuration with KNOT_EVT_FLAG_UNREGISTERED; it leaves the event as it is.
NoEvent == [k \in {"Unregistered"} |-> 0]

\* Mutant: the event is replaced in a configuration that does not have one.
EventAlwaysReplaced(i, schema, event) ==
    [data_items EXCEPT ![i] = Over(Uniform(schema), event)]

device_update_config_data_item(i, schema, event) ==
    [data_items EXCEPT ![i] =
        Over(Uniform(schema), IF event = NoEvent THEN EventOf(@) ELSE event)]

\* The l_settings are freed after the last write.
storage_close(s) == IF DOMAIN todo' = {} THEN EmptyFile ELSE s

\* Memory first, then the file; the group of the item is looked up by its sensor
\* id and may be missing after a save that failed.  A configuration for an item
\* that thingd does not have changes nothing.
properties_update_data_item(i, schema, event) ==
    /\ running
    /\ DOMAIN todo = {}
    /\ i \in DOMAIN data_items
    /\ data_items' = device_update_config_data_item(i, schema, event)
    /\ item' = i
    /\ todo' = IF i \notin DOMAIN file.items THEN NoKeys
               ELSE Over(update_schema_data_item(schema),
                         IF event = NoEvent THEN NoKeys ELSE update_event_data_item(event))
    /\ settings' = storage_close(get_data_item_groups(file))
    /\ UNCHANGED <<running, file, failed>>

\* Mutant: the sensor id of a group is not compared with that of the configuration.
SetKeyInEveryGroup(s, key, value) ==
    [s EXCEPT !.items =
        [j \in DOMAIN s.items |-> Over([k \in {key} |-> value], s.items[j])]]

\* l_settings_set_*: the key is added or replaced.
SetKey(s, key, value) ==
    [s EXCEPT !.items =
        [@ EXCEPT ![item] = Over([k \in {key} |-> value], s.items[item])]]

\* save_settings truncates the file before it writes it.  After a failure the
\* other keys of the schema, or of the event, are left out; the event follows the
\* schema in any case.
save_settings(s, key) ==
    \/ /\ file' = s
       /\ todo' = Restrict(todo, DOMAIN todo \ {key})
       /\ UNCHANGED failed
    \/ /\ WriteFaults
       /\ file' \in {file, EmptyFile}
       /\ todo' = Restrict(todo, DOMAIN todo \ (IF key \in SchemaKeys THEN SchemaKeys
                                                                      ELSE EventKeys))
       /\ failed' = TRUE

storage_write_key(key) ==
    LET s == SetKey(settings, key, todo[key])
    IN  /\ running
        /\ \A k \in DOMAIN todo : Place[key] <= Place[k]
        /\ save_settings(s, key)
        /\ settings' = storage_close(s)
        /\ UNCHANGED <<running, data_items, item>>

\* The process ends; in the middle of a save the file is empty.
Stop ==
    /\ running
    /\ running' = FALSE
    /\ data_items' = [i \in {} |-> NoKeys]
    /\ settings' = EmptyFile
    /\ todo' = NoKeys
    /\ \/ DOMAIN todo = {} /\ UNCHANGED file
       \/ Crashes /\ DOMAIN todo # {} /\ file' \in {file, EmptyFile}
    /\ UNCHANGED <<item, failed>>
-----------------------------------------------------------------------------
Init ==
    /\ running = FALSE
    /\ file \in InitFiles
    /\ data_items = [i \in {} |-> NoKeys]
    /\ settings = EmptyFile
    /\ item \in Items
    /\ todo = NoKeys
    /\ failed = FALSE

Next ==
    \/ device_start
    \/ \E i \in Items, schema \in Schemas, event \in Events \cup {NoEvent} :
          properties_update_data_item(i, schema, event)
    \/ \E key \in DOMAIN todo : storage_write_key(key)
    \/ Stop

Spec == Init /\ [][Next]_vars
-----------------------------------------------------------------------------
TypeOK ==
    /\ running \in BOOLEAN
    /\ failed \in BOOLEAN
    /\ item \in Items
    /\ DOMAIN data_items \subseteq Items
    /\ \A i \in DOMAIN data_items :
          IsGroup(data_items[i]) /\ DOMAIN data_items[i] \subseteq SchemaKeys \cup EventKeys
    /\ IsFile(file)
    /\ IsFile(settings)
    /\ DOMAIN todo \subseteq SchemaKeys \cup EventKeys
    /\ \A k \in DOMAIN todo \cap SchemaKeys : todo[k] \in Schemas
    /\ DOMAIN todo # {} => item \in DOMAIN settings.items

\* When the handler is done, and no save failed, the file holds every parameter of
\* every data item in memory with its value: a start from the data items in the
\* file loses nothing that was configured.  Whatever the order of the
\* configurations, with an event or without one.
FileFollowsMemory ==
    running /\ DOMAIN todo = {} /\ ~failed =>
        \A i \in DOMAIN data_items :
            /\ i \in DOMAIN file.items
            /\ \A k \in DOMAIN data_items[i] :
                  k \in DOMAIN file.items[i] /\ file.items[i][k] = data_items[i][k]

\* A configuration of one item changes no group but its own, whichever of its
\* saves fail and wherever the process ends: another item can only disappear,
\* together with all of the file.
OthersUntouched ==
    [][\A j \in DOMAIN file.items :
          \/ j \in DOMAIN file'.items /\ file'.items[j] = file.items[j]
          \/ DOMAIN todo # {} /\ j = item
          \/ file' = EmptyFile]_vars

\* Once a configuration is applied, and no save failed, the next start finds a data
\* item it accepts, but for two things that a configuration can bring about: a
\* value type that does not fit the bit offset, and thresholds out of order, those
\* it has itself or with one that the file still has of an earlier event.
ItemsStayLoadable ==
    running /\ DOMAIN todo = {} /\ ~failed =>
        \A i \in DOMAIN file.items :
            /\ set_schema(file.items[i])
            /\ data_items[i]["ValueType"] \in Fits =>
                  set_modbus_source_properties(file.items[i])
            /\ set_event(data_items[i]) /\ DOMAIN data_items[i] = DOMAIN file.items[i] \ SourceKeys =>
                  set_event(file.items[i])

\* "This is an example file of how this configuration file parameters should be
\* filled" (confs/device.conf): a device file that was filled in like the example
\* is one that thingd starts with, the first time and after it was stopped.
StartsAgain == ~running => set_thing_properties(file)
=============================================================================
