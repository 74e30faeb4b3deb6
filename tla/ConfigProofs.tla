---------------------------- MODULE ConfigProofs ----------------------------
(***************************************************************************)
(* The properties of ConfigStore, for every set of items, schemas, events  *)
(* and device files.                                                       *)
(***************************************************************************)
EXTENDS ConfigStore, TLAPS

LEMMA OverFacts ==
    ASSUME NEW f, NEW g
    PROVE  /\ DOMAIN Over(f, g) = DOMAIN f \cup DOMAIN g
           /\ \A x \in DOMAIN f : Over(f, g)[x] = f[x]
           /\ \A x \in DOMAIN g \ DOMAIN f : Over(f, g)[x] = g[x]
  BY DEF Over

LEMMA RestrictFacts ==
    ASSUME NEW f, NEW S
    PROVE  /\ DOMAIN Restrict(f, S) = S
           /\ \A x \in S : Restrict(f, S)[x] = f[x]
  BY DEF Restrict

LEMMA EmptyIsFile == IsFile(EmptyFile) /\ DOMAIN EmptyFile.items = {}
  BY DEF IsFile, EmptyFile

\* A write changes one parameter of the item that is configured.
LEMMA SetKeyFacts ==
    ASSUME NEW s, IsFile(s), item \in DOMAIN s.items,
           NEW key \in SchemaKeys \cup EventKeys, NEW value,
           key \in SchemaKeys => value \in Schemas
    PROVE  /\ IsFile(SetKey(s, key, value))
           /\ DOMAIN SetKey(s, key, value).items = DOMAIN s.items
           /\ \A j \in DOMAIN s.items \ {item} : SetKey(s, key, value).items[j] = s.items[j]
           /\ DOMAIN SetKey(s, key, value).items[item] = DOMAIN s.items[item] \cup {key}
           /\ SetKey(s, key, value).items[item][key] = value
           /\ \A k \in DOMAIN s.items[item] \ {key} :
                 SetKey(s, key, value).items[item][k] = s.items[item][k]
<1> DEFINE one == [k \in {key} |-> value]
           new == Over(one, s.items[item])
           r   == SetKey(s, key, value)
<1>1. /\ DOMAIN new = DOMAIN s.items[item] \cup {key}
      /\ new[key] = value
      /\ \A k \in DOMAIN s.items[item] \ {key} : new[k] = s.items[item][k]
  BY DEF Over
<1> HIDE DEF new
<1>2. r = [thing |-> s.thing, items |-> [s.items EXCEPT ![item] = new]]
  <2>1. s = [thing |-> s.thing, items |-> s.items]
    BY DEF IsFile
  <2> QED
    BY <2>1 DEF SetKey, new
<1> HIDE DEF r
<1>3. /\ r.thing = s.thing
      /\ r.items = [s.items EXCEPT ![item] = new]
      /\ r = [thing |-> r.thing, items |-> r.items]
  BY <1>2
<1>4. /\ DOMAIN r.items = DOMAIN s.items
      /\ r.items[item] = new
      /\ \A j \in DOMAIN s.items \ {item} : r.items[j] = s.items[j]
  BY <1>3
<1>5. IsGroup(new)
  BY <1>1 DEF IsFile, IsGroup, Keys
<1>6. IsFile(r)
  BY <1>3, <1>4, <1>5 DEF IsFile
<1> QED
  BY <1>1, <1>4, <1>6 DEF r
-----------------------------------------------------------------------------
(***************************************************************************)
(* The inductive invariant: what memory, the l_settings, the file and the  *)
(* writes still to be done have to do with each other.                     *)
(***************************************************************************)

\* Nothing is left to be written when the process has ended.
IdleWhenStopped == ~running => DOMAIN todo = {}

\* The l_settings hold the groups of the file, and differ only in the item that is
\* configured.
SettingsKeepOthers ==
    DOMAIN todo # {} =>
        \A j \in DOMAIN file.items :
            /\ j \in DOMAIN settings.items
            /\ j # item => settings.items[j] = file.items[j]

\* They are the same until a save fails.
SettingsAreFile == DOMAIN todo # {} /\ ~failed => settings.items = file.items

\* Until a save fails each parameter in memory is in the file or still to be written.
FileOrTodo ==
    running /\ ~failed =>
        \A i \in DOMAIN data_items :
            /\ i \in DOMAIN file.items
            /\ \A k \in DOMAIN data_items[i] :
                 IF i = item /\ k \in DOMAIN todo
                 THEN todo[k] = data_items[i][k]
                 ELSE k \in DOMAIN file.items[i] /\ file.items[i][k] = data_items[i][k]

ConfigInv ==
    TypeOK /\ IdleWhenStopped /\ SettingsKeepOthers /\ SettingsAreFile /\ FileOrTodo

LEMMA NothingTodo == DOMAIN NoKeys = {}
  BY DEF NoKeys

LEMMA NoItems == DOMAIN [i \in {} |-> NoKeys] = {}
  OBVIOUS

LEMMA ConfigInvInit == Init => ConfigInv
<1> SUFFICES ASSUME Init PROVE ConfigInv
  OBVIOUS
<1>1. DOMAIN todo = {} /\ DOMAIN data_items = {} /\ ~running /\ ~failed
      /\ running \in BOOLEAN /\ failed \in BOOLEAN
  BY NothingTodo, NoItems DEF Init
<1>2. IsFile(file) /\ IsFile(settings) /\ item \in Items
  BY ConfigStoreAssumption, EmptyIsFile DEF Init
<1> QED
  BY <1>1, <1>2 DEF ConfigInv, TypeOK, IdleWhenStopped, SettingsKeepOthers,
     SettingsAreFile, FileOrTodo

\* Reading the file.
LEMMA StartKeeps ==
    ASSUME ConfigInv, device_start
    PROVE  ConfigInv'
<1> DEFINE read(g) == Over(EventOf(g), Restrict(g, SchemaKeys))
<1>1. ASSUME NEW g, IsGroup(g)
      PROVE  /\ IsGroup(read(g))
             /\ DOMAIN read(g) \subseteq SchemaKeys \cup EventKeys
             /\ \A k \in DOMAIN read(g) : k \in DOMAIN g /\ read(g)[k] = g[k]
  <2>1. /\ DOMAIN read(g) = (DOMAIN g \cap EventKeys) \cup SchemaKeys
        /\ \A k \in DOMAIN read(g) : read(g)[k] = g[k]
    BY DEF Over, EventOf, Restrict
  <2> HIDE DEF read
  <2> QED
    BY <1>1, <2>1 DEF IsGroup, Keys
<1>2. /\ DOMAIN data_items' = DOMAIN file.items
      /\ \A i \in DOMAIN file.items : data_items'[i] = read(file.items[i])
      /\ running' = TRUE
      /\ UNCHANGED <<file, settings, item, todo, failed>>
  BY DEF device_start
<1> HIDE DEF read
<1>3. DOMAIN todo = {}
  BY DEF ConfigInv, IdleWhenStopped, device_start
<1>4. IsFile(file)
  BY DEF ConfigInv, TypeOK
<1>5. \A i \in DOMAIN file.items : IsGroup(file.items[i])
  BY <1>4 DEF IsFile
<1>6. TypeOK'
  <2>1. running' \in BOOLEAN
    BY <1>2
  <2>2. DOMAIN data_items' \subseteq Items
    BY <1>2, <1>4 DEF IsFile
  <2>3. \A i \in DOMAIN data_items' :
          IsGroup(data_items'[i]) /\ DOMAIN data_items'[i] \subseteq SchemaKeys \cup EventKeys
    BY <1>1, <1>2, <1>5
  <2> QED
    BY <1>2, <2>1, <2>2, <2>3 DEF ConfigInv, TypeOK
<1>7. FileOrTodo'
  BY <1>1, <1>2, <1>3, <1>5 DEF FileOrTodo
<1>8. IdleWhenStopped' /\ SettingsKeepOthers' /\ SettingsAreFile'
  BY <1>2, <1>3 DEF IdleWhenStopped, SettingsKeepOthers, SettingsAreFile
<1> QED
  BY <1>6, <1>7, <1>8 DEF ConfigInv

\* A configuration arrives.
LEMMA UpdateKeeps ==
    ASSUME ConfigInv, NEW i \in Items, NEW schema \in Schemas,
           NEW config \in Events \cup {NoEvent},
           properties_update_data_item(i, schema, config)
    PROVE  ConfigInv'
<1> DEFINE ev   == IF config = NoEvent THEN EventOf(data_items[i]) ELSE config
           keys == IF config = NoEvent THEN NoKeys ELSE config
<1>0. /\ running /\ DOMAIN todo = {} /\ i \in DOMAIN data_items
      /\ UNCHANGED <<running, file, failed>>
      /\ item' = i
  BY DEF properties_update_data_item
<1>1. /\ DOMAIN data_items' = DOMAIN data_items
      /\ data_items'[i] = Over(Uniform(schema), ev)
      /\ \A j \in DOMAIN data_items \ {i} : data_items'[j] = data_items[j]
  BY <1>0 DEF properties_update_data_item, device_update_config_data_item
<1>2. DOMAIN Uniform(schema) = SchemaKeys /\ \A k \in SchemaKeys : Uniform(schema)[k] = schema
  BY DEF Uniform
<1>3. DOMAIN ev \subseteq EventKeys
  BY ConfigStoreAssumption DEF EventOf, Restrict
<1>4. DOMAIN keys \subseteq EventKeys /\ \A k \in DOMAIN keys : keys[k] = ev[k] /\ k \in DOMAIN ev
  BY ConfigStoreAssumption, NothingTodo
<1>5. ASSUME NEW k \in DOMAIN ev \ DOMAIN keys
      PROVE  k \in DOMAIN data_items[i] /\ ev[k] = data_items[i][k]
  BY <1>5 DEF EventOf, Restrict
<1> HIDE DEF ev, keys
<1>6. /\ DOMAIN data_items'[i] = SchemaKeys \cup DOMAIN ev
      /\ \A k \in SchemaKeys : data_items'[i][k] = schema
      /\ \A k \in DOMAIN ev : data_items'[i][k] = ev[k]
  <2>1. SchemaKeys \cap EventKeys = {}
    BY DEF SchemaKeys, EventKeys
  <2> QED
    BY <1>1, <1>2, <1>3, <2>1 DEF Over
<1>7. CASE i \notin DOMAIN file.items
  <2>1. DOMAIN todo' = {} /\ settings' = EmptyFile /\ failed
    <3>1. todo' = NoKeys
      BY <1>7 DEF properties_update_data_item
    <3>2. failed
      BY <1>0, <1>7 DEF ConfigInv, FileOrTodo
    <3> QED
      BY <3>1, <3>2, NothingTodo DEF properties_update_data_item, storage_close
  <2>2. TypeOK'
    <3>1. \A j \in DOMAIN data_items' :
            IsGroup(data_items'[j]) /\ DOMAIN data_items'[j] \subseteq SchemaKeys \cup EventKeys
      BY <1>1, <1>3, <1>6 DEF ConfigInv, TypeOK, IsGroup, Keys
    <3> QED
      BY <1>0, <1>1, <2>1, <3>1, EmptyIsFile DEF ConfigInv, TypeOK
  <2> QED
    BY <1>0, <2>1, <2>2 DEF ConfigInv, IdleWhenStopped, SettingsKeepOthers,
       SettingsAreFile, FileOrTodo
<1>8. CASE i \in DOMAIN file.items
  <2>1. todo' = Over(Uniform(schema), keys)
    BY <1>8 DEF properties_update_data_item, update_schema_data_item,
       update_event_data_item, keys
  <2>2. /\ DOMAIN todo' = SchemaKeys \cup DOMAIN keys
        /\ \A k \in SchemaKeys : todo'[k] = schema
        /\ \A k \in DOMAIN keys : todo'[k] = ev[k]
    <3>1. SchemaKeys \cap EventKeys = {}
      BY DEF SchemaKeys, EventKeys
    <3> QED
      BY <1>2, <1>4, <2>1, <3>1 DEF Over
  <2>3. DOMAIN todo' # {}
    BY <2>2 DEF SchemaKeys
  <2>4. settings' = [file EXCEPT !.thing = FALSE]
    BY <2>3 DEF properties_update_data_item, storage_close, get_data_item_groups
  <2>5. settings'.items = file.items /\ IsFile(settings')
    <3>1. file = [thing |-> file.thing, items |-> file.items]
      BY DEF ConfigInv, TypeOK, IsFile
    <3>2. settings' = [thing |-> FALSE, items |-> file.items]
      BY <2>4, <3>1
    <3> QED
      BY <3>2 DEF ConfigInv, TypeOK, IsFile
  <2>6. TypeOK'
    <3>1. \A j \in DOMAIN data_items' :
            IsGroup(data_items'[j]) /\ DOMAIN data_items'[j] \subseteq SchemaKeys \cup EventKeys
      BY <1>1, <1>3, <1>6 DEF ConfigInv, TypeOK, IsGroup, Keys
    <3>2. /\ DOMAIN todo' \subseteq SchemaKeys \cup EventKeys
          /\ \A k \in DOMAIN todo' \cap SchemaKeys : todo'[k] \in Schemas
      BY <1>4, <2>2
    <3> QED
      BY <1>0, <1>1, <1>8, <2>5, <3>1, <3>2 DEF ConfigInv, TypeOK
  <2>7. FileOrTodo'
    BY <1>0, <1>1, <1>4, <1>5, <1>6, <1>8, <2>2 DEF ConfigInv, FileOrTodo
  <2> QED
    BY <1>0, <2>5, <2>6, <2>7 DEF ConfigInv, IdleWhenStopped, SettingsKeepOthers, SettingsAreFile
<1> QED
  BY <1>7, <1>8

\* A write, and the save that it ends with.
LEMMA WriteKeeps ==
    ASSUME ConfigInv, NEW key \in DOMAIN todo, storage_write_key(key)
    PROVE  ConfigInv'
<1> DEFINE s == SetKey(settings, key, todo[key])
<1>0. /\ DOMAIN todo # {} /\ running
      /\ UNCHANGED <<running, data_items, item>>
      /\ settings' = IF DOMAIN todo' = {} THEN EmptyFile ELSE s
  BY DEF storage_write_key, storage_close
<1>1. IsFile(settings) /\ item \in DOMAIN settings.items
      /\ key \in SchemaKeys \cup EventKeys /\ (key \in SchemaKeys => todo[key] \in Schemas)
  BY <1>0 DEF ConfigInv, TypeOK
<1>2. /\ IsFile(s)
      /\ DOMAIN s.items = DOMAIN settings.items
      /\ \A j \in DOMAIN settings.items \ {item} : s.items[j] = settings.items[j]
      /\ DOMAIN s.items[item] = DOMAIN settings.items[item] \cup {key}
      /\ s.items[item][key] = todo[key]
      /\ \A k \in DOMAIN settings.items[item] \ {key} : s.items[item][k] = settings.items[item][k]
  BY <1>1, SetKeyFacts
<1>3. save_settings(s, key)
  BY DEF storage_write_key
<1> HIDE DEF s
<1>4. CASE /\ file' = s
           /\ todo' = Restrict(todo, DOMAIN todo \ {key})
           /\ UNCHANGED failed
  <2>1. DOMAIN todo' = DOMAIN todo \ {key} /\ \A k \in DOMAIN todo' : todo'[k] = todo[k]
    BY <1>4 DEF Restrict
  <2>2. TypeOK'
    BY <1>0, <1>1, <1>2, <1>4, <2>1, EmptyIsFile DEF ConfigInv, TypeOK
  <2>3. FileOrTodo'
    <3> SUFFICES ASSUME ~failed, NEW i \in DOMAIN data_items
                 PROVE  /\ i \in DOMAIN s.items
                        /\ \A k \in DOMAIN data_items[i] :
                             IF i = item /\ k \in DOMAIN todo'
                             THEN todo'[k] = data_items[i][k]
                             ELSE k \in DOMAIN s.items[i] /\ s.items[i][k] = data_items[i][k]
      BY <1>0, <1>4 DEF FileOrTodo
    <3>1. settings.items = file.items
      BY <1>0 DEF ConfigInv, SettingsAreFile
    <3>2. i \in DOMAIN settings.items
      BY <1>0, <3>1 DEF ConfigInv, FileOrTodo
    <3>3. ASSUME NEW k \in DOMAIN data_items[i]
          PROVE  IF i = item /\ k \in DOMAIN todo
                 THEN todo[k] = data_items[i][k]
                 ELSE k \in DOMAIN settings.items[i] /\ settings.items[i][k] = data_items[i][k]
      BY <1>0, <3>1 DEF ConfigInv, FileOrTodo
    <3>4. CASE i # item
      BY <1>2, <3>2, <3>3, <3>4
    <3>5. CASE i = item
      BY <1>2, <2>1, <3>2, <3>3, <3>5
    <3> QED
      BY <3>4, <3>5
  <2>4. IdleWhenStopped' /\ SettingsKeepOthers' /\ SettingsAreFile'
    BY <1>0, <1>4 DEF IdleWhenStopped, SettingsKeepOthers, SettingsAreFile
  <2> QED
    BY <2>2, <2>3, <2>4 DEF ConfigInv
<1>5. CASE /\ file' \in {file, EmptyFile}
           /\ todo' = Restrict(todo, DOMAIN todo \ (IF key \in SchemaKeys THEN SchemaKeys
                                                                          ELSE EventKeys))
           /\ failed' = TRUE
  <2>1. DOMAIN todo' \subseteq DOMAIN todo /\ \A k \in DOMAIN todo' : todo'[k] = todo[k]
    BY <1>5 DEF Restrict
  <2>2. failed' /\ failed' \in BOOLEAN
    BY <1>5
  <2>3. TypeOK'
    BY <1>0, <1>1, <1>2, <1>5, <2>1, <2>2, EmptyIsFile DEF ConfigInv, TypeOK
  <2>4. SettingsKeepOthers'
    BY <1>0, <1>2, <1>5, EmptyIsFile DEF ConfigInv, SettingsKeepOthers
  <2> QED
    BY <1>0, <2>2, <2>3, <2>4 DEF ConfigInv, IdleWhenStopped, SettingsAreFile, FileOrTodo
<1> QED
  BY <1>3, <1>4, <1>5 DEF save_settings

LEMMA StopKeeps ==
    ASSUME ConfigInv, Stop
    PROVE  ConfigInv'
<1>1. /\ ~running' /\ running' \in BOOLEAN
      /\ DOMAIN data_items' = {} /\ DOMAIN todo' = {} /\ settings' = EmptyFile
      /\ file' \in {file, EmptyFile}
      /\ UNCHANGED <<item, failed>>
  BY NothingTodo, NoItems DEF Stop
<1>2. TypeOK'
  BY <1>1, EmptyIsFile DEF ConfigInv, TypeOK
<1> QED
  BY <1>1, <1>2 DEF ConfigInv, IdleWhenStopped, SettingsKeepOthers, SettingsAreFile, FileOrTodo

LEMMA ConfigInvInductive ==
    ASSUME ConfigInv, [Next]_vars
    PROVE  ConfigInv'
<1>1. CASE UNCHANGED vars
  BY <1>1 DEF vars, ConfigInv, TypeOK, IsFile, IsGroup, IdleWhenStopped, SettingsKeepOthers,
     SettingsAreFile, FileOrTodo
<1> QED
  BY <1>1, StartKeeps, UpdateKeeps, WriteKeeps, StopKeeps DEF Next

LEMMA ConfigInvAlways == Spec => []ConfigInv
  BY ConfigInvInit, ConfigInvInductive, PTL DEF Spec
-----------------------------------------------------------------------------
(***************************************************************************)
(* The theorems.                                                           *)
(***************************************************************************)

\* Every reachable state of the configuration is well typed: properties.c never
\* leaves a group without its schema, whatever fails.
THEOREM TypeCorrect == Spec => []TypeOK
<1>1. ConfigInv => TypeOK
  BY DEF ConfigInv
<1> QED
  BY <1>1, ConfigInvAlways, PTL

\* After a configuration is applied (properties_update_data_item) the device file
\* holds every parameter that is in memory, if no save failed.
THEOREM FileAlwaysFollows == Spec => []FileFollowsMemory
<1>1. ConfigInv => FileFollowsMemory
  BY DEF ConfigInv, FileOrTodo, FileFollowsMemory
<1> QED
  BY <1>1, ConfigInvAlways, PTL

\* The groups of other items are not touched by a configuration, whatever fails
\* and wherever the process ends (storage_write_key_*, save_settings).
THEOREM OthersNeverTouched == Spec => OthersUntouched
<1> DEFINE Untouched ==
       \A j \in DOMAIN file.items :
          \/ j \in DOMAIN file'.items /\ file'.items[j] = file.items[j]
          \/ DOMAIN todo # {} /\ j = item
          \/ file' = EmptyFile
<1>1. ConfigInv /\ [Next]_vars => [Untouched]_vars
  <2> SUFFICES ASSUME ConfigInv, Next PROVE Untouched
    OBVIOUS
  <2>1. CASE file' \in {file, EmptyFile}
    BY <2>1
  <2>2. ASSUME NEW key \in DOMAIN todo, storage_write_key(key) PROVE Untouched
    <3> DEFINE s == SetKey(settings, key, todo[key])
    <3>1. IsFile(settings) /\ item \in DOMAIN settings.items
          /\ key \in SchemaKeys \cup EventKeys /\ (key \in SchemaKeys => todo[key] \in Schemas)
      BY DEF ConfigInv, TypeOK
    <3>2. /\ DOMAIN s.items = DOMAIN settings.items
          /\ \A j \in DOMAIN settings.items \ {item} : s.items[j] = settings.items[j]
      BY <3>1, SetKeyFacts
    <3>3. file' \in {s, file, EmptyFile}
      BY <2>2 DEF storage_write_key, save_settings
    <3> HIDE DEF s
    <3>4. CASE file' = s
      BY <3>2, <3>4 DEF ConfigInv, SettingsKeepOthers
    <3> QED
      BY <2>1, <3>3, <3>4
  <2>3. CASE device_start \/ Stop
    BY <2>1, <2>3 DEF device_start, Stop
  <2>4. ASSUME NEW i, NEW schema, NEW config, properties_update_data_item(i, schema, config)
        PROVE  Untouched
    BY <2>1, <2>4 DEF properties_update_data_item
  <2> QED
    BY <2>2, <2>3, <2>4 DEF Next
<1> QED
  BY <1>1, ConfigInvAlways, PTL DEF Spec, OthersUntouched
-----------------------------------------------------------------------------
(***************************************************************************)
(* The next start.                                                         *)
(***************************************************************************)

\* The schemas in memory are of the KNoT protocol: the start has refused others,
\* and a configuration brings a schema as a whole.
MemoryValid ==
    running => \A i \in DOMAIN data_items : knot_schema_is_valid(data_items[i])

\* No write takes from a group the keys that say where its value is read, and no
\* group appears that is none of the data items.
SourcesIn(f) ==
    /\ DOMAIN f.items \subseteq DOMAIN data_items
    /\ \A i \in DOMAIN f.items : Has(f.items[i], SourceKeys)

SourcesKept == running => SourcesIn(file) /\ (DOMAIN todo # {} => SourcesIn(settings))

\* The l_settings of a configuration are without [KNoTThing], from the first
\* lookup of a data item on.
ThingDropped == ~settings.thing

LoadInv == MemoryValid /\ SourcesKept /\ ThingDropped

\* EmptyFile is the file without groups and without [KNoTThing].
LEMMA EmptyLoads == SourcesIn(EmptyFile)' /\ ~EmptyFile.thing
  BY EmptyIsFile DEF SourcesIn, EmptyFile

LEMMA LoadInvInductive ==
    ASSUME ConfigInv, LoadInv, [Next]_vars
    PROVE  LoadInv'
<1>1. CASE device_start
  <2>1. /\ DOMAIN data_items' = DOMAIN file.items
        /\ UNCHANGED <<file, settings, todo>>
        /\ \A i \in DOMAIN file.items :
              /\ set_schema(file.items[i])
              /\ Has(file.items[i], SourceKeys)
              /\ data_items'[i] = Over(EventOf(file.items[i]), Restrict(file.items[i], SchemaKeys))
    BY <1>1 DEF device_start, set_thing_properties, set_data_items, set_modbus_source_properties
  <2>2. ASSUME NEW i \in DOMAIN file.items
        PROVE  knot_schema_is_valid(data_items'[i])
    <3>1. \A k \in SchemaKeys : data_items'[i][k] = file.items[i][k]
      <4>1. SchemaKeys \cap EventKeys = {}
        BY DEF SchemaKeys, EventKeys
      <4>2. ASSUME NEW k \in SchemaKeys
            PROVE  Over(EventOf(file.items[i]), Restrict(file.items[i], SchemaKeys))[k]
                     = file.items[i][k]
        <5>1. /\ k \notin DOMAIN EventOf(file.items[i])
              /\ DOMAIN Restrict(file.items[i], SchemaKeys) = SchemaKeys
              /\ Restrict(file.items[i], SchemaKeys)[k] = file.items[i][k]
          BY <4>1 DEF EventOf, Restrict
        <5> QED
          BY <4>2, <5>1 DEF Over
      <4> QED
        BY <2>1, <4>2
    <3> QED
      BY <2>1, <3>1 DEF set_schema, knot_schema_is_valid, SchemaKeys
  <2>3. DOMAIN todo = {}
    BY <1>1 DEF ConfigInv, IdleWhenStopped, device_start
  <2> QED
    BY <2>1, <2>2, <2>3 DEF LoadInv, MemoryValid, SourcesKept, SourcesIn, ThingDropped
<1>2. ASSUME NEW i \in Items, NEW schema \in Schemas, NEW config \in Events \cup {NoEvent},
             properties_update_data_item(i, schema, config)
      PROVE  LoadInv'
  <2>1. /\ running /\ i \in DOMAIN data_items
        /\ UNCHANGED <<running, file>>
        /\ settings' \in {EmptyFile, [file EXCEPT !.thing = FALSE]}
    BY <1>2 DEF properties_update_data_item, storage_close, get_data_item_groups
  <2>2. \E ev : data_items' = [data_items EXCEPT ![i] = Over(Uniform(schema), ev)]
    BY <1>2 DEF properties_update_data_item, device_update_config_data_item
  <2>3. /\ DOMAIN data_items' = DOMAIN data_items
        /\ \A k \in SchemaKeys : data_items'[i][k] = schema
        /\ \A j \in DOMAIN data_items \ {i} : data_items'[j] = data_items[j]
    BY <2>1, <2>2 DEF Over, Uniform
  <2>4. MemoryValid'
    BY <2>1, <2>3 DEF LoadInv, MemoryValid, knot_schema_is_valid, SchemaKeys
  <2>5. SourcesIn(file)'
    BY <2>1, <2>3 DEF LoadInv, SourcesKept, SourcesIn
  <2>6. CASE settings' = EmptyFile
    BY <2>4, <2>5, <2>6, EmptyLoads DEF LoadInv, SourcesKept, SourcesIn, ThingDropped
  <2>7. CASE settings' = [file EXCEPT !.thing = FALSE]
    <3>1. file = [thing |-> file.thing, items |-> file.items]
      BY DEF ConfigInv, TypeOK, IsFile
    <3>2. settings'.items = file.items /\ ~settings'.thing
      BY <2>7, <3>1
    <3> QED
      BY <2>1, <2>4, <2>5, <3>2 DEF LoadInv, SourcesKept, SourcesIn, ThingDropped
  <2> QED
    BY <2>1, <2>6, <2>7
<1>3. ASSUME NEW key \in DOMAIN todo, storage_write_key(key) PROVE LoadInv'
  <2> DEFINE s == SetKey(settings, key, todo[key])
  <2>1. IsFile(settings) /\ item \in DOMAIN settings.items
        /\ key \in SchemaKeys \cup EventKeys /\ (key \in SchemaKeys => todo[key] \in Schemas)
    BY DEF ConfigInv, TypeOK
  <2>2. /\ DOMAIN s.items = DOMAIN settings.items
        /\ \A j \in DOMAIN settings.items \ {item} : s.items[j] = settings.items[j]
        /\ DOMAIN s.items[item] = DOMAIN settings.items[item] \cup {key}
    BY <2>1, SetKeyFacts
  <2>3. ~s.thing
    <3>1. settings = [thing |-> settings.thing, items |-> settings.items]
      BY <2>1 DEF IsFile
    <3>2. s.thing = settings.thing
      BY <3>1 DEF SetKey
    <3> QED
      BY <3>2 DEF LoadInv, ThingDropped
  <2>4. /\ running /\ UNCHANGED <<running, data_items>>
        /\ settings' \in {EmptyFile, s}
        /\ file' \in {s, file, EmptyFile}
    BY <1>3 DEF storage_write_key, storage_close, save_settings
  <2> HIDE DEF s
  <2>5. SourcesIn(settings) /\ SourcesIn(file)
    BY <2>4 DEF LoadInv, SourcesKept
  <2>6. SourcesIn(s)
    BY <2>2, <2>5 DEF SourcesIn, Has
  <2>7. SourcesIn(EmptyFile)
    BY EmptyIsFile DEF SourcesIn
  <2>8. SourcesKept'
    BY <2>4, <2>5, <2>6, <2>7 DEF SourcesKept, SourcesIn
  <2>9. MemoryValid'
    BY <2>4 DEF LoadInv, MemoryValid
  <2>10. ThingDropped'
    BY <2>3, <2>4, EmptyLoads DEF ThingDropped
  <2> QED
    BY <2>8, <2>9, <2>10 DEF LoadInv
<1>4. CASE Stop
  BY <1>4, EmptyLoads DEF Stop, LoadInv, MemoryValid, SourcesKept, ThingDropped
<1>5. CASE UNCHANGED vars
  BY <1>5 DEF vars, LoadInv, MemoryValid, SourcesKept, SourcesIn, ThingDropped
<1> QED
  BY <1>1, <1>2, <1>3, <1>4, <1>5 DEF Next

LEMMA LoadInvAlways == Spec => []LoadInv
<1>1. Init => LoadInv
  BY EmptyLoads DEF Init, LoadInv, MemoryValid, SourcesKept, ThingDropped
<1> QED
  BY <1>1, LoadInvInductive, ConfigInvAlways, PTL DEF Spec

\* A configuration that was applied and saved leaves data items that the next start
\* takes (set_schema, set_modbus_source_properties, set_event), but for the bit
\* offset and the order of the thresholds.
THEOREM ItemsAlwaysLoadable == Spec => []ItemsStayLoadable
<1>1. ConfigInv /\ LoadInv => ItemsStayLoadable
  <2> SUFFICES ASSUME ConfigInv, LoadInv, running, DOMAIN todo = {}, ~failed,
                      NEW i \in DOMAIN file.items
               PROVE  /\ set_schema(file.items[i])
                      /\ data_items[i]["ValueType"] \in Fits =>
                            set_modbus_source_properties(file.items[i])
                      /\ set_event(data_items[i])
                         /\ DOMAIN data_items[i] = DOMAIN file.items[i] \ SourceKeys =>
                            set_event(file.items[i])
    BY DEF ItemsStayLoadable
  <2>1. i \in DOMAIN data_items /\ Has(file.items[i], SourceKeys)
    BY DEF LoadInv, SourcesKept, SourcesIn
  <2>2. \A k \in DOMAIN data_items[i] :
           k \in DOMAIN file.items[i] /\ file.items[i][k] = data_items[i][k]
    BY <2>1 DEF ConfigInv, FileOrTodo
  <2>3. SchemaKeys \subseteq DOMAIN data_items[i]
    BY <2>1 DEF ConfigInv, TypeOK, IsGroup
  <2>4. knot_schema_is_valid(data_items[i])
    BY <2>1 DEF LoadInv, MemoryValid
  <2>5. set_schema(file.items[i])
    BY <2>2, <2>3, <2>4 DEF set_schema, Has, knot_schema_is_valid, SchemaKeys
  <2>6. ASSUME data_items[i]["ValueType"] \in Fits
        PROVE  set_modbus_source_properties(file.items[i])
    BY <2>1, <2>2, <2>3, <2>6 DEF set_modbus_source_properties, valid_bit_offset, SchemaKeys
  <2>7. ASSUME set_event(data_items[i]), DOMAIN data_items[i] = DOMAIN file.items[i] \ SourceKeys
        PROVE  set_event(file.items[i])
    BY <2>2, <2>7 DEF set_event, Has, SourceKeys
  <2> QED
    BY <2>5, <2>6, <2>7
<1> QED
  BY <1>1, ConfigInvAlways, LoadInvAlways, PTL

\* Whatever changes the device file makes it one that thingd does not start with:
\* a configuration that is saved (get_data_item_groups has removed [KNoTThing] from
\* the l_settings that are written), a save that fails, a process that ends in one.
\* And there is no way back, since no write brings [KNoTThing] back.
THEOREM EveryWriteUnloads ==
    Spec => [][/\ file' # file => ~set_thing_properties(file')
               /\ ~file.thing => ~file'.thing]_vars
<1>1. ASSUME ConfigInv, LoadInv, Next
      PROVE  file' = file \/ ~file'.thing
  <2>1. ASSUME NEW key \in DOMAIN todo, storage_write_key(key) PROVE file' = file \/ ~file'.thing
    <3>1. file' \in {SetKey(settings, key, todo[key]), file, EmptyFile}
      BY <2>1 DEF storage_write_key, save_settings
    <3>2. settings = [thing |-> settings.thing, items |-> settings.items]
      BY <1>1 DEF ConfigInv, TypeOK, IsFile
    <3>3. SetKey(settings, key, todo[key]).thing = settings.thing
      BY <3>2 DEF SetKey
    <3> QED
      BY <1>1, <3>1, <3>3, EmptyLoads DEF LoadInv, ThingDropped
  <2>2. CASE device_start \/ Stop
    BY <2>2, EmptyLoads DEF device_start, Stop
  <2>3. ASSUME NEW i, NEW schema, NEW config, properties_update_data_item(i, schema, config)
        PROVE  file' = file
    BY <2>3 DEF properties_update_data_item
  <2> QED
    BY <1>1, <2>1, <2>2, <2>3 DEF Next
<1>2. ASSUME ConfigInv, LoadInv, [Next]_vars
      PROVE  [/\ file' # file => ~set_thing_properties(file')
              /\ ~file.thing => ~file'.thing]_vars
  BY <1>1, <1>2 DEF set_thing_properties, set_thing_name
<1> QED
  BY <1>2, ConfigInvAlways, LoadInvAlways, PTL DEF Spec
=============================================================================
