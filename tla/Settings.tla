------------------------------ MODULE Settings ------------------------------
(***************************************************************************)
(* One key of the configuration: its entries in apps/config, a tenant's    *)
(* own and the global one, the events on config.events that announce a     *)
(* change, and one process with the settings client: its cache with a time *)
(* to live and the consumer that evicts from it.                           *)
(*                                                                         *)
(* An entry is saved first and announced after, and a failed announcement  *)
(* is only logged; a read of the client may be under way while its tenant  *)
(* is evicted.  Then the time to live is what ends a stale value.  Values  *)
(* and flags are read and cached alike: one kind is modelled.              *)
(***************************************************************************)
EXTENDS Integers, Sequences

CONSTANTS
  Tenants, Global,  \* the owners of entries
  Values,           \* values of the setting
  Unset,            \* no entry, or nothing cached: the caller's default
  Editors,          \* calls of PUT /config/:key
  Readers,          \* calls of getInt or isEnabled under way at once
  Enforced,         \* the services verify the signature of the identity
  MaxChanges        \* bound on the entries saved in one behaviour

OwnerAssumption == Global \notin Tenants /\ Unset \notin Values
SettingsBounds == MaxChanges \in Nat /\ Enforced \in BOOLEAN

VARIABLES
  entries,    \* config_entries
  editor,     \* what each call of an editor does
  saved,      \* entries saved so far
  topic,      \* config.events: the owners whose entry changed
  position,   \* how far the process has consumed it
  cache,      \* its SettingsCache
  reader,     \* what each read does
  doubtful    \* tenants whose cached value only the time to live will end

configVars == <<entries, editor, saved>>
clientVars == <<position, cache, doubtful>>
vars == <<configVars, topic, clientVars, reader>>

Owners == Tenants \cup {Global}
NotEditing == [pc |-> "IDLE", owner |-> Global, value |-> Unset, isNew |-> FALSE]
NotReading == [pc |-> "IDLE", tenant |-> Global, got |-> Unset, isSet |-> FALSE, reached |-> FALSE]

Init ==
  /\ entries = [o \in Owners |-> Unset]
  /\ editor = [e \in Editors |-> NotEditing]
  /\ saved = 0
  /\ topic = <<>> /\ position = 0
  /\ cache = [t \in Tenants |-> Unset]
  /\ reader = [r \in Readers |-> NotReading]
  /\ doubtful = {}

\* A tenant's own entry, else the global one.
Resolve(t) == IF entries[t] # Unset THEN entries[t] ELSE entries[Global]

\* The tenants a change of an owner's entry is about.
Concerned(owner) == IF owner = Global THEN Tenants ELSE {owner}

-----------------------------------------------------------------------------
(* apps/config.                                                            *)

FindEntry(e, owner, value) ==
  /\ editor[e] = NotEditing
  /\ editor' = [editor EXCEPT ![e] =
       [pc |-> "SAVE", owner |-> owner, value |-> value, isNew |-> entries[owner] = Unset]]
  /\ UNCHANGED <<entries, saved, topic, clientVars, reader>>

\* Two first writes of an owner: the unique index refuses the second.
SaveEntry(e) ==
  /\ editor[e].pc = "SAVE" /\ saved < MaxChanges
  /\ LET owner == editor[e].owner IN
     IF editor[e].isNew /\ entries[owner] # Unset
     THEN editor' = [editor EXCEPT ![e] = NotEditing] /\ UNCHANGED <<entries, saved>>
     ELSE /\ entries' = [entries EXCEPT ![owner] = editor[e].value]
          /\ saved' = saved + 1
          /\ editor' = [editor EXCEPT ![e].pc = "PUBLISH"]
  /\ UNCHANGED <<topic, clientVars, reader>>

PublishChange(e) ==
  /\ editor[e].pc = "PUBLISH"
  /\ topic' = Append(topic, editor[e].owner)
  /\ editor' = [editor EXCEPT ![e] = NotEditing]
  /\ UNCHANGED <<entries, saved, clientVars, reader>>

\* Logged and no more, or the service stops.
LoseChange(e) ==
  /\ editor[e].pc = "PUBLISH"
  /\ editor' = [editor EXCEPT ![e] = NotEditing]
  /\ doubtful' = doubtful \cup Concerned(editor[e].owner)
  /\ UNCHANGED <<entries, saved, topic, position, cache, reader>>

-----------------------------------------------------------------------------
(* The settings client.                                                    *)

\* A miss goes to apps/config; a hit answers at once.
GetInt(r, t) ==
  /\ reader[r] = NotReading
  /\ cache[t] = Unset
  /\ reader' = [reader EXCEPT ![r] = [NotReading EXCEPT
       !.pc = "FETCH", !.tenant = t, !.isSet = (Resolve(t) # Unset)]]
  /\ UNCHANGED <<configVars, topic, clientVars>>

\* The interceptor refuses an identity without a signature, and the client
\* signs none.
Authorized == ~Enforced

\* A refusal is an error to the client, an absent entry (404) is not.
FetchValue(r) ==
  /\ reader[r].pc = "FETCH"
  /\ reader' = [reader EXCEPT
       ![r].pc = IF Authorized /\ Resolve(reader[r].tenant) # Unset THEN "SET" ELSE "RETURN",
       ![r].got = IF Authorized THEN Resolve(reader[r].tenant) ELSE Unset,
       ![r].reached = TRUE]
  /\ UNCHANGED <<configVars, topic, clientVars>>

\* Unreachable, or no answer in time.
FetchFails(r) ==
  /\ reader[r].pc = "FETCH"
  /\ reader' = [reader EXCEPT ![r].pc = "RETURN"]
  /\ UNCHANGED <<configVars, topic, clientVars>>

SetCache(r) ==
  /\ reader[r].pc = "SET"
  /\ cache' = [cache EXCEPT ![reader[r].tenant] = reader[r].got]
  /\ reader' = [reader EXCEPT ![r].pc = "RETURN"]
  /\ UNCHANGED <<configVars, topic, position, doubtful>>

\* The value, or the caller's default for Unset.
Return(r) ==
  /\ reader[r].pc = "RETURN"
  /\ reader' = [reader EXCEPT ![r] = NotReading]
  /\ UNCHANGED <<configVars, topic, clientVars>>

\* A read that has its value but has not cached it yet.
UnderWay(t) == {r \in Readers : reader[r].pc = "SET" /\ reader[r].tenant = t}

\* What the tenants lose from the cache is no longer in doubt, unless a read
\* is about to bring an older value back.
Forget(ts) ==
  /\ cache' = [t \in Tenants |-> IF t \in ts THEN Unset ELSE cache[t]]
  /\ doubtful' = (doubtful \ {t \in ts : UnderWay(t) = {}})
                   \cup {t \in ts : \E r \in UnderWay(t) : reader[r].got # Resolve(t)}

\* Mutant: a change of the global entry evicts no tenant.
EvictOwner(owner) == Forget({owner} \cap Tenants)

Evict(owner) == Forget(Concerned(owner))

HandleMessage ==
  /\ position < Len(topic)
  /\ position' = position + 1
  /\ Evict(topic[position'])
  /\ UNCHANGED <<configVars, topic, reader>>

ExpireEntry(t) ==
  /\ cache[t] # Unset
  /\ Forget({t})
  /\ UNCHANGED <<configVars, topic, position, reader>>

\* A new process has an empty cache and reads the topic from its beginning.
RestartClient ==
  /\ cache' = [t \in Tenants |-> Unset]
  /\ doubtful' = {}
  /\ position' = 0
  /\ reader' = [r \in Readers |-> NotReading]
  /\ UNCHANGED <<configVars, topic>>

-----------------------------------------------------------------------------
UpsertConfigValue(e) ==
  \/ \E owner \in Owners, value \in Values : FindEntry(e, owner, value)
  \/ SaveEntry(e) \/ PublishChange(e) \/ LoseChange(e)

Read(r) ==
  \/ \E t \in Tenants : GetInt(r, t)
  \/ FetchValue(r) \/ FetchFails(r) \/ SetCache(r) \/ Return(r)

Next ==
  \/ \E e \in Editors : UpsertConfigValue(e)
  \/ \E r \in Readers : Read(r)
  \/ \E t \in Tenants : ExpireEntry(t)
  \/ HandleMessage \/ RestartClient

Spec == Init /\ [][Next]_vars

-----------------------------------------------------------------------------
(* The state is what the declarations say.                                 *)
TypeOK ==
  /\ entries \in [Owners -> Values \cup {Unset}]
  /\ editor \in [Editors -> [pc : {"IDLE", "SAVE", "PUBLISH"}, owner : Owners,
                             value : Values \cup {Unset}, isNew : BOOLEAN]]
  /\ saved \in 0..MaxChanges
  /\ topic \in Seq(Owners)
  /\ position \in 0..Len(topic)
  /\ cache \in [Tenants -> Values \cup {Unset}]
  /\ reader \in [Readers -> [pc : {"IDLE", "FETCH", "SET", "RETURN"}, tenant : Owners,
                             got : Values \cup {Unset}, isSet : BOOLEAN, reached : BOOLEAN]]
  /\ doubtful \in SUBSET Tenants

\* A change on its way to the cache: saved and not announced, or announced
\* and not consumed.
Announced(t) ==
  \/ \E e \in Editors : editor[e].pc = "PUBLISH" /\ t \in Concerned(editor[e].owner)
  \/ \E i \in (position + 1)..Len(topic) : t \in Concerned(topic[i])

\* A stale value is being ended: what the cache holds for a tenant is what
\* its next read would get, or the change is on its way to evict it.  Only
\* after a lost announcement, or an eviction that overtook a read, is the end
\* of its time to live what ends it.
StaleIsEnding ==
  \A t \in Tenants :
    cache[t] \notin {Unset, Resolve(t)} => Announced(t) \/ t \in doubtful

\* A setting takes effect: a read that begins when its tenant has a value and
\* that apps/config answers returns a value, not the caller's default.  (Where
\* signatures are enforced it never does.)
SettingTakesEffect ==
  \A r \in Readers :
    reader[r].pc = "RETURN" /\ reader[r].isSet /\ reader[r].reached => reader[r].got # Unset

=============================================================================
