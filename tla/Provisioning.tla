---------------------------- MODULE Provisioning ----------------------------
(***************************************************************************)
(* apps/auth: the creation of tenants, and the provisioning of a user,     *)
(* which writes to two places no transaction spans: the user and its role  *)
(* in Keycloak, and user_tenant_map in Postgres.  A failure after the user *)
(* exists is compensated by deleting it, in Keycloak's adapter while the   *)
(* role is assigned and in the handler after that.                         *)
(*                                                                         *)
(* Keycloak is external: it refuses a username it has.  A user is named by *)
(* the call that created it.  An answer of either store may be lost after  *)
(* it acted, and the service may stop.                                     *)
(***************************************************************************)
EXTENDS Integers, FiniteSets

CONSTANTS
  Admins,     \* calls of POST /tenants and POST /tenants/:id/users
  Slugs, Usernames,
  MaxMishaps  \* bound on lost answers and stops in one behaviour

MishapBound == MaxMishaps \in Nat

VARIABLES
  tenants,    \* the slugs in tenants
  admin,      \* what each call is doing, for which slug or username
  users,      \* Keycloak's users
  roles,      \* those that have their realm role
  links,      \* rows of user_tenant_map
  told,       \* how a call ended
  mishaps     \* calls cut off by a lost answer or a stop

storeVars == <<tenants, users, roles, links>>
vars == <<storeVars, admin, told, mishaps>>

\* Every call is made once; the next one is another call.
Init ==
  /\ tenants = {}
  /\ admin = [a \in Admins |-> [pc |-> "NEW", name |-> ""]]
  /\ users = {} /\ roles = {} /\ links = {}
  /\ told = [a \in Admins |-> "NOTHING"]
  /\ mishaps = {}

Step(a, from, to) ==
  /\ admin[a].pc = from
  /\ admin' = [admin EXCEPT ![a].pc = to]

End(a, outcome) ==
  /\ admin' = [admin EXCEPT ![a].pc = "ENDED"]
  /\ told' = [told EXCEPT ![a] = outcome]

-----------------------------------------------------------------------------
(* CreateTenantHandler.                                                    *)

FindBySlug(a, slug) ==
  /\ admin[a].pc = "NEW"
  /\ IF slug \in tenants
     THEN End(a, "CONFLICT")
     ELSE admin' = [admin EXCEPT ![a] = [pc |-> "SAVE_TENANT", name |-> slug]] /\ UNCHANGED told
  /\ UNCHANGED <<storeVars, mishaps>>

\* The unique index decides between two calls that both found the slug free.
SaveTenant(a) ==
  /\ admin[a].pc = "SAVE_TENANT"
  /\ tenants' = tenants \cup {admin[a].name}
  /\ End(a, IF admin[a].name \in tenants THEN "CONFLICT" ELSE "CREATED")
  /\ UNCHANGED <<users, roles, links, mishaps>>

-----------------------------------------------------------------------------
(* ProvisionUserHandler and KeycloakAdminHttpAdapter.                      *)

\* The tenant exists and the admin token was issued; failing that, nothing
\* has happened yet.
Authenticate(a, username) ==
  /\ admin[a].pc = "NEW" /\ tenants # {}
  /\ admin' = [admin EXCEPT ![a] = [pc |-> "CREATE_USER", name |-> username]]
  /\ UNCHANGED <<storeVars, told, mishaps>>

CreateUserRecord(a) ==
  /\ admin[a].pc = "CREATE_USER"
  /\ IF \E b \in users : admin[b].name = admin[a].name
     THEN End(a, "CONFLICT") /\ UNCHANGED users
     ELSE users' = users \cup {a} /\ Step(a, "CREATE_USER", "ASSIGN_ROLE") /\ UNCHANGED told
  /\ UNCHANGED <<tenants, roles, links, mishaps>>

AssignRealmRole(a) ==
  /\ Step(a, "ASSIGN_ROLE", "SAVE_LINK")
  /\ roles' = roles \cup {a}
  /\ UNCHANGED <<tenants, users, links, told, mishaps>>

\* The role does not exist, or Keycloak fails: the adapter compensates.
RoleFails(a) ==
  /\ Step(a, "ASSIGN_ROLE", "UNDO")
  /\ UNCHANGED <<storeVars, told, mishaps>>

SaveLink(a) ==
  /\ admin[a].pc = "SAVE_LINK"
  /\ links' = links \cup {a}
  /\ End(a, "PROVISIONED")
  /\ UNCHANGED <<tenants, users, roles, mishaps>>

\* Mutant: the handler does not compensate.
LinkJustFails(a) ==
  /\ admin[a].pc = "SAVE_LINK"
  /\ End(a, "FAILED")
  /\ UNCHANGED <<storeVars, mishaps>>

\* The registry fails: the handler compensates.
LinkFails(a) ==
  /\ Step(a, "SAVE_LINK", "UNDO")
  /\ UNCHANGED <<storeVars, told, mishaps>>

\* A user that is gone already counts as deleted.
DeleteUserRecord(a) ==
  /\ admin[a].pc = "UNDO"
  /\ users' = users \ {a} /\ roles' = roles \ {a}
  /\ End(a, "FAILED")
  /\ UNCHANGED <<tenants, links, mishaps>>

\* The caller learns the id of the user to remove by hand.
DeletionFails(a) ==
  /\ admin[a].pc = "UNDO"
  /\ End(a, "ORPHANED")
  /\ UNCHANGED <<storeVars, mishaps>>

-----------------------------------------------------------------------------
(* What the code cannot see.                                               *)

Mishap(a) ==
  /\ mishaps' = mishaps \cup {a}
  /\ Cardinality(mishaps') <= MaxMishaps

\* Keycloak created the user and its answer was lost: the call fails.
LoseCreated(a) ==
  /\ admin[a].pc = "CREATE_USER" /\ \A b \in users : admin[b].name # admin[a].name
  /\ Mishap(a)
  /\ users' = users \cup {a}
  /\ End(a, "FAILED")
  /\ UNCHANGED <<tenants, roles, links>>

\* Postgres committed the link and its answer was lost: it is compensated.
LoseLinked(a) ==
  /\ Step(a, "SAVE_LINK", "UNDO")
  /\ Mishap(a)
  /\ links' = links \cup {a}
  /\ UNCHANGED <<tenants, users, roles, told>>

StopAuth(a) ==
  /\ admin[a].pc \notin {"NEW", "ENDED"}
  /\ Mishap(a)
  /\ admin' = [admin EXCEPT ![a].pc = "ENDED"]
  /\ UNCHANGED <<storeVars, told>>

-----------------------------------------------------------------------------
CreateTenant(a) == (\E slug \in Slugs : FindBySlug(a, slug)) \/ SaveTenant(a)

ProvisionUser(a) ==
  \/ \E username \in Usernames : Authenticate(a, username)
  \/ CreateUserRecord(a) \/ AssignRealmRole(a) \/ RoleFails(a) \/ SaveLink(a) \/ LinkFails(a)
  \/ DeleteUserRecord(a) \/ DeletionFails(a)

Next ==
  \E a \in Admins :
    CreateTenant(a) \/ ProvisionUser(a) \/ LoseCreated(a) \/ LoseLinked(a) \/ StopAuth(a)

Spec == Init /\ [][Next]_vars

-----------------------------------------------------------------------------
(* The state is what the declarations say.                                 *)
TypeOK ==
  /\ tenants \in SUBSET Slugs
  /\ admin \in [Admins -> [pc : {"NEW", "SAVE_TENANT", "CREATE_USER", "ASSIGN_ROLE", "SAVE_LINK",
                                 "UNDO", "ENDED"}, name : Slugs \cup Usernames \cup {""}]]
  /\ users \in SUBSET Admins
  /\ roles \in SUBSET users
  /\ links \in SUBSET Admins
  /\ told \in [Admins -> {"NOTHING", "CREATED", "CONFLICT", "PROVISIONED", "FAILED", "ORPHANED"}]
  /\ mishaps \in SUBSET Admins

Complete(a) == a \in users /\ a \in roles /\ a \in links

\* Nobody is left half provisioned without somebody knowing: a user of
\* Keycloak that lacks its role or its tenant belongs to a call that goes on,
\* or whose caller was told to remove it, or that was cut off; a caller told of
\* success has a complete user; a tenant link without a user is the trace of a
\* call cut off.  And a username and a slug belong to one call.
NoSilentOrphan ==
  /\ \A a \in users : \/ Complete(a) \/ a \in mishaps
                      \/ admin[a].pc # "ENDED" \/ told[a] = "ORPHANED"
  /\ \A a \in Admins : told[a] = "PROVISIONED" => Complete(a)
  /\ links \subseteq users \cup mishaps
  /\ \A a, b \in users : admin[a].name = admin[b].name => a = b
  /\ \A a, b \in Admins : told[a] = "CREATED" /\ told[b] = "CREATED" /\ admin[a].name = admin[b].name => a = b

=============================================================================
