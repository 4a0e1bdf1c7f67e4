--------------------------- MODULE AccountsProofs ---------------------------
(***************************************************************************)
(* Theorems about Accounts, for any tenants, emails and requests.          *)
(***************************************************************************)
EXTENDS Accounts, TLAPS

\* Name n was minted when the row of tenant t was created, the requests being
\* at the given places.
MadeFor(places, n, t) ==
    \/ n \in Standing /\ n = t
    \/ n \in Requests /\ places[n].tenant = t /\ places[n].step \in {"done", "first key"}

Registering == {"check", "provision", "own", "registered"}
Erasing     == {"keys", "sessions", "stores", "rows", "sweep", "closed"}
WithTenant  == Registering \cup Erasing \cup
               {"open", "mint", "create", "first key", "exists", "insert", "erase"}
WithAccount == {"open", "mail", "set", "burn", "revoke", "commit"}

\* The columns that a request has read by the step it is at.
Has(p) ==
    /\ p \in Place
    /\ p.step \in WithTenant => p.tenant \in Tenants
    /\ p.step \in Registering => p.email \in Emails
    /\ p.step \in WithAccount => p.account \in Names
    /\ p.step = "redeem" => p.ref \in Names

PlaceOK == \A r \in Requests : Has(at[r])

\* A tenant's row, and its account's id, bear the name of what created them.
Makers ==
    \A t \in Tenants :
        /\ tenant[t] # None => MadeFor(at, tenant[t], t)
        /\ owner[t] # None => owner[t].id = tenant[t]

\* The row of a slug that a registration has inserted and not committed is its
\* own, and nobody else's is committed.
SlugLock ==
    \A r \in Requests : at[r].step \in {"own", "registered"} =>
        /\ ~Live(at[r].tenant)
        /\ \A q \in Requests : HoldsSlug(q, at[r].tenant) => q = r

\* What a login or an erasure has read stays true of the name it read.
InFlight ==
    \A r \in Requests :
        /\ at[r].step = "open" => MadeFor(at, at[r].account, at[r].tenant)
        /\ at[r].step \in Erasing => MadeFor(at, at[r].ref, at[r].tenant)

Erased ==
    \A r \in Requests : at[r].step \in {"sweep", "closed"} => tenant[at[r].tenant] # at[r].ref

Types == TypeOK /\ PlaceOK
IInv == Types /\ Makers /\ SlugLock /\ InFlight /\ AccessNeedsTenancy /\ Erased

-----------------------------------------------------------------------------
LEMMA InitTypes == Init => Types
  <1> SUFFICES ASSUME Init PROVE Types
    OBVIOUS
  <1>1. Nowhere \in Place /\ Has(Nowhere)
    BY DEF Nowhere, Place, Has, Steps, WithTenant, WithAccount, Registering, Erasing
  <1>2. at \in [Requests -> Place] /\ PlaceOK
    BY <1>1 DEF Init, PlaceOK
  <1>3. owner \in [Tenants -> Account \cup {None}]
    BY StandingAssumption DEF Init, Account, Names
  <1>4. session \in [Names -> Session \cup {None}]
    BY StandingAssumption DEF Init, Session, Names
  <1>5. link \in [Names -> Link \cup {None}]
    BY DEF Init, Link, Names
  <1>6. tenant \in [Tenants -> Names \cup {None}] /\ key \in [Names -> Tenants \cup {None}]
    BY StandingAssumption DEF Init, Names
  <1>7. held \in [Requests -> Writes]
    BY DEF Init, Writes, Nothing
  <1> QED
    BY <1>2, <1>3, <1>4, <1>5, <1>6, <1>7 DEF Types, TypeOK

\* A request that moves to a place with its columns keeps every place in order.
LEMMA Move ==
  ASSUME Types, NEW r \in Requests, NEW p, Has(p), at' = [at EXCEPT ![r] = p]
  PROVE  at' \in [Requests -> Place] /\ PlaceOK'
  BY DEF Types, TypeOK, PlaceOK, Has

\* The same, when only the step changes and asks for no column it did not have.
LEMMA MoveStep ==
  ASSUME Types, NEW r \in Requests, NEW step \in Steps, Goto(r, step),
         step \in WithTenant => at[r].step \in WithTenant,
         step \in Registering => at[r].step \in Registering,
         step \in WithAccount => at[r].step \in WithAccount,
         step \notin {"open", "redeem"}
  PROVE  at' \in [Requests -> Place] /\ PlaceOK'
  <1>1. Has(at[r])
    BY DEF Types, PlaceOK
  <1> DEFINE p == [at[r] EXCEPT !.step = step]
  <1>2. p \in Place /\ p.step = step /\ p.tenant = at[r].tenant /\ p.email = at[r].email
        /\ p.account = at[r].account
    BY <1>1 DEF Has, Place
  <1>3. Has(p)
    BY <1>1, <1>2 DEF Has
  <1>4. at' = [at EXCEPT ![r] = p]
    BY DEF Goto, Types, TypeOK
  <1> QED
    BY <1>3, <1>4, Move

\* A step keeps the types of the tables and the columns of every request.
LEMMA BeginTypes ==
  ASSUME Types, NEW r \in Requests, Begin(r) PROVE Types'
  <1>1. ASSUME NEW t \in Tenants, NEW e \in Emails, BeginRegister(r, t, e) PROVE Types'
    <2> DEFINE p == [Nowhere EXCEPT !.step = "check", !.tenant = t, !.email = e]
    <2>1. Has(p)
      BY <1>1 DEF BeginRegister, Has, Nowhere, Place, Types, TypeOK, WithTenant, WithAccount, Registering, Erasing, Steps
    <2>2. at' = [at EXCEPT ![r] = p]
      BY <1>1 DEF BeginRegister
    <2> QED
      BY <1>1, <2>1, <2>2, Move DEF BeginRegister, Types, TypeOK, rowVars
  <1>2. ASSUME NEW t \in Tenants, NEW step \in Steps, BeginAdmin(r, t, step) PROVE Types'
    <2> DEFINE p == [Nowhere EXCEPT !.step = step, !.tenant = t]
    <2>1. Has(p)
      BY <1>2 DEF BeginAdmin, Has, Nowhere, Place, Types, TypeOK, WithTenant, WithAccount, Registering, Erasing, Steps
    <2>2. at' = [at EXCEPT ![r] = p]
      BY <1>2 DEF BeginAdmin
    <2> QED
      BY <1>2, <2>1, <2>2, Move DEF BeginAdmin, Types, TypeOK, rowVars
  <1>3. ASSUME NEW e \in Emails, NEW step \in Steps, BeginByEmail(r, e, step) PROVE Types'
    <2> DEFINE p == [Nowhere EXCEPT !.step = step, !.email = e]
    <2>1. Has(p)
      BY <1>3 DEF BeginByEmail, Has, Nowhere, Place, Types, TypeOK, WithTenant, WithAccount, Registering, Erasing, Steps
    <2>2. at' = [at EXCEPT ![r] = p]
      BY <1>3 DEF BeginByEmail
    <2> QED
      BY <1>3, <2>1, <2>2, Move DEF BeginByEmail, Types, TypeOK, rowVars
  <1>4. ASSUME NEW l \in Names, BeginReset(r, l) PROVE Types'
    <2> DEFINE p == [Nowhere EXCEPT !.step = "redeem", !.ref = l]
    <2>1. Has(p)
      BY <1>4 DEF BeginReset, Has, Nowhere, Place, Types, TypeOK, WithTenant, WithAccount, Registering, Erasing, Steps
    <2>2. at' = [at EXCEPT ![r] = p]
      BY <1>4 DEF BeginReset
    <2> QED
      BY <1>4, <2>1, <2>2, Move DEF BeginReset, Types, TypeOK, rowVars
  <1>5. ASSUME NEW s \in Names, NEW step \in Steps, BeginWithSession(r, s, step) PROVE Types'
    <2> DEFINE p == [Nowhere EXCEPT !.step = step, !.ref = s, !.account = session[s].account, !.tenant = session[s].tenant]
    <2>1. Has(p)
      BY <1>5 DEF BeginWithSession, Has, Nowhere, Place, Types, TypeOK, Session, WithTenant, WithAccount, Registering, Erasing, Steps
    <2>2. at' = [at EXCEPT ![r] = p]
      BY <1>5 DEF BeginWithSession
    <2> QED
      BY <1>5, <2>1, <2>2, Move DEF BeginWithSession, Types, TypeOK, rowVars
  <1> QED
    BY <1>1, <1>2, <1>3, <1>4, <1>5 DEF Begin

LEMMA WriteTypes ==
  ASSUME Types, NEW a, NEW r \in Requests, NEW ss
  PROVE  /\ WithPassword(a, r) \in [Tenants -> Account \cup {None}]
         /\ Without(ss) \in [Names -> Session \cup {None}]
  <1>1. ASSUME NEW t \in Tenants, owner[t] # None
        PROVE  [owner[t] EXCEPT !.pw = r] \in Account
    BY <1>1 DEF Types, TypeOK, Account, Names
  <1> QED
    BY <1>1 DEF Types, TypeOK, WithPassword, Without

LEMMA RegisterTypes ==
  ASSUME Types, NEW r \in Requests, Register(r) PROVE Types'
  <1>1. ASSUME CheckEmail(r) PROVE Types'
    <2>1. Goto(r, "done") \/ Goto(r, "provision")
      BY <1>1 DEF CheckEmail
    <2>2. at' \in [Requests -> Place] /\ PlaceOK'
      BY <1>1, <2>1, MoveStep DEF CheckEmail, WithTenant, WithAccount, Registering, Erasing, Steps
    <2> QED
      BY <1>1, <2>2 DEF CheckEmail, Types, TypeOK, rowVars
  <1>2. ASSUME Provision(r) PROVE Types'
    <2>1. Goto(r, "done") \/ Goto(r, "own")
      BY <1>2 DEF Provision
    <2>2. at' \in [Requests -> Place] /\ PlaceOK'
      BY <1>2, <2>1, MoveStep DEF Provision, WithTenant, WithAccount, Registering, Erasing, Steps
    <2> QED
      BY <1>2, <2>2 DEF Provision, Types, TypeOK, rowVars
  <1>3. ASSUME InsertAccount(r) PROVE Types'
    <2>1. Goto(r, "done") \/ Goto(r, "registered")
      BY <1>3 DEF InsertAccount
    <2>2. at' \in [Requests -> Place] /\ PlaceOK'
      BY <1>3, <2>1, MoveStep DEF InsertAccount, WithTenant, WithAccount, Registering, Erasing, Steps
    <2> QED
      BY <1>3, <2>2 DEF InsertAccount, Types, TypeOK, rowVars
  <1>4. ASSUME CommitRegister(r) PROVE Types'
    <2>1. Goto(r, "done")
      BY <1>4 DEF CommitRegister
    <2>2. at' \in [Requests -> Place] /\ PlaceOK'
      BY <2>1, MoveStep DEF WithTenant, WithAccount, Registering, Erasing, Steps
    <2>3. at[r].tenant \in Tenants /\ at[r].email \in Emails /\ r \in Names
      BY <1>4 DEF CommitRegister, Types, PlaceOK, Has, WithTenant, Registering, Names
    <2> QED
      BY <1>4, <2>2, <2>3 DEF CommitRegister, Types, TypeOK, Account, Session
  <1> QED
    BY <1>1, <1>2, <1>3, <1>4 DEF Register

LEMMA AdminTypes ==
  ASSUME Types, NEW r \in Requests, Admin(r) PROVE Types'
  <1>1. ASSUME CreateTenant(r) PROVE Types'
    <2>1. Goto(r, "done") \/ Goto(r, "first key")
      BY <1>1 DEF CreateTenant
    <2>2. at' \in [Requests -> Place] /\ PlaceOK'
      BY <1>1, <2>1, MoveStep DEF CreateTenant, WithTenant, WithAccount, Registering, Erasing, Steps
    <2> QED
      BY <1>1, <2>2 DEF CreateTenant, Types, TypeOK, rowVars, Names
  <1>2. ASSUME TenantExists(r) PROVE Types'
    <2>1. Goto(r, "done") \/ Goto(r, "insert")
      BY <1>2 DEF TenantExists
    <2>2. at' \in [Requests -> Place] /\ PlaceOK'
      BY <1>2, <2>1, MoveStep DEF TenantExists, WithTenant, WithAccount, Registering, Erasing, Steps
    <2> QED
      BY <1>2, <2>2 DEF TenantExists, Types, TypeOK, rowVars
  <1>3. ASSUME InsertKey(r) PROVE Types'
    <2>1. Goto(r, "done")
      BY <1>3 DEF InsertKey
    <2>2. at' \in [Requests -> Place] /\ PlaceOK'
      BY <2>1, MoveStep DEF WithTenant, WithAccount, Registering, Erasing, Steps
    <2>3. at[r].tenant \in Tenants
      BY <1>3 DEF InsertKey, Types, PlaceOK, Has, WithTenant
    <2> QED
      BY <1>3, <2>2, <2>3 DEF InsertKey, Types, TypeOK
  <1> QED
    BY <1>1, <1>2, <1>3 DEF Admin

LEMMA ByEmailTypes ==
  ASSUME Types, NEW r \in Requests, ByEmail(r) PROVE Types'
  <1>1. ASSUME FindAccount(r) PROVE Types'
    <2> DEFINE next == IF at[r].step = "lookup" THEN "open" ELSE "mail"
    <2>1. PICK t \in Tenants :
            /\ owner[t] # None
            /\ at' = [at EXCEPT ![r] = [@ EXCEPT !.step = next, !.tenant = t,
                                         !.account = owner[t].id]]
      BY <1>1 DEF FindAccount
    <2> DEFINE p == [at[r] EXCEPT !.step = next, !.tenant = t,
                                  !.account = owner[t].id]
    <2>2. at[r] \in Place /\ owner[t] \in Account /\ next \in {"open", "mail"}
      BY <2>1 DEF Types, TypeOK
    <2> HIDE DEF next
    <2>3. Has(p)
      BY <2>2 DEF Has, Place, Account, WithTenant, WithAccount, Registering, Erasing, Steps
    <2>4. at' = [at EXCEPT ![r] = p]
      BY <2>1 DEF Types, TypeOK
    <2> QED
      BY <1>1, <2>3, <2>4, Move DEF FindAccount, Types, TypeOK, rowVars
  <1>2. ASSUME OpenSession(r) PROVE Types'
    <2>1. Goto(r, "done")
      BY <1>2 DEF OpenSession
    <2>2. at' \in [Requests -> Place] /\ PlaceOK'
      BY <2>1, MoveStep DEF WithTenant, WithAccount, Registering, Erasing, Steps
    <2>3. at[r].tenant \in Tenants /\ at[r].account \in Names
      BY <1>2 DEF OpenSession, Types, PlaceOK, Has, WithTenant, WithAccount
    <2> QED
      BY <1>2, <2>2, <2>3 DEF OpenSession, Types, TypeOK, Session
  <1>3. ASSUME MailLink(r) PROVE Types'
    <2>1. Goto(r, "done")
      BY <1>3 DEF MailLink
    <2>2. at' \in [Requests -> Place] /\ PlaceOK'
      BY <2>1, MoveStep DEF WithTenant, WithAccount, Registering, Erasing, Steps
    <2>3. at[r].account \in Names
      BY <1>3 DEF MailLink, Types, PlaceOK, Has, WithAccount
    <2> QED
      BY <1>3, <2>2, <2>3 DEF MailLink, Types, TypeOK, Link
  <1> QED
    BY <1>1, <1>2, <1>3 DEF ByEmail

LEMMA ResetTypes ==
  ASSUME Types, NEW r \in Requests, Reset(r) PROVE Types'
  <1>1. ASSUME Redeem(r) PROVE Types'
    <2>1. CASE Goto(r, "done")
      <3>1. at' \in [Requests -> Place] /\ PlaceOK'
        BY <2>1, MoveStep DEF WithTenant, WithAccount, Registering, Erasing, Steps
      <3> QED
        BY <1>1, <3>1 DEF Redeem, Types, TypeOK, rowVars
    <2>2. CASE link[at[r].ref] # None
               /\ at' = [at EXCEPT ![r].step = "set", ![r].account = link[at[r].ref].account]
      <3> DEFINE p == [at[r] EXCEPT !.step = "set", !.account = link[at[r].ref].account]
      <3>1. at[r] \in Place
        BY DEF Types, TypeOK
      <3>2. link[at[r].ref].account \in Names
        BY <1>1, <2>2 DEF Redeem, Types, TypeOK, PlaceOK, Has, Link
      <3>5. p \in Place /\ p.step = "set" /\ p.account \in Names
        BY <3>1, <3>2 DEF Place, Steps
      <3>3. Has(p)
        BY <3>5 DEF Has, WithTenant, WithAccount, Registering, Erasing
      <3>4. at' = [at EXCEPT ![r] = p]
        BY <2>2 DEF Types, TypeOK
      <3> QED
        BY <1>1, <3>3, <3>4, Move DEF Redeem, Types, TypeOK, rowVars
    <2> QED
      BY <1>1, <2>1, <2>2 DEF Redeem
  <1>2. ASSUME SetPassword(r) PROVE Types'
    <2>1. Goto(r, "burn")
      BY <1>2 DEF SetPassword
    <2>2. at' \in [Requests -> Place] /\ PlaceOK'
      BY <1>2, <2>1, MoveStep DEF SetPassword, WithTenant, WithAccount, Registering, Erasing, Steps
    <2> QED
      BY <1>2, <2>2 DEF SetPassword, Types, TypeOK, rowVars
  <1>3. ASSUME BurnLinks(r) PROVE Types'
    <2>1. Goto(r, "revoke")
      BY <1>3 DEF BurnLinks
    <2>2. at' \in [Requests -> Place] /\ PlaceOK'
      BY <1>3, <2>1, MoveStep DEF BurnLinks, WithTenant, WithAccount, Registering, Erasing, Steps
    <2> QED
      BY <1>3, <2>2 DEF BurnLinks, Types, TypeOK, rowVars, UnusedLinks, Writes
  <1>4. ASSUME RevokeSessions(r) PROVE Types'
    <2>1. Goto(r, "commit")
      BY <1>4 DEF RevokeSessions
    <2>2. at' \in [Requests -> Place] /\ PlaceOK'
      BY <1>4, <2>1, MoveStep DEF RevokeSessions, WithTenant, WithAccount, Registering, Erasing, Steps
    <2> QED
      BY <1>4, <2>2 DEF RevokeSessions, Types, TypeOK, rowVars, SessionsOf, Writes
  <1>5. ASSUME CommitReset(r) PROVE Types'
    <2>1. Goto(r, "won")
      BY <1>5 DEF CommitReset
    <2>2. at' \in [Requests -> Place] /\ PlaceOK'
      BY <1>5, <2>1, MoveStep DEF CommitReset, WithTenant, WithAccount, Registering, Erasing, Steps
    <2> QED
      BY <1>5, <2>2, WriteTypes DEF CommitReset, Types, TypeOK, rowVars, Nothing, Writes, Link
  <1> QED
    BY <1>1, <1>2, <1>3, <1>4, <1>5 DEF Reset

LEMMA ChangeTypes ==
  ASSUME Types, NEW r \in Requests, Change(r) PROVE Types'
  <1>1. ASSUME CheckCurrent(r) PROVE Types'
    <2>1. Goto(r, "change")
      BY <1>1 DEF CheckCurrent
    <2>2. at' \in [Requests -> Place] /\ PlaceOK'
      BY <1>1, <2>1, MoveStep DEF CheckCurrent, WithTenant, WithAccount, Registering, Erasing, Steps
    <2> QED
      BY <1>1, <2>2 DEF CheckCurrent, Types, TypeOK, rowVars
  <1>2. ASSUME ChangePassword(r) PROVE Types'
    <2>1. Goto(r, "evict")
      BY <1>2 DEF ChangePassword
    <2>2. at' \in [Requests -> Place] /\ PlaceOK'
      BY <1>2, <2>1, MoveStep DEF ChangePassword, WithTenant, WithAccount, Registering, Erasing, Steps
    <2> QED
      BY <1>2, <2>2 DEF ChangePassword, Types, TypeOK, rowVars
  <1>3. ASSUME EvictOthers(r) PROVE Types'
    <2>1. Goto(r, "changed")
      BY <1>3 DEF EvictOthers
    <2>2. at' \in [Requests -> Place] /\ PlaceOK'
      BY <1>3, <2>1, MoveStep DEF EvictOthers, WithTenant, WithAccount, Registering, Erasing, Steps
    <2> QED
      BY <1>3, <2>2 DEF EvictOthers, Types, TypeOK, rowVars, SessionsOf, Writes
  <1>4. ASSUME CommitChange(r) PROVE Types'
    <2>1. Goto(r, "done")
      BY <1>4 DEF CommitChange
    <2>2. at' \in [Requests -> Place] /\ PlaceOK'
      BY <1>4, <2>1, MoveStep DEF CommitChange, WithTenant, WithAccount, Registering, Erasing, Steps
    <2> QED
      BY <1>4, <2>2, WriteTypes DEF CommitChange, Types, TypeOK, rowVars, Nothing, Writes
  <1> QED
    BY <1>1, <1>2, <1>3, <1>4 DEF Change

LEMMA ManageTypes ==
  ASSUME Types, NEW r \in Requests, Manage(r) PROVE Types'
  <1>1. ASSUME Logout(r) PROVE Types'
    <2>1. Goto(r, "done")
      BY <1>1 DEF Logout
    <2>2. at' \in [Requests -> Place] /\ PlaceOK'
      BY <1>1, <2>1, MoveStep DEF Logout, WithTenant, WithAccount, Registering, Erasing, Steps
    <2> QED
      BY <1>1, <2>2, WriteTypes DEF Logout, Types, TypeOK, rowVars
  <1>2. ASSUME NEW n \in Names, RevokeKey(r, n) PROVE Types'
    <2>1. Goto(r, "done")
      BY <1>2 DEF RevokeKey
    <2>2. at' \in [Requests -> Place] /\ PlaceOK'
      BY <1>2, <2>1, MoveStep DEF RevokeKey, WithTenant, WithAccount, Registering, Erasing, Steps
    <2> QED
      BY <1>2, <2>2 DEF RevokeKey, Types, TypeOK, rowVars
  <1> QED
    BY <1>1, <1>2 DEF Manage

LEMMA EraseTypes ==
  ASSUME Types, NEW r \in Requests, Erase(r) PROVE Types'
  <1>1. ASSUME BeginErasure(r) PROVE Types'
    <2>1. CASE Goto(r, "done")
      <3>1. at' \in [Requests -> Place] /\ PlaceOK'
        BY <2>1, MoveStep DEF WithTenant, WithAccount, Registering, Erasing, Steps
      <3> QED
        BY <1>1, <3>1 DEF BeginErasure, Types, TypeOK, rowVars
    <2>2. CASE /\ Live(at[r].tenant)
               /\ at' = [at EXCEPT ![r].step = "keys", ![r].ref = tenant[at[r].tenant]]
      <3> DEFINE p == [at[r] EXCEPT !.step = "keys", !.ref = tenant[at[r].tenant]]
      <3>1. at[r] \in Place /\ at[r].tenant \in Tenants
        BY <1>1 DEF BeginErasure, Types, TypeOK, PlaceOK, Has, WithTenant
      <3>2. Has(p)
        BY <3>1 DEF Has, Place, Types, TypeOK, WithTenant, WithAccount, Registering, Erasing, Steps
      <3>3. at' = [at EXCEPT ![r] = p]
        BY <2>2 DEF Types, TypeOK
      <3> QED
        BY <1>1, <3>2, <3>3, Move DEF BeginErasure, Types, TypeOK, rowVars
    <2> QED
      BY <1>1, <2>1, <2>2 DEF BeginErasure
  <1>2. ASSUME DeleteKeys(r) PROVE Types'
    <2>1. Goto(r, "sessions")
      BY <1>2 DEF DeleteKeys
    <2>2. at' \in [Requests -> Place] /\ PlaceOK'
      BY <1>2, <2>1, MoveStep DEF DeleteKeys, WithTenant, WithAccount, Registering, Erasing, Steps
    <2> QED
      BY <1>2, <2>2 DEF DeleteKeys, Types, TypeOK, rowVars
  <1>3. ASSUME DeleteSessions(r) PROVE Types'
    <2>1. Goto(r, "stores")
      BY <1>3 DEF DeleteSessions
    <2>2. at' \in [Requests -> Place] /\ PlaceOK'
      BY <1>3, <2>1, MoveStep DEF DeleteSessions, WithTenant, WithAccount, Registering, Erasing, Steps
    <2> QED
      BY <1>3, <2>2, WriteTypes DEF DeleteSessions, Types, TypeOK, rowVars
  <1>4. ASSUME SweepStores(r) PROVE Types'
    <2>1. Goto(r, "rows") \/ Goto(r, "closed")
      BY <1>4 DEF SweepStores
    <2>2. at' \in [Requests -> Place] /\ PlaceOK'
      BY <1>4, <2>1, MoveStep DEF SweepStores, WithTenant, WithAccount, Registering, Erasing, Steps
    <2> QED
      BY <1>4, <2>2 DEF SweepStores, Types, TypeOK, rowVars
  <1>5. ASSUME DeleteTenant(r) PROVE Types'
    <2>1. Goto(r, "sweep")
      BY <1>5 DEF DeleteTenant
    <2>2. at' \in [Requests -> Place] /\ PlaceOK'
      BY <1>5, <2>1, MoveStep DEF DeleteTenant, WithTenant, WithAccount, Registering, Erasing, Steps
    <2> QED
      BY <1>5, <2>2, WriteTypes DEF DeleteTenant, Types, TypeOK, rowVars
  <1> QED
    BY <1>1, <1>2, <1>3, <1>4, <1>5 DEF Erase

LEMMA NextTypes == Types /\ [Next]_vars => Types'
  <1> SUFFICES ASSUME Types, [Next]_vars PROVE Types'
    OBVIOUS
  <1>1. CASE UNCHANGED vars
    BY <1>1 DEF vars, Types, TypeOK, PlaceOK, Has
  <1>2. ASSUME NEW r \in Requests, Refused(r) PROVE Types'
    <2>1. at' \in [Requests -> Place] /\ PlaceOK'
      BY <1>2, MoveStep DEF Refused, WithTenant, WithAccount, Registering, Erasing, Steps
    <2> QED
      BY <1>2, <2>1 DEF Refused, Types, TypeOK, Nothing, Writes, rowVars
  <1>3. ASSUME NEW n \in Names, SessionExpires(n) PROVE Types'
    BY <1>3 DEF SessionExpires, Types, TypeOK, PlaceOK, Has
  <1>4. ASSUME NEW n \in Names, LinkExpires(n) PROVE Types'
    <2>1. [link[n] EXCEPT !.state = "expired"] \in Link
      BY <1>4 DEF LinkExpires, Types, TypeOK, Link
    <2> QED
      BY <1>4, <2>1 DEF LinkExpires, Types, TypeOK, PlaceOK, Has
  <1> QED
    BY <1>1, <1>2, <1>3, <1>4, BeginTypes, RegisterTypes, AdminTypes, ByEmailTypes, ResetTypes,
       ChangeTypes, ManageTypes, EraseTypes DEF Next, Handle

\* Every table and every request's place keep their types (accounts.rs, erasure.rs).
THEOREM AccountsTypeCorrect == Spec => []TypeOK
  <1>1. Init => Types
    BY InitTypes
  <1>2. Types /\ [Next]_vars => Types'
    BY NextTypes
  <1>3. Types => TypeOK
    BY DEF Types
  <1> QED
    BY <1>1, <1>2, <1>3, PTL DEF Spec

-----------------------------------------------------------------------------
(* The inductive invariant.                                                *)

\* The tenancies and the ids of their accounts stay as they are.
SameTenancies ==
    /\ tenant' = tenant
    /\ \A t \in Tenants : /\ owner'[t] = None <=> owner[t] = None
                          /\ owner[t] # None => owner'[t].id = owner[t].id

\* No session, link or key appears.
NoNewAccess ==
    /\ \A s \in Names : session'[s] \in {None, session[s]}
    /\ \A l \in Names : link'[l] # None =>
          link[l] # None /\ link'[l].account = link[l].account
    /\ \A n \in Names : key'[n] \in {None, key[n]}

\* What a step of request r may do to the places of requests.
PlaceRule(r) ==
    /\ \A q \in Requests : q # r => at'[q] = at[q]
    /\ at[r].step # "done"
    /\ at[r].step = "first key" => at'[r].step = "done" /\ at'[r].tenant = at[r].tenant
    /\ at'[r].step \in {"own", "registered"} =>
          /\ at'[r].tenant = at[r].tenant
          /\ \/ at[r].step = "own"
             \/ at[r].step = "provision" /\ SlugFree(at[r].tenant) /\ ~Live(at[r].tenant)
    /\ at'[r].step = "open" => MadeFor(at, at'[r].account, at'[r].tenant)
    /\ at'[r].step \in Erasing => \/ MadeFor(at, at'[r].ref, at'[r].tenant)
                                 \/ /\ at[r].step \in Erasing
                                    /\ at'[r].ref = at[r].ref
                                    /\ at'[r].tenant = at[r].tenant

\* Once minted, a name stays the name of what it was minted for.
LEMMA MadeForStable ==
  ASSUME Types, NEW r \in Requests, PlaceRule(r), NEW n, NEW t, MadeFor(at, n, t)
  PROVE  MadeFor(at', n, t)
  BY DEF MadeFor, PlaceRule, Types, TypeOK, Place

\* A step by the rule that touches no tenancy keeps all that is about them.
LEMMA PlacesKeep ==
  ASSUME IInv, NEW r \in Requests, PlaceRule(r), SameTenancies,
         at'[r].step \in {"sweep", "closed"} =>
            /\ at[r].step \in {"sweep", "closed"}
            /\ at'[r].ref = at[r].ref /\ at'[r].tenant = at[r].tenant
  PROVE  Makers' /\ SlugLock' /\ InFlight' /\ Erased'
  <1>1. Makers'
    BY MadeForStable DEF IInv, Makers, SameTenancies
  <1>2. SlugLock'
    <2> SUFFICES ASSUME NEW q \in Requests, at'[q].step \in {"own", "registered"}
                 PROVE  /\ tenant[at'[q].tenant] = None
                        /\ \A p \in Requests : at'[p].step \in {"own", "registered"} /\ at'[p].tenant = at'[q].tenant => p = q
      BY DEF SlugLock, HoldsSlug, Live, SameTenancies
    <2>1. ASSUME NEW p \in Requests, at[p].step \in {"own", "registered"}
          PROVE  /\ tenant[at[p].tenant] = None
                 /\ \A o \in Requests : at[o].step \in {"own", "registered"} /\ at[o].tenant = at[p].tenant => o = p
      BY <2>1 DEF IInv, SlugLock, HoldsSlug, Live
    <2>2. CASE at[r].step = "provision" /\ SlugFree(at[r].tenant) /\ ~Live(at[r].tenant)
      BY <2>1, <2>2 DEF PlaceRule, SlugFree, HoldsSlug, Live
    <2>3. CASE ~(at[r].step = "provision" /\ SlugFree(at[r].tenant) /\ ~Live(at[r].tenant))
      <3>1. ASSUME NEW p \in Requests, at'[p].step \in {"own", "registered"}
            PROVE  at[p].step \in {"own", "registered"} /\ at'[p].tenant = at[p].tenant
        BY <2>3, <3>1 DEF PlaceRule
      <3> QED
        BY <2>1, <3>1
    <2> QED
      BY <2>2, <2>3
  <1>3. InFlight'
    <2> SUFFICES ASSUME NEW q \in Requests
                 PROVE  /\ at'[q].step = "open" => MadeFor(at', at'[q].account, at'[q].tenant)
                        /\ at'[q].step \in Erasing => MadeFor(at', at'[q].ref, at'[q].tenant)
      BY DEF InFlight
    <2>1. CASE q # r
      BY <2>1, MadeForStable DEF IInv, InFlight, PlaceRule
    <2>2. CASE q = r
      BY <2>2, MadeForStable DEF IInv, InFlight, PlaceRule
    <2> QED
      BY <2>1, <2>2
  <1>4. Erased'
    BY DEF IInv, Erased, PlaceRule, SameTenancies
  <1> QED
    BY <1>1, <1>2, <1>3, <1>4

LEMMA AccessKeep ==
  ASSUME AccessNeedsTenancy, Types, SameTenancies, NoNewAccess
  PROVE  AccessNeedsTenancy'
  <1>1. \A s \in Names : session[s] # None => session[s].tenant \in Tenants
    BY DEF Types, TypeOK, Session
  <1>2. \A n \in Names : key[n] # None => key[n] \in Tenants
    BY DEF Types, TypeOK
  <1> QED
    BY <1>1, <1>2 DEF AccessNeedsTenancy, SameTenancies, NoNewAccess, AccountExists, Live

\* Only the step of r changes, and not to one that the rule restricts.
LEMMA GotoRule ==
  ASSUME Types, NEW r \in Requests, NEW step \in Steps, Goto(r, step),
         at[r].step # "done", at[r].step = "first key" => step = "done",
         step \notin {"own", "registered", "open"},
         step \in Erasing => at[r].step \in Erasing
  PROVE  PlaceRule(r) /\ at'[r].step = step /\ at'[r].ref = at[r].ref
         /\ at'[r].tenant = at[r].tenant
  <1>1. /\ \A q \in Requests : q # r => at'[q] = at[q]
        /\ at'[r].step = step /\ at'[r].tenant = at[r].tenant /\ at'[r].ref = at[r].ref
    BY DEF Goto, Types, TypeOK, Place
  <1> QED
    BY <1>1 DEF PlaceRule

LEMMA RowsAlone ==
  ASSUME UNCHANGED <<tenant, owner, session, link, key>>
  PROVE  SameTenancies /\ NoNewAccess
  BY DEF SameTenancies, NoNewAccess

LEMMA NewPassword ==
  ASSUME Types, NEW a, NEW r \in Names, owner' = WithPassword(a, r), tenant' = tenant
  PROVE  SameTenancies
  <1> SUFFICES ASSUME NEW t \in Tenants
               PROVE  /\ owner'[t] = None <=> owner[t] = None
                      /\ owner[t] # None => owner'[t].id = owner[t].id
    BY DEF SameTenancies
  <1>1. CASE owner[t] = None
    BY <1>1 DEF WithPassword
  <1>2. CASE owner[t] # None
    <2>1. owner[t] \in Account
      BY <1>2 DEF Types, TypeOK
    <2>2. [owner[t] EXCEPT !.pw = r].id = owner[t].id
      BY <2>1 DEF Account
    <2>3. [owner[t] EXCEPT !.pw = r] # None
      BY <2>1, RowAssumption DEF Account
    <2> QED
      BY <1>2, <2>2, <2>3 DEF WithPassword
  <1> QED
    BY <1>1, <1>2

\* A step by the rule that grants no access and ends no tenancy.
LEMMA QuietStep ==
  ASSUME IInv, Types', NEW r \in Requests, PlaceRule(r), SameTenancies, NoNewAccess,
         at'[r].step \in {"sweep", "closed"} =>
            /\ at[r].step \in {"sweep", "closed"}
            /\ at'[r].ref = at[r].ref /\ at'[r].tenant = at[r].tenant
  PROVE  IInv'
  BY PlacesKeep, AccessKeep DEF IInv

LEMMA QuietGoto ==
  ASSUME IInv, Types', NEW r \in Requests, NEW step \in Steps, Goto(r, step),
         at[r].step # "done", at[r].step = "first key" => step = "done",
         step \notin {"own", "registered", "open"},
         step \in Erasing => at[r].step \in Erasing,
         step \in {"sweep", "closed"} => at[r].step \in {"sweep", "closed"},
         SameTenancies, NoNewAccess
  PROVE  IInv'
  <1>1. Types
    BY DEF IInv
  <1> QED
    BY <1>1, GotoRule, QuietStep

LEMMA BeginKeeps ==
  ASSUME IInv, Types', NEW r \in Requests, Begin(r) PROVE IInv'
  <1>1. ASSUME NEW t \in Tenants, NEW e \in Emails, BeginRegister(r, t, e) PROVE IInv'
    <2>1. SameTenancies /\ NoNewAccess
      BY <1>1, RowsAlone DEF BeginRegister, rowVars
    <2>2. at'[r].step \notin Erasing \cup {"own", "registered", "open"}
      BY <1>1 DEF BeginRegister, Nowhere, IInv, Types, TypeOK, Erasing
    <2>3. PlaceRule(r)
      BY <1>1, <2>2 DEF BeginRegister, PlaceRule, IInv, Types, TypeOK
    <2> QED
      BY <2>1, <2>2, <2>3, QuietStep DEF Erasing
  <1>2. ASSUME NEW t \in Tenants, NEW step \in Steps, BeginAdmin(r, t, step) PROVE IInv'
    <2>1. SameTenancies /\ NoNewAccess
      BY <1>2, RowsAlone DEF BeginAdmin, rowVars
    <2>2. at'[r].step \notin Erasing \cup {"own", "registered", "open"}
      BY <1>2 DEF BeginAdmin, Nowhere, IInv, Types, TypeOK, Erasing
    <2>3. PlaceRule(r)
      BY <1>2, <2>2 DEF BeginAdmin, PlaceRule, IInv, Types, TypeOK
    <2> QED
      BY <2>1, <2>2, <2>3, QuietStep DEF Erasing
  <1>3. ASSUME NEW e \in Emails, NEW step \in Steps, BeginByEmail(r, e, step) PROVE IInv'
    <2>1. SameTenancies /\ NoNewAccess
      BY <1>3, RowsAlone DEF BeginByEmail, rowVars
    <2>2. at'[r].step \notin Erasing \cup {"own", "registered", "open"}
      BY <1>3 DEF BeginByEmail, Nowhere, IInv, Types, TypeOK, Erasing
    <2>3. PlaceRule(r)
      BY <1>3, <2>2 DEF BeginByEmail, PlaceRule, IInv, Types, TypeOK
    <2> QED
      BY <2>1, <2>2, <2>3, QuietStep DEF Erasing
  <1>4. ASSUME NEW l \in Names, BeginReset(r, l) PROVE IInv'
    <2>1. SameTenancies /\ NoNewAccess
      BY <1>4, RowsAlone DEF BeginReset, rowVars
    <2>2. at'[r].step \notin Erasing \cup {"own", "registered", "open"}
      BY <1>4 DEF BeginReset, Nowhere, IInv, Types, TypeOK, Erasing
    <2>3. PlaceRule(r)
      BY <1>4, <2>2 DEF BeginReset, PlaceRule, IInv, Types, TypeOK
    <2> QED
      BY <2>1, <2>2, <2>3, QuietStep DEF Erasing
  <1>5. ASSUME NEW s \in Names, NEW step \in Steps, BeginWithSession(r, s, step) PROVE IInv'
    <2>1. SameTenancies /\ NoNewAccess
      BY <1>5, RowsAlone DEF BeginWithSession, rowVars
    <2>2. at'[r].step \notin Erasing \cup {"own", "registered", "open"}
      BY <1>5 DEF BeginWithSession, Nowhere, IInv, Types, TypeOK, Erasing
    <2>3. PlaceRule(r)
      BY <1>5, <2>2 DEF BeginWithSession, PlaceRule, IInv, Types, TypeOK
    <2> QED
      BY <2>1, <2>2, <2>3, QuietStep DEF Erasing
  <1> QED
    BY <1>1, <1>2, <1>3, <1>4, <1>5 DEF Begin

LEMMA ResetKeeps ==
  ASSUME IInv, Types', NEW r \in Requests, Reset(r) PROVE IInv'
  <1>1. ASSUME Redeem(r) PROVE IInv'
    <2>1. SameTenancies /\ NoNewAccess
      BY <1>1, RowsAlone DEF Redeem, rowVars
    <2>2. PlaceRule(r) /\ at'[r].step \in {"set", "done"}
      BY <1>1 DEF Redeem, Goto, PlaceRule, IInv, Types, TypeOK, Place, Erasing
    <2> QED
      BY <2>1, <2>2, QuietStep
  <1>2. ASSUME SetPassword(r) PROVE IInv'
    <2>1. SameTenancies /\ NoNewAccess
      BY <1>2, RowsAlone DEF SetPassword, rowVars
    <2>2. Goto(r, "burn")
      BY <1>2 DEF SetPassword
    <2> QED
      BY <1>2, <2>1, <2>2, QuietGoto DEF SetPassword, Erasing, Steps
  <1>3. ASSUME BurnLinks(r) PROVE IInv'
    <2>1. SameTenancies /\ NoNewAccess
      BY <1>3, RowsAlone DEF BurnLinks, rowVars
    <2>2. Goto(r, "revoke")
      BY <1>3 DEF BurnLinks
    <2> QED
      BY <1>3, <2>1, <2>2, QuietGoto DEF BurnLinks, Erasing, Steps
  <1>4. ASSUME RevokeSessions(r) PROVE IInv'
    <2>1. SameTenancies /\ NoNewAccess
      BY <1>4, RowsAlone DEF RevokeSessions, rowVars
    <2>2. Goto(r, "commit")
      BY <1>4 DEF RevokeSessions
    <2> QED
      BY <1>4, <2>1, <2>2, QuietGoto DEF RevokeSessions, Erasing, Steps
  <1>5. ASSUME CommitReset(r) PROVE IInv'
    <2>1. SameTenancies
      BY <1>5, NewPassword DEF CommitReset, IInv, Names
    <2>2. NoNewAccess
      <3>1. \A l \in Names : link'[l] # None => link[l] # None /\ link'[l].account = link[l].account
        BY <1>5 DEF CommitReset, IInv, Types, TypeOK, Link
      <3> QED
        BY <1>5, <3>1 DEF CommitReset, NoNewAccess, Without
    <2> QED
      BY <1>5, <2>1, <2>2, QuietGoto DEF CommitReset, Erasing, Steps
  <1> QED
    BY <1>1, <1>2, <1>3, <1>4, <1>5 DEF Reset

LEMMA ChangeKeeps ==
  ASSUME IInv, Types', NEW r \in Requests, Change(r) PROVE IInv'
  <1>1. ASSUME CheckCurrent(r) PROVE IInv'
    <2>1. SameTenancies /\ NoNewAccess
      BY <1>1, RowsAlone DEF CheckCurrent, rowVars
    <2>2. Goto(r, "change")
      BY <1>1 DEF CheckCurrent
    <2> QED
      BY <1>1, <2>1, <2>2, QuietGoto DEF CheckCurrent, Erasing, Steps
  <1>2. ASSUME ChangePassword(r) PROVE IInv'
    <2>1. SameTenancies /\ NoNewAccess
      BY <1>2, RowsAlone DEF ChangePassword, rowVars
    <2>2. Goto(r, "evict")
      BY <1>2 DEF ChangePassword
    <2> QED
      BY <1>2, <2>1, <2>2, QuietGoto DEF ChangePassword, Erasing, Steps
  <1>3. ASSUME EvictOthers(r) PROVE IInv'
    <2>1. SameTenancies /\ NoNewAccess
      BY <1>3, RowsAlone DEF EvictOthers, rowVars
    <2>2. Goto(r, "changed")
      BY <1>3 DEF EvictOthers
    <2> QED
      BY <1>3, <2>1, <2>2, QuietGoto DEF EvictOthers, Erasing, Steps
  <1>4. ASSUME CommitChange(r) PROVE IInv'
    <2>1. SameTenancies
      BY <1>4, NewPassword DEF CommitChange, IInv, Names
    <2>2. NoNewAccess
      BY <1>4 DEF CommitChange, NoNewAccess, Without
    <2> QED
      BY <1>4, <2>1, <2>2, QuietGoto DEF CommitChange, Erasing, Steps
  <1> QED
    BY <1>1, <1>2, <1>3, <1>4 DEF Change

LEMMA ManageKeeps ==
  ASSUME IInv, Types', NEW r \in Requests, Manage(r) PROVE IInv'
  <1>1. ASSUME Logout(r) PROVE IInv'
    <2>1. SameTenancies
      BY <1>1 DEF Logout, SameTenancies
    <2>2. NoNewAccess
      BY <1>1 DEF Logout, NoNewAccess, Without, IInv, Types, TypeOK
    <2> QED
      BY <1>1, <2>1, <2>2, QuietGoto DEF Logout, Erasing, Steps
  <1>2. ASSUME NEW n \in Names, RevokeKey(r, n) PROVE IInv'
    <2>1. SameTenancies
      BY <1>2 DEF RevokeKey, SameTenancies
    <2>2. NoNewAccess
      BY <1>2 DEF RevokeKey, NoNewAccess, Without, IInv, Types, TypeOK
    <2> QED
      BY <1>2, <2>1, <2>2, QuietGoto DEF RevokeKey, Erasing, Steps
  <1> QED
    BY <1>1, <1>2 DEF Manage

\* A tenant without a row has no account.
LEMMA NoOwnerWithoutTenant ==
  ASSUME IInv, NEW t \in Tenants, ~Live(t)
  PROVE  owner[t] = None
  BY StandingAssumption DEF IInv, Types, TypeOK, Makers, Account, Live

\* A tenancy that begins: tenant t gets a row in the name of request r.
LEMMA NewTenancy ==
  ASSUME IInv, NEW r \in Requests, NEW t \in Tenants, PlaceRule(r),
         at[r].tenant = t, at'[r].tenant = t,
         at[r].step \notin {"done", "first key"}, at'[r].step \in {"done", "first key"},
         ~Live(t), \A q \in Requests : HoldsSlug(q, t) => q = r,
         tenant' = [tenant EXCEPT ![t] = r],
         \A u \in Tenants : u # t => owner'[u] = owner[u],
         owner'[t] # None => owner'[t].id = r
  PROVE  Makers' /\ SlugLock' /\ InFlight' /\ Erased'
  <1>1. Types
    BY DEF IInv
  <1>2. \A n, u : MadeFor(at, n, u) => MadeFor(at', n, u)
    BY <1>1, MadeForStable
  <1>3. ~MadeFor(at, r, t)
    BY StandingAssumption DEF MadeFor
  <1>4. \A q \in Requests : q # r => at'[q] = at[q]
    BY DEF PlaceRule
  <1>5. Makers'
    <2>1. MadeFor(at', r, t)
      BY DEF MadeFor
    <2> QED
      BY <1>1, <1>2, <2>1 DEF IInv, Makers, Types, TypeOK
  <1>6. SlugLock'
    <2> SUFFICES ASSUME NEW q \in Requests, at'[q].step \in {"own", "registered"}
                 PROVE  /\ tenant'[at'[q].tenant] = None
                        /\ \A p \in Requests : at'[p].step \in {"own", "registered"}
                                               /\ at'[p].tenant = at'[q].tenant => p = q
      BY DEF SlugLock, HoldsSlug, Live
    <2>1. q # r /\ at'[q] = at[q]
      BY <1>4
    <2>2. at[q].tenant # t
      BY <2>1 DEF HoldsSlug
    <2>3. tenant[at[q].tenant] = None
      BY <2>1 DEF IInv, SlugLock, Live
    <2>4. tenant'[at'[q].tenant] = None
      BY <1>1, <2>1, <2>2, <2>3 DEF Types, TypeOK, PlaceOK, Has, WithTenant, Registering
    <2>5. ASSUME NEW p \in Requests, at'[p].step \in {"own", "registered"}, at'[p].tenant = at'[q].tenant
          PROVE  p = q
      <3>1. p # r /\ at'[p] = at[p]
        BY <1>4, <2>5
      <3> QED
        BY <2>1, <2>5, <3>1 DEF IInv, SlugLock, HoldsSlug
    <2> QED
      BY <2>4, <2>5
  <1>7. InFlight'
    <2>1. at'[r].step \notin Erasing \cup {"open"}
      BY DEF Erasing
    <2> QED
      BY <1>2, <1>4, <2>1 DEF IInv, InFlight
  <1>8. Erased'
    <2> SUFFICES ASSUME NEW q \in Requests, at'[q].step \in {"sweep", "closed"}
                 PROVE  tenant'[at'[q].tenant] # at'[q].ref
      BY DEF Erased
    <2>1. at'[q] = at[q] /\ MadeFor(at, at[q].ref, at[q].tenant) /\ at[q].tenant \in Tenants
      BY <1>1, <1>4 DEF IInv, InFlight, Erasing, Types, PlaceOK, Has, WithTenant
    <2>2. tenant[at[q].tenant] # at[q].ref
      BY <2>1 DEF IInv, Erased
    <2> QED
      BY <1>1, <1>3, <2>1, <2>2 DEF Types, TypeOK
  <1> QED
    BY <1>5, <1>6, <1>7, <1>8

LEMMA RegisterKeeps ==
  ASSUME IInv, Types', NEW r \in Requests, Register(r) PROVE IInv'
  <1>1. ASSUME CheckEmail(r) PROVE IInv'
    <2>1. SameTenancies /\ NoNewAccess
      BY <1>1, RowsAlone DEF CheckEmail, rowVars
    <2>2. Goto(r, "done") \/ Goto(r, "provision")
      BY <1>1 DEF CheckEmail
    <2> QED
      BY <1>1, <2>1, <2>2, QuietGoto DEF CheckEmail, Erasing, Steps
  <1>2. ASSUME Provision(r) PROVE IInv'
    <2>1. SameTenancies /\ NoNewAccess
      BY <1>2, RowsAlone DEF Provision, rowVars
    <2>2. at'[r].step \in {"own", "done"} /\ at'[r].tenant = at[r].tenant
          /\ \A q \in Requests : q # r => at'[q] = at[q]
      BY <1>2 DEF Provision, Goto, IInv, Types, TypeOK, Place
    <2>3. at'[r].step = "own" /\ at[r].step = "provision" => ~Live(at[r].tenant)
      BY <1>2 DEF Provision, Goto, IInv, Types, TypeOK, Place
    <2>4. PlaceRule(r)
      BY <1>2, <2>2, <2>3 DEF Provision, PlaceRule, Erasing
    <2> QED
      BY <2>1, <2>2, <2>4, QuietStep
  <1>3. ASSUME InsertAccount(r) PROVE IInv'
    <2>1. SameTenancies /\ NoNewAccess
      BY <1>3, RowsAlone DEF InsertAccount, rowVars
    <2>2. at'[r].step \in {"registered", "done"} /\ at'[r].tenant = at[r].tenant
          /\ \A q \in Requests : q # r => at'[q] = at[q]
      BY <1>3 DEF InsertAccount, Goto, IInv, Types, TypeOK, Place
    <2>3. at'[r].step = "registered" /\ at[r].step = "provision" => ~Live(at[r].tenant)
      BY <1>3 DEF InsertAccount, Goto, IInv, Types, TypeOK, Place
    <2>4. PlaceRule(r)
      BY <1>3, <2>2, <2>3 DEF InsertAccount, PlaceRule, Erasing
    <2> QED
      BY <2>1, <2>2, <2>4, QuietStep
  <1>4. ASSUME CommitRegister(r) PROVE IInv'
    <2> DEFINE t == at[r].tenant
    <2>1. Types /\ t \in Tenants /\ ~Live(t) /\ r \in Names
      BY <1>4 DEF CommitRegister, IInv, SlugLock, Types, PlaceOK, Has, WithTenant, Registering, Names
    <2>2. owner[t] = None
      BY <2>1, NoOwnerWithoutTenant
    <2>3. PlaceRule(r) /\ at'[r].step = "done" /\ at'[r].tenant = t
      BY <1>4, <2>1, GotoRule DEF CommitRegister, Erasing, Steps
    <2>4. owner' = [owner EXCEPT ![t] = [id |-> r, email |-> at[r].email, pw |-> r]]
      BY <1>4 DEF CommitRegister
    <2>5. /\ owner'[t].id = r /\ owner'[t] # None
          /\ \A u \in Tenants : u # t => owner'[u] = owner[u]
      <3>1. [id |-> r, email |-> at[r].email, pw |-> r] \in Account
        BY <1>4, <2>1 DEF CommitRegister, Types, PlaceOK, Has, Registering, Account
      <3> QED
        BY <2>1, <2>4, <3>1, RowAssumption DEF Types, TypeOK
    <2>6. Makers' /\ SlugLock' /\ InFlight' /\ Erased'
      BY <1>4, <2>1, <2>3, <2>5, NewTenancy DEF CommitRegister, IInv, SlugLock
    <2>7. AccessNeedsTenancy'
      <3>1. ASSUME NEW s \in Names, session'[s] # None
            PROVE  owner'[session'[s].tenant] # None /\ owner'[session'[s].tenant].id = session'[s].account
        <4>1. CASE s = r
          BY <1>4, <2>1, <2>5, <4>1 DEF CommitRegister, Types, TypeOK
        <4>2. CASE s # r
          <5>1. session'[s] = session[s] /\ session[s] \in Session
            BY <1>4, <2>1, <3>1, <4>2 DEF CommitRegister, Types, TypeOK
          <5>2. owner[session[s].tenant] # None /\ owner[session[s].tenant].id = session[s].account
            BY <3>1, <5>1 DEF IInv, AccessNeedsTenancy
          <5> QED
            BY <2>2, <2>5, <5>1, <5>2 DEF Session
        <4> QED
          BY <4>1, <4>2
      <3>2. \A l \in Names : link[l] # None =>
               \E u \in Tenants : owner'[u] # None /\ owner'[u].id = link[l].account
        BY <2>2, <2>5 DEF IInv, AccessNeedsTenancy, AccountExists
      <3>3. \A n \in Names : key'[n] # None => tenant'[key'[n]] # None
        BY <1>4, <2>1, StandingAssumption DEF CommitRegister, IInv, AccessNeedsTenancy, Types, TypeOK, Live
      <3>4. \A u \in Tenants : owner'[u] # None => owner'[u].id = tenant'[u]
        BY <2>6 DEF Makers
      <3> QED
        BY <1>4, <3>1, <3>2, <3>3, <3>4 DEF AccessNeedsTenancy, CommitRegister, AccountExists, Live
    <2> QED
      BY <2>6, <2>7 DEF IInv
  <1> QED
    BY <1>1, <1>2, <1>3, <1>4 DEF Register

LEMMA AdminKeeps ==
  ASSUME IInv, Types', NEW r \in Requests, Admin(r) PROVE IInv'
  <1>1. ASSUME CreateTenant(r) PROVE IInv'
    <2> DEFINE t == at[r].tenant
    <2>1. Types /\ t \in Tenants /\ r \in Names
      BY <1>1 DEF CreateTenant, IInv, Types, PlaceOK, Has, WithTenant, Names
    <2>2. CASE Live(t)
      <3>1. SameTenancies /\ NoNewAccess
        BY <1>1, <2>2, RowsAlone DEF CreateTenant
      <3> QED
        BY <1>1, <2>2, <3>1, QuietGoto DEF CreateTenant, Erasing, Steps
    <2>3. CASE ~Live(t)
      <3>1. PlaceRule(r) /\ at'[r].step = "first key" /\ at'[r].tenant = t
        BY <1>1, <2>1, <2>3, GotoRule DEF CreateTenant, Erasing, Steps
      <3>2. Makers' /\ SlugLock' /\ InFlight' /\ Erased'
        <4>1. /\ tenant' = [tenant EXCEPT ![t] = r] /\ owner' = owner
              /\ \A q \in Requests : ~HoldsSlug(q, t)
          BY <1>1, <2>3 DEF CreateTenant, SlugFree
        <4> QED
          BY <1>1, <2>1, <2>3, <3>1, <4>1, NewTenancy, NoOwnerWithoutTenant DEF CreateTenant
      <3>3. AccessNeedsTenancy'
        <4>1. \A n \in Names : key[n] # None => Live(key[n])'
          BY <1>1, <2>1, <2>3, StandingAssumption DEF CreateTenant, IInv, AccessNeedsTenancy, Types, TypeOK, Live
        <4>2. \A u \in Tenants : owner'[u] # None => owner'[u].id = tenant'[u]
          BY <3>2 DEF Makers
        <4> QED
          BY <1>1, <2>3, <4>1, <4>2 DEF CreateTenant, IInv, AccessNeedsTenancy, AccountExists
      <3> QED
        BY <3>2, <3>3 DEF IInv
    <2> QED
      BY <2>2, <2>3
  <1>2. ASSUME TenantExists(r) PROVE IInv'
    <2>1. SameTenancies /\ NoNewAccess
      BY <1>2, RowsAlone DEF TenantExists, rowVars
    <2>2. Goto(r, "insert") \/ Goto(r, "done")
      BY <1>2 DEF TenantExists
    <2> QED
      BY <1>2, <2>1, <2>2, QuietGoto DEF TenantExists, Erasing, Steps
  <1>3. ASSUME InsertKey(r) PROVE IInv'
    <2>1. SameTenancies /\ Types
      BY <1>3 DEF InsertKey, SameTenancies, IInv
    <2>2. PlaceRule(r) /\ at'[r].step = "done"
      BY <1>3, <2>1, GotoRule DEF InsertKey, Erasing, Steps
    <2>3. Makers' /\ SlugLock' /\ InFlight' /\ Erased'
      BY <2>1, <2>2, PlacesKeep
    <2>4. AccessNeedsTenancy'
      BY <1>3, <2>1 DEF InsertKey, IInv, AccessNeedsTenancy, AccountExists, Types, TypeOK, Live
    <2> QED
      BY <2>3, <2>4 DEF IInv
  <1> QED
    BY <1>1, <1>2, <1>3 DEF Admin

LEMMA ByEmailKeeps ==
  ASSUME IInv, Types', NEW r \in Requests, ByEmail(r) PROVE IInv'
  <1>1. ASSUME FindAccount(r) PROVE IInv'
    <2> DEFINE next == IF at[r].step = "lookup" THEN "open" ELSE "mail"
    <2>1. PICK t \in Tenants :
            /\ owner[t] # None
            /\ at' = [at EXCEPT ![r] = [@ EXCEPT !.step = next, !.tenant = t,
                                         !.account = owner[t].id]]
      BY <1>1 DEF FindAccount
    <2>2. next \in {"open", "mail"}
      OBVIOUS
    <2> HIDE DEF next
    <2>3. MadeFor(at, owner[t].id, t)
      BY <2>1, NoOwnerWithoutTenant DEF IInv, Makers, Live
    <2>4. /\ at'[r].step = next /\ at'[r].tenant = t /\ at'[r].account = owner[t].id
          /\ \A q \in Requests : q # r => at'[q] = at[q]
      BY <2>1 DEF IInv, Types, TypeOK, Place
    <2>5. PlaceRule(r)
      BY <1>1, <2>2, <2>3, <2>4 DEF FindAccount, PlaceRule, Erasing
    <2>6. SameTenancies /\ NoNewAccess
      BY <1>1, RowsAlone DEF FindAccount, rowVars
    <2> QED
      BY <2>2, <2>4, <2>5, <2>6, QuietStep
  <1>2. ASSUME OpenSession(r) PROVE IInv'
    <2>1. SameTenancies /\ Types
      BY <1>2 DEF OpenSession, SameTenancies, IInv
    <2>2. PlaceRule(r) /\ at'[r].step = "done"
      BY <1>2, <2>1, GotoRule DEF OpenSession, Erasing, Steps
    <2>3. Makers' /\ SlugLock' /\ InFlight' /\ Erased'
      BY <2>1, <2>2, PlacesKeep
    <2>4. AccessNeedsTenancy'
      <3>1. CASE ~AccountExists(at[r].account)
        BY <1>2, <3>1 DEF OpenSession, IInv, AccessNeedsTenancy, AccountExists, Live
      <3>2. CASE AccountExists(at[r].account)
        <4>1. PICK t \in Tenants : owner[t] # None /\ owner[t].id = at[r].account
          BY <3>2 DEF AccountExists
        <4>2. MadeFor(at, at[r].account, t) /\ MadeFor(at, at[r].account, at[r].tenant)
          <5>1. tenant[t] = at[r].account /\ tenant[t] # None
            BY <4>1, NoOwnerWithoutTenant DEF IInv, Makers, Live
          <5> QED
            BY <1>2, <5>1 DEF OpenSession, IInv, Makers, InFlight
        <4>3. t = at[r].tenant
          BY <4>2, StandingAssumption DEF MadeFor
        <4>4. \A s \in Names : session'[s] # None =>
                 owner[session'[s].tenant] # None /\ owner[session'[s].tenant].id = session'[s].account
          BY <1>2, <2>1, <3>2, <4>1, <4>3 DEF OpenSession, IInv, AccessNeedsTenancy, Types, TypeOK
        <4> QED
          BY <1>2, <4>4 DEF OpenSession, IInv, AccessNeedsTenancy, AccountExists, Live
      <3> QED
        BY <3>1, <3>2
    <2> QED
      BY <2>3, <2>4 DEF IInv
  <1>3. ASSUME MailLink(r) PROVE IInv'
    <2>1. SameTenancies /\ Types
      BY <1>3 DEF MailLink, SameTenancies, IInv
    <2>2. PlaceRule(r) /\ at'[r].step = "done"
      BY <1>3, <2>1, GotoRule DEF MailLink, Erasing, Steps
    <2>3. Makers' /\ SlugLock' /\ InFlight' /\ Erased'
      BY <2>1, <2>2, PlacesKeep
    <2>4. AccessNeedsTenancy'
      <3>1. \A l \in Names : link'[l] # None => AccountExists(link'[l].account)
        BY <1>3, <2>1 DEF MailLink, IInv, AccessNeedsTenancy, Types, TypeOK
      <3> QED
        BY <1>3, <3>1 DEF MailLink, IInv, AccessNeedsTenancy, AccountExists, Live
    <2> QED
      BY <2>3, <2>4 DEF IInv
  <1> QED
    BY <1>1, <1>2, <1>3 DEF ByEmail

LEMMA EraseKeeps ==
  ASSUME IInv, Types', NEW r \in Requests, Erase(r) PROVE IInv'
  <1>1. ASSUME BeginErasure(r) PROVE IInv'
    <2>1. SameTenancies /\ NoNewAccess
      BY <1>1, RowsAlone DEF BeginErasure, rowVars
    <2>2. at[r].tenant \in Tenants
      BY <1>1 DEF BeginErasure, IInv, Types, PlaceOK, Has, WithTenant
    <2>3. CASE /\ Live(at[r].tenant)
               /\ at' = [at EXCEPT ![r].step = "keys", ![r].ref = tenant[at[r].tenant]]
      <3>1. MadeFor(at, tenant[at[r].tenant], at[r].tenant)
        BY <2>2, <2>3 DEF IInv, Makers, Live
      <3>2. at'[r].step = "keys" /\ at'[r].tenant = at[r].tenant /\ at'[r].ref = tenant[at[r].tenant]
        BY <2>3 DEF IInv, Types, TypeOK, Place
      <3>3. PlaceRule(r)
        BY <1>1, <2>3, <3>1, <3>2 DEF BeginErasure, PlaceRule, IInv, Types, TypeOK
      <3> QED
        BY <2>1, <3>2, <3>3, QuietStep
    <2>4. CASE Goto(r, "done")
      BY <1>1, <2>1, <2>4, QuietGoto DEF BeginErasure, Erasing, Steps
    <2> QED
      BY <1>1, <2>3, <2>4 DEF BeginErasure
  <1>2. ASSUME DeleteKeys(r) PROVE IInv'
    <2>1. SameTenancies
      BY <1>2 DEF DeleteKeys, SameTenancies
    <2>2. NoNewAccess
      BY <1>2 DEF DeleteKeys, NoNewAccess, Without, IInv, Types, TypeOK
    <2> QED
      BY <1>2, <2>1, <2>2, QuietGoto DEF DeleteKeys, Erasing, Steps
  <1>3. ASSUME DeleteSessions(r) PROVE IInv'
    <2>1. SameTenancies
      BY <1>3 DEF DeleteSessions, SameTenancies
    <2>2. NoNewAccess
      BY <1>3 DEF DeleteSessions, NoNewAccess, Without, IInv, Types, TypeOK
    <2> QED
      BY <1>3, <2>1, <2>2, QuietGoto DEF DeleteSessions, Erasing, Steps
  <1>4. ASSUME SweepStores(r) PROVE IInv'
    <2>1. SameTenancies /\ NoNewAccess
      BY <1>4, RowsAlone DEF SweepStores, rowVars
    <2>2. Goto(r, "rows") \/ Goto(r, "closed")
      BY <1>4 DEF SweepStores
    <2> QED
      BY <1>4, <2>1, <2>2, QuietGoto DEF SweepStores, Erasing, Steps
  <1>5. ASSUME DeleteTenant(r) PROVE IInv'
    <2> DEFINE t == at[r].tenant
               Gone(a) == owner[t] # None /\ owner[t].id = a
    <2>1. Types /\ t \in Tenants
      BY <1>5 DEF DeleteTenant, IInv, Types, PlaceOK, Has, WithTenant, Erasing
    <2>2. /\ tenant' = [tenant EXCEPT ![t] = None]
          /\ owner' = [owner EXCEPT ![t] = None]
          /\ \A s \in Names : session'[s] # None =>
                session'[s] = session[s] /\ session[s].tenant # t
          /\ \A l \in Names : link'[l] # None => link'[l] = link[l] /\ ~Gone(link[l].account)
          /\ \A n \in Names : key'[n] # None => key'[n] = key[n] /\ key[n] # t
      BY <1>5 DEF DeleteTenant, Without, SessionsIn
    <2>3. PlaceRule(r) /\ at'[r].step = "sweep" /\ at'[r].ref = at[r].ref /\ at'[r].tenant = t
      BY <1>5, <2>1, GotoRule DEF DeleteTenant, Erasing, Steps
    <2>4. \A n, u : MadeFor(at, n, u) => MadeFor(at', n, u)
      BY <2>1, <2>3, MadeForStable
    <2>5. \A q \in Requests : q # r => at'[q] = at[q]
      BY <2>3 DEF PlaceRule
    <2>6. Makers'
      BY <2>1, <2>2, <2>4 DEF IInv, Makers, Types, TypeOK
    <2>7. SlugLock'
      <3>1. \A q \in Requests : at'[q].step \in {"own", "registered"} =>
               q # r /\ at'[q] = at[q] /\ at[q].tenant \in Tenants
        BY <2>1, <2>3, <2>5 DEF Types, PlaceOK, Has, WithTenant, Registering
      <3> QED
        BY <2>1, <2>2, <3>1 DEF IInv, SlugLock, HoldsSlug, Live, Types, TypeOK
    <2>8. InFlight'
      <3>1. MadeFor(at, at[r].ref, t)
        BY <1>5 DEF DeleteTenant, IInv, InFlight, Erasing
      <3> QED
        BY <2>3, <2>4, <2>5, <3>1 DEF IInv, InFlight
    <2>9. Erased'
      <3> SUFFICES ASSUME NEW q \in Requests, at'[q].step \in {"sweep", "closed"}
                   PROVE  tenant'[at'[q].tenant] # at'[q].ref
        BY DEF Erased
      <3>1. MadeFor(at', at'[q].ref, at'[q].tenant) /\ at'[q].tenant \in Tenants
        BY <2>8 DEF InFlight, Erasing, Types, PlaceOK, Has, WithTenant
      <3>2. at'[q].ref # None
        BY <3>1, StandingAssumption DEF MadeFor, Names
      <3>3. CASE at'[q].tenant = t
        BY <2>1, <2>2, <3>2, <3>3 DEF Types, TypeOK
      <3>4. CASE at'[q].tenant # t
        BY <2>1, <2>2, <2>3, <2>5, <3>1, <3>4 DEF IInv, Erased, Types, TypeOK
      <3> QED
        BY <3>3, <3>4
    <2>10. AccessNeedsTenancy'
      <3>1. \A s \in Names : session'[s] # None =>
               owner'[session'[s].tenant] # None /\ owner'[session'[s].tenant].id = session'[s].account
        BY <2>1, <2>2 DEF IInv, AccessNeedsTenancy, Types, TypeOK, Session
      <3>2. ASSUME NEW l \in Names, link'[l] # None
            PROVE  \E u \in Tenants : owner'[u] # None /\ owner'[u].id = link'[l].account
        <4>1. PICK u \in Tenants : owner[u] # None /\ owner[u].id = link[l].account
          BY <2>2, <3>2 DEF IInv, AccessNeedsTenancy, AccountExists
        <4>2. u # t /\ link'[l] = link[l]
          BY <2>2, <3>2, <4>1
        <4> QED
          BY <2>1, <2>2, <4>1, <4>2 DEF Types, TypeOK
      <3>3. \A n \in Names : key'[n] # None => tenant'[key'[n]] # None
        BY <2>1, <2>2 DEF IInv, AccessNeedsTenancy, Types, TypeOK, Live
      <3> QED
        BY <2>6, <3>1, <3>2, <3>3 DEF AccessNeedsTenancy, Makers, AccountExists, Live
    <2> QED
      BY <2>6, <2>7, <2>8, <2>9, <2>10 DEF IInv
  <1> QED
    BY <1>1, <1>2, <1>3, <1>4, <1>5 DEF Erase

-----------------------------------------------------------------------------
LEMMA InitKeeps == Init => IInv
  <1> SUFFICES ASSUME Init PROVE IInv
    OBVIOUS
  <1>1. Types
    BY InitTypes
  <1>2. \A r \in Requests : at[r].step = "new"
    BY DEF Init, Nowhere
  <1>3. \A t \in Standing : owner[t] # None /\ owner[t].id = t /\ tenant[t] = t
    <2>1. \A t \in Standing : [id |-> t, email |-> StandingEmail[t], pw |-> t] \in Account
      BY StandingAssumption DEF Account, Names
    <2> QED
      BY <2>1, StandingAssumption, RowAssumption DEF Init
  <1>4. \A t \in Tenants : t \notin Standing => owner[t] = None /\ tenant[t] = None
    BY DEF Init
  <1>5. Makers
    BY <1>3, <1>4, StandingAssumption DEF Makers, MadeFor
  <1>6. SlugLock /\ InFlight /\ Erased
    BY <1>2 DEF SlugLock, InFlight, Erased, Erasing
  <1>7. AccessNeedsTenancy
    <2>1. ASSUME NEW s \in Names, session[s] # None
          PROVE  owner[session[s].tenant] # None /\ owner[session[s].tenant].id = session[s].account
      BY <1>3, <2>1 DEF Init
    <2>2. ASSUME NEW l \in Names, link[l] # None PROVE AccountExists(link[l].account)
      <3>1. l \in Standing /\ link[l].account = l
        BY <2>2 DEF Init
      <3> QED
        BY <1>3, <3>1, StandingAssumption DEF AccountExists
    <2>3. ASSUME NEW n \in Names, key[n] # None PROVE Live(key[n])
      BY <1>3, <2>3, StandingAssumption DEF Init, Live, Names
    <2> QED
      BY <1>5, <2>1, <2>2, <2>3 DEF AccessNeedsTenancy, Makers
  <1> QED
    BY <1>1, <1>5, <1>6, <1>7 DEF IInv

\* A request gives up: only its step changes.
LEMMA RefusedKeeps ==
  ASSUME IInv, Types', NEW r \in Requests, Refused(r) PROVE IInv'
  <1>1. SameTenancies /\ NoNewAccess
    BY RowsAlone DEF Refused, rowVars
  <1> QED
    BY <1>1, QuietGoto DEF Refused, Erasing, Steps

\* No request moves: what is about places and tenancies stays.
LEMMA ExpiryKeeps ==
  ASSUME IInv, Types', NEW n \in Names, SessionExpires(n) \/ LinkExpires(n) PROVE IInv'
  <1>1. SameTenancies /\ at' = at
    BY DEF SessionExpires, LinkExpires, SameTenancies
  <1>2. NoNewAccess
    BY DEF SessionExpires, LinkExpires, NoNewAccess, IInv, Types, TypeOK, Link
  <1>3. AccessNeedsTenancy'
    BY <1>1, <1>2, AccessKeep DEF IInv
  <1> QED
    BY <1>1, <1>3 DEF IInv, Makers, MadeFor, SlugLock, HoldsSlug, Live, InFlight, Erased, SameTenancies

LEMMA NextKeeps == IInv /\ [Next]_vars => IInv'
  <1> SUFFICES ASSUME IInv, [Next]_vars PROVE IInv'
    OBVIOUS
  <1>1. Types'
    BY NextTypes DEF IInv
  <1>2. CASE UNCHANGED vars
    BY <1>1, <1>2 DEF vars, IInv, Makers, MadeFor, SlugLock, HoldsSlug, Live, InFlight, Erased,
                      AccessNeedsTenancy, AccountExists
  <1>3. ASSUME NEW r \in Requests, Handle(r) PROVE IInv'
    BY <1>1, <1>3, BeginKeeps, RegisterKeeps, AdminKeeps, ByEmailKeeps, ResetKeeps,
       ChangeKeeps, ManageKeeps, EraseKeeps, RefusedKeeps DEF Handle
  <1>4. ASSUME NEW n \in Names, SessionExpires(n) \/ LinkExpires(n) PROVE IInv'
    BY <1>1, <1>4, ExpiryKeeps
  <1> QED
    BY <1>2, <1>3, <1>4 DEF Next

\* However registrations, logins, resets and erasures interleave, nobody holds a
\* session, a link or a key of a tenancy that is over (the foreign keys of
\* migrations 0002, 0009 and 0010 under accounts.rs and erasure.rs).
THEOREM AccessNeedsTenancyHolds == Spec => []AccessNeedsTenancy
  <1>1. IInv => AccessNeedsTenancy
    BY DEF IInv
  <1> QED
    BY <1>1, InitKeeps, NextKeeps, PTL DEF Spec

\* A name is minted for one tenant only.
LEMMA MadeForOne ==
  ASSUME NEW n, NEW t, NEW u, MadeFor(at, n, t), MadeFor(at, n, u)
  PROVE  t = u
  <1>1. ~(n \in Standing /\ n \in Requests)
    BY StandingAssumption
  <1> QED
    BY <1>1 DEF MadeFor

\* What an erasure has ended stays ended, though the slug is registered anew and
\* logins that read the old account are in flight (erasure.rs erase_tenant).
THEOREM ErasedTenancyIsGoneHolds == Spec => []ErasedTenancyIsGone
  <1>1. IInv => ErasedTenancyIsGone
    <2> SUFFICES ASSUME IInv, NEW r \in Requests, at[r].step \in {"sweep", "closed"}
                 PROVE  /\ tenant[at[r].tenant] # at[r].ref
                        /\ \A s \in Names : session[s] # None => session[s].account # at[r].ref
      BY DEF ErasedTenancyIsGone
    <2>1. tenant[at[r].tenant] # at[r].ref
      BY DEF IInv, Erased
    <2>2. MadeFor(at, at[r].ref, at[r].tenant)
      BY DEF IInv, InFlight, Erasing
    <2>3. ASSUME NEW s \in Names, session[s] # None PROVE session[s].account # at[r].ref
      <3> DEFINE u == session[s].tenant
      <3>1. u \in Tenants
        BY <2>3 DEF IInv, Types, TypeOK, Session
      <3>2. owner[u] # None /\ owner[u].id = session[s].account /\ owner[u].id = tenant[u]
        BY <2>3, <3>1 DEF IInv, AccessNeedsTenancy, Makers
      <3>3. owner[u].id # None
        BY <3>1, <3>2, StandingAssumption DEF IInv, Types, TypeOK, Account
      <3>4. MadeFor(at, session[s].account, u)
        BY <3>1, <3>2, <3>3 DEF IInv, Makers
      <3> QED
        BY <2>1, <2>2, <3>2, <3>4, MadeForOne
    <2> QED
      BY <2>1, <2>3
  <1> QED
    BY <1>1, InitKeeps, NextKeeps, PTL DEF Spec
-----------------------------------------------------------------------------
(* A registration is all or nothing.                                       *)

\* The email of an account that a registration has inserted and not committed is
\* its own, and no committed account has it.
EmailLock ==
    \A r \in Requests : at[r].step = "registered" =>
        /\ ~EmailTaken(at[r].email)
        /\ \A q \in Requests : HoldsEmail(q, at[r].email) => q = r

\* POST /admin/tenants creates a tenant for nobody.
NoEmail == \A r \in Requests : at[r].step \in {"create", "first key"} => at[r].email = None

WholeInv == RegistrationIsWhole /\ EmailLock /\ NoEmail

\* The emails of the accounts stay as they are.
SameEmails == \A t \in Tenants : owner[t] # None => owner'[t].email = owner[t].email

\* What a step of request r may do to the emails that requests have read.
EmailRule(r) ==
    /\ \A q \in Requests : q # r => at'[q] = at[q]
    /\ at[r].step # "done"
    /\ at[r].step = "first key" => at'[r].email = at[r].email
    /\ at'[r].step \in {"create", "first key"} => at'[r].email = None
    /\ at'[r].step = "registered" =>
          /\ at'[r].email = at[r].email
          /\ EmailFree(at[r].email) /\ ~EmailTaken(at[r].email)

LEMMA WholeKeeps ==
  ASSUME IInv, WholeInv, NEW r \in Requests, EmailRule(r), SameTenancies, SameEmails
  PROVE  WholeInv'
  <1>1. \A e : EmailTaken(e)' <=> EmailTaken(e)
    BY DEF EmailTaken, SameTenancies, SameEmails
  <1>2. NoEmail'
    BY DEF WholeInv, NoEmail, EmailRule
  <1>3. EmailLock'
    <2> SUFFICES ASSUME NEW q \in Requests, at'[q].step = "registered"
                 PROVE  /\ ~EmailTaken(at'[q].email)
                        /\ \A p \in Requests : at'[p].step = "registered"
                                               /\ at'[p].email = at'[q].email => p = q
      BY <1>1 DEF EmailLock, HoldsEmail
    <2> QED
      BY DEF WholeInv, EmailLock, HoldsEmail, EmailRule, EmailFree
  <1>4. RegistrationIsWhole'
    <2>1. ASSUME NEW t \in Tenants, tenant'[t] # None,
                 tenant'[t] \in Standing \/ at'[tenant'[t]].email # None
          PROVE  owner'[t] # None
      <3>1. tenant'[t] = tenant[t] /\ MadeFor(at, tenant[t], t)
        BY <2>1 DEF SameTenancies, IInv, Makers
      <3>2. tenant[t] \in Standing \/ at[tenant[t]].email # None
        BY <2>1, <3>1 DEF MadeFor, EmailRule
      <3> QED
        BY <2>1, <3>1, <3>2 DEF WholeInv, RegistrationIsWhole, Live, SameTenancies
    <2>2. ASSUME NEW t \in Tenants, NEW u \in Tenants, owner'[t] # None, owner'[u] # None,
                 owner'[t].email = owner'[u].email
          PROVE  t = u
      BY <2>2 DEF WholeInv, RegistrationIsWhole, SameTenancies, SameEmails
    <2> QED
      BY <2>1, <2>2 DEF RegistrationIsWhole, Live
  <1> QED
    BY <1>2, <1>3, <1>4 DEF WholeInv

LEMMA GotoEmail ==
  ASSUME Types, NEW r \in Requests, NEW step \in Steps, Goto(r, step), at[r].step # "done",
         step \notin {"create", "first key", "registered"}
  PROVE  EmailRule(r)
  <1>1. /\ \A q \in Requests : q # r => at'[q] = at[q]
        /\ at'[r].step = step /\ at'[r].email = at[r].email
    BY DEF Goto, Types, TypeOK, Place
  <1> QED
    BY <1>1 DEF EmailRule

\* Every step of a request keeps the rule.
LEMMA EmailRuleHolds ==
  ASSUME Types, NoEmail, NEW r \in Requests, Handle(r) PROVE EmailRule(r)
  <1>1. CASE Begin(r)
    <2>1. at[r].step = "new" /\ \A q \in Requests : q # r => at'[q] = at[q]
      BY <1>1 DEF Begin, BeginRegister, BeginAdmin, BeginByEmail, BeginReset, BeginWithSession,
                  Types, TypeOK
    <2>2. /\ at'[r].step # "registered" /\ at'[r].step # "first key"
          /\ at'[r].step = "create" => at'[r].email = None
      BY <1>1 DEF Begin, BeginRegister, BeginAdmin, BeginByEmail, BeginReset, BeginWithSession,
                  Nowhere, Types, TypeOK
    <2> QED
      BY <2>1, <2>2 DEF EmailRule
  <1>2. CASE InsertAccount(r)
    <2>1. /\ \A q \in Requests : q # r => at'[q] = at[q]
          /\ at'[r].email = at[r].email
          /\ at'[r].step \in {"done", "registered"}
          /\ at'[r].step = "registered" => ~EmailTaken(at[r].email)
      BY <1>2 DEF InsertAccount, Goto, Types, TypeOK, Place
    <2> QED
      BY <1>2, <2>1 DEF InsertAccount, EmailRule
  <1>3. CASE CheckEmail(r) \/ Provision(r) \/ CommitRegister(r)
    BY <1>3, GotoEmail DEF CheckEmail, Provision, CommitRegister, Steps
  <1>4. CASE CreateTenant(r)
    <2>1. CASE Goto(r, "done")
      BY <1>4, <2>1, GotoEmail DEF CreateTenant, Steps
    <2>2. CASE Goto(r, "first key")
      <3>1. /\ \A q \in Requests : q # r => at'[q] = at[q]
            /\ at'[r].step = "first key" /\ at'[r].email = at[r].email
        BY <2>2 DEF Goto, Types, TypeOK, Place
      <3> QED
        BY <1>4, <3>1 DEF CreateTenant, NoEmail, EmailRule
    <2> QED
      BY <1>4, <2>1, <2>2 DEF CreateTenant
  <1>5. CASE TenantExists(r) \/ InsertKey(r)
    BY <1>5, GotoEmail DEF TenantExists, InsertKey, Steps
  <1>6. CASE FindAccount(r)
    <2> DEFINE next == IF at[r].step = "lookup" THEN "open" ELSE "mail"
    <2>1. next \in {"open", "mail"}
      OBVIOUS
    <2>2. PICK t \in Tenants :
            at' = [at EXCEPT ![r] = [@ EXCEPT !.step = next, !.tenant = t,
                                         !.account = owner[t].id]]
      BY <1>6 DEF FindAccount
    <2> HIDE DEF next
    <2>3. at'[r].step = next /\ \A q \in Requests : q # r => at'[q] = at[q]
      BY <2>2 DEF Types, TypeOK, Place
    <2> QED
      BY <1>6, <2>1, <2>3 DEF FindAccount, EmailRule
  <1>7. CASE OpenSession(r) \/ MailLink(r)
    BY <1>7, GotoEmail DEF OpenSession, MailLink, Steps
  <1>8. CASE Redeem(r)
    <2>1. at[r].step = "redeem" /\ at'[r].step \in {"set", "done"}
          /\ \A q \in Requests : q # r => at'[q] = at[q]
      BY <1>8 DEF Redeem, Goto, Types, TypeOK, Place
    <2> QED
      BY <2>1 DEF EmailRule
  <1>9. CASE SetPassword(r) \/ BurnLinks(r) \/ RevokeSessions(r) \/ CommitReset(r)
    BY <1>9, GotoEmail DEF SetPassword, BurnLinks, RevokeSessions, CommitReset, Steps
  <1>10. CASE Change(r)
    BY <1>10, GotoEmail DEF Change, CheckCurrent, ChangePassword, EvictOthers, CommitChange, Steps
  <1>11. CASE Manage(r)
    BY <1>11, GotoEmail DEF Manage, Logout, RevokeKey, Steps
  <1>12. CASE BeginErasure(r)
    <2>1. at[r].step = "erase" /\ at'[r].step \in {"keys", "done"}
          /\ \A q \in Requests : q # r => at'[q] = at[q]
      BY <1>12 DEF BeginErasure, Goto, Types, TypeOK, Place
    <2> QED
      BY <2>1 DEF EmailRule
  <1>13. CASE DeleteKeys(r) \/ DeleteSessions(r) \/ SweepStores(r) \/ DeleteTenant(r)
    BY <1>13, GotoEmail DEF DeleteKeys, DeleteSessions, SweepStores, DeleteTenant, Steps
  <1>14. CASE Refused(r)
    BY <1>14, GotoEmail DEF Refused, Steps
  <1> QED
    BY <1>1, <1>2, <1>3, <1>4, <1>5, <1>6, <1>7, <1>8, <1>9, <1>10, <1>11, <1>12, <1>13, <1>14
       DEF Handle, Register, Admin, ByEmail, Reset, Erase

LEMMA NewPasswordKeepsEmails ==
  ASSUME Types, NEW a, NEW r \in Names, owner' = WithPassword(a, r)
  PROVE  SameEmails
  <1> SUFFICES ASSUME NEW t \in Tenants, owner[t] # None
               PROVE  owner'[t].email = owner[t].email
    BY DEF SameEmails
  <1>1. owner[t] \in Account
    BY DEF Types, TypeOK
  <1>2. [owner[t] EXCEPT !.pw = r].email = owner[t].email
    BY <1>1 DEF Account
  <1> QED
    BY <1>2 DEF WithPassword

\* The tenancy and the account that a registration commits are its own.
LEMMA CommitKeepsWhole ==
  ASSUME IInv, WholeInv, NEW r \in Requests, CommitRegister(r), EmailRule(r) PROVE WholeInv'
  <1> DEFINE t == at[r].tenant
             e == at[r].email
  <1>1. Types /\ t \in Tenants /\ e \in Emails /\ r \in Names
    BY DEF CommitRegister, IInv, Types, PlaceOK, Has, WithTenant, Registering, Names
  <1>2. /\ owner'[t] # None /\ owner'[t].email = e
        /\ \A u \in Tenants : u # t => owner'[u] = owner[u]
    <2>1. [id |-> r, email |-> e, pw |-> r] \in Account
      BY <1>1 DEF Account
    <2> QED
      BY <1>1, <2>1, RowAssumption DEF CommitRegister, Types, TypeOK
  <1>3. \A u \in Tenants : u # t => tenant'[u] = tenant[u]
    BY <1>1 DEF CommitRegister, Types, TypeOK
  <1>4. \A u \in Tenants : owner[u] # None => owner[u].email # e
    BY DEF CommitRegister, WholeInv, EmailLock, EmailTaken
  <1>5. NoEmail'
    BY DEF WholeInv, NoEmail, EmailRule
  <1>6. at'[r].step = "done"
    BY <1>1 DEF CommitRegister, Goto, Types, TypeOK, Place
  <1>7. EmailLock'
    <2> SUFFICES ASSUME NEW q \in Requests, at'[q].step = "registered"
                 PROVE  /\ \A u \in Tenants : owner'[u] # None => owner'[u].email # at'[q].email
                        /\ \A p \in Requests : at'[p].step = "registered"
                                               /\ at'[p].email = at'[q].email => p = q
      BY DEF EmailLock, HoldsEmail, EmailTaken
    <2>1. q # r /\ at'[q] = at[q]
      BY <1>6 DEF EmailRule
    <2>2. at[q].email # e
      BY <2>1 DEF CommitRegister, WholeInv, EmailLock, HoldsEmail
    <2>3. \A u \in Tenants : owner[u] # None => owner[u].email # at[q].email
      BY <2>1 DEF WholeInv, EmailLock, EmailTaken
    <2>4. \A p \in Requests : at'[p].step = "registered" => p # r /\ at'[p] = at[p]
      BY <1>6 DEF EmailRule
    <2> QED
      BY <1>2, <2>1, <2>2, <2>3, <2>4 DEF WholeInv, EmailLock, HoldsEmail
  <1>8. RegistrationIsWhole'
    <2>1. ASSUME NEW u \in Tenants, tenant'[u] # None,
                 tenant'[u] \in Standing \/ at'[tenant'[u]].email # None
          PROVE  owner'[u] # None
      <3>1. CASE u = t
        BY <1>2, <3>1
      <3>2. CASE u # t
        <4>1. tenant'[u] = tenant[u] /\ MadeFor(at, tenant[u], u)
          BY <1>3, <2>1, <3>2 DEF IInv, Makers
        <4>2. tenant[u] \in Standing \/ at[tenant[u]].email # None
          BY <2>1, <4>1 DEF MadeFor, EmailRule
        <4> QED
          BY <1>2, <2>1, <3>2, <4>1, <4>2 DEF WholeInv, RegistrationIsWhole, Live
      <3> QED
        BY <3>1, <3>2
    <2>2. ASSUME NEW u \in Tenants, NEW v \in Tenants, owner'[u] # None, owner'[v] # None,
                 owner'[u].email = owner'[v].email
          PROVE  u = v
      BY <1>2, <1>4, <2>2 DEF WholeInv, RegistrationIsWhole
    <2> QED
      BY <2>1, <2>2 DEF RegistrationIsWhole, Live
  <1> QED
    BY <1>5, <1>7, <1>8 DEF WholeInv

\* A tenant that an administrator creates has no account, and none is owed to it.
LEMMA CreateKeepsWhole ==
  ASSUME IInv, WholeInv, NEW r \in Requests, CreateTenant(r), EmailRule(r),
         ~Live(at[r].tenant)
  PROVE  WholeInv'
  <1> DEFINE t == at[r].tenant
  <1>1. /\ Types /\ t \in Tenants
        /\ tenant' = [tenant EXCEPT ![t] = r] /\ owner' = owner
        /\ at'[r].step = "first key"
    <2>1. Types /\ t \in Tenants
      BY DEF CreateTenant, IInv, Types, PlaceOK, Has, WithTenant
    <2>2. Goto(r, "first key") /\ tenant' = [tenant EXCEPT ![t] = r] /\ owner' = owner
      BY DEF CreateTenant
    <2> QED
      BY <2>1, <2>2 DEF Goto, Types, TypeOK, Place
  <1>2. NoEmail'
    BY DEF WholeInv, NoEmail, EmailRule
  <1>3. EmailLock'
    <2>1. \A q \in Requests : at'[q].step = "registered" => q # r /\ at'[q] = at[q]
      BY <1>1 DEF EmailRule
    <2> QED
      BY <1>1, <2>1 DEF WholeInv, EmailLock, HoldsEmail, EmailTaken
  <1>4. RegistrationIsWhole'
    <2>1. ASSUME NEW u \in Tenants, tenant'[u] # None,
                 tenant'[u] \in Standing \/ at'[tenant'[u]].email # None
          PROVE  owner'[u] # None
      <3>1. u # t
        <4> SUFFICES ASSUME u = t PROVE FALSE
          OBVIOUS
        <4>1. tenant'[u] = r
          BY <1>1 DEF Types, TypeOK
        <4> QED
          BY <1>1, <2>1, <4>1, StandingAssumption DEF EmailRule
      <3>2. tenant'[u] = tenant[u]
        BY <1>1, <3>1 DEF Types, TypeOK
      <3>3. MadeFor(at, tenant[u], u)
        BY <2>1, <3>2 DEF IInv, Makers
      <3>4. tenant[u] \in Standing \/ at[tenant[u]].email # None
        BY <2>1, <3>2, <3>3 DEF MadeFor, EmailRule
      <3> QED
        BY <1>1, <2>1, <3>2, <3>4 DEF WholeInv, RegistrationIsWhole, Live
    <2>2. \A u, v \in Tenants :
             owner'[u] # None /\ owner'[v] # None /\ owner'[u].email = owner'[v].email => u = v
      BY <1>1 DEF WholeInv, RegistrationIsWhole
    <2> QED
      BY <2>1, <2>2 DEF RegistrationIsWhole, Live
  <1> QED
    BY <1>2, <1>3, <1>4 DEF WholeInv

\* The tenancy goes with its account.
LEMMA DeleteKeepsWhole ==
  ASSUME IInv, WholeInv, NEW r \in Requests, DeleteTenant(r), EmailRule(r) PROVE WholeInv'
  <1> DEFINE t == at[r].tenant
  <1>1. /\ Types /\ t \in Tenants
        /\ tenant' = [tenant EXCEPT ![t] = None] /\ owner' = [owner EXCEPT ![t] = None]
        /\ at'[r].step = "sweep"
    BY DEF DeleteTenant, Goto, IInv, Types, TypeOK, Place, PlaceOK, Has, WithTenant, Erasing
  <1>2. NoEmail'
    BY DEF WholeInv, NoEmail, EmailRule
  <1>3. /\ tenant'[t] = None /\ owner'[t] = None
        /\ \A u \in Tenants : u # t => tenant'[u] = tenant[u] /\ owner'[u] = owner[u]
    BY <1>1 DEF Types, TypeOK
  <1>4. EmailLock'
    <2>1. \A q \in Requests : at'[q].step = "registered" => q # r /\ at'[q] = at[q]
      BY <1>1 DEF EmailRule
    <2> QED
      BY <1>3, <2>1 DEF WholeInv, EmailLock, HoldsEmail, EmailTaken
  <1>5. RegistrationIsWhole'
    <2>1. ASSUME NEW u \in Tenants, tenant'[u] # None,
                 tenant'[u] \in Standing \/ at'[tenant'[u]].email # None
          PROVE  owner'[u] # None
      <3>1. u # t /\ tenant'[u] = tenant[u] /\ MadeFor(at, tenant[u], u)
        BY <1>3, <2>1 DEF IInv, Makers
      <3>2. tenant[u] \in Standing \/ at[tenant[u]].email # None
        BY <2>1, <3>1 DEF MadeFor, EmailRule
      <3> QED
        BY <1>3, <2>1, <3>1, <3>2 DEF WholeInv, RegistrationIsWhole, Live
    <2>2. \A u, v \in Tenants :
             owner'[u] # None /\ owner'[v] # None /\ owner'[u].email = owner'[v].email => u = v
      BY <1>3 DEF WholeInv, RegistrationIsWhole
    <2> QED
      BY <2>1, <2>2 DEF RegistrationIsWhole, Live
  <1> QED
    BY <1>2, <1>4, <1>5 DEF WholeInv

LEMMA InitWhole == Init => WholeInv
  <1> SUFFICES ASSUME Init PROVE WholeInv
    OBVIOUS
  <1>1. \A t \in Tenants : owner[t] # None =>
           t \in Standing /\ owner[t].email = StandingEmail[t]
    BY DEF Init
  <1>2. \A t \in Tenants : tenant[t] # None => t \in Standing
    BY DEF Init
  <1>3. \A t \in Standing : owner[t] # None
    <2>1. \A t \in Standing : [id |-> t, email |-> StandingEmail[t], pw |-> t] \in Account
      BY StandingAssumption DEF Account, Names
    <2> QED
      BY <2>1, StandingAssumption, RowAssumption DEF Init
  <1>4. RegistrationIsWhole
    BY <1>1, <1>2, <1>3, StandingAssumption DEF RegistrationIsWhole, Live
  <1>5. EmailLock /\ NoEmail
    BY DEF Init, Nowhere, EmailLock, NoEmail
  <1> QED
    BY <1>4, <1>5 DEF WholeInv

LEMMA NextWhole == IInv /\ WholeInv /\ [Next]_vars => WholeInv'
  <1> SUFFICES ASSUME IInv, WholeInv, [Next]_vars PROVE WholeInv'
    OBVIOUS
  <1>1. ASSUME at' = at, tenant' = tenant, owner' = owner PROVE WholeInv'
    BY <1>1 DEF WholeInv, RegistrationIsWhole, EmailLock, NoEmail, HoldsEmail, EmailTaken, Live
  <1>2. ASSUME NEW r \in Requests, Handle(r) PROVE WholeInv'
    <2>1. EmailRule(r) /\ Types /\ r \in Names
      BY <1>2, EmailRuleHolds DEF IInv, WholeInv, Names
    <2>2. CASE tenant' = tenant /\ owner' = owner
      BY <2>1, <2>2, WholeKeeps DEF SameTenancies, SameEmails
    <2>3. CASE CommitReset(r) \/ CommitChange(r)
      <3>1. SameTenancies /\ SameEmails
        BY <2>1, <2>3, NewPassword, NewPasswordKeepsEmails DEF CommitReset, CommitChange
      <3> QED
        BY <2>1, <3>1, WholeKeeps
    <2>4. CASE CommitRegister(r)
      BY <2>1, <2>4, CommitKeepsWhole
    <2>5. CASE CreateTenant(r) /\ ~Live(at[r].tenant)
      BY <2>1, <2>5, CreateKeepsWhole
    <2>6. CASE DeleteTenant(r)
      BY <2>1, <2>6, DeleteKeepsWhole
    <2>7. \/ tenant' = tenant /\ owner' = owner
          \/ CommitReset(r) \/ CommitChange(r) \/ CommitRegister(r) \/ DeleteTenant(r)
          \/ CreateTenant(r) /\ ~Live(at[r].tenant)
      <3>1. CASE Begin(r)
        BY <3>1 DEF Begin, BeginRegister, BeginAdmin, BeginByEmail, BeginReset, BeginWithSession, rowVars
      <3>2. CASE Register(r) \/ Admin(r) \/ Refused(r)
        BY <3>2 DEF Register, CheckEmail, Provision, InsertAccount, Admin, CreateTenant,
                    TenantExists, InsertKey, Refused, rowVars
      <3>3. CASE ByEmail(r) \/ Reset(r)
        BY <3>3 DEF ByEmail, FindAccount, OpenSession, MailLink, Reset, Redeem, SetPassword,
                    BurnLinks, RevokeSessions, rowVars
      <3>4. CASE Change(r) \/ Manage(r)
        BY <3>4 DEF Change, CheckCurrent, ChangePassword, EvictOthers, Manage, Logout, RevokeKey, rowVars
      <3>5. CASE Erase(r)
        BY <3>5 DEF Erase, BeginErasure, DeleteKeys, DeleteSessions, SweepStores, rowVars
      <3> QED
        BY <1>2, <3>1, <3>2, <3>3, <3>4, <3>5 DEF Handle
    <2> QED
      BY <2>2, <2>3, <2>4, <2>5, <2>6, <2>7
  <1>3. ASSUME NEW n \in Names, SessionExpires(n) \/ LinkExpires(n) PROVE WholeInv'
    BY <1>1, <1>3 DEF SessionExpires, LinkExpires
  <1> QED
    BY <1>1, <1>2, <1>3 DEF Next, vars

\* Registrations that race for a slug or an email, with each other, with an
\* administrator and with an erasure, leave no tenant of theirs without its owner
\* and no two accounts with one email (register).
THEOREM RegistrationIsWholeHolds == Spec => []RegistrationIsWhole
  <1>1. Init => IInv /\ WholeInv
    BY InitKeeps, InitWhole
  <1>2. (IInv /\ WholeInv) /\ [Next]_vars => (IInv /\ WholeInv)'
    BY NextKeeps, NextWhole
  <1>3. IInv /\ WholeInv => RegistrationIsWhole
    BY DEF WholeInv
  <1> QED
    BY <1>1, <1>2, <1>3, PTL DEF Spec
=============================================================================
