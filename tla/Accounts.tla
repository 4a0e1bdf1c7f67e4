------------------------------- MODULE Accounts -------------------------------
(***************************************************************************)
(* Who may act for a tenant: the tenants, accounts, sessions, api_keys and *)
(* password_reset_tokens tables, the requests that write them, and what    *)
(* the erasure of a tenant does to them.                                   *)
(*                                                                         *)
(* A request is a one-shot process.  Each of its statements on the plain   *)
(* pool is a step; inside a transaction each statement is a step too, with *)
(* the row locks Postgres takes at READ COMMITTED: others see nothing of   *)
(* it before COMMIT, wait for the rows it has written, and look at them    *)
(* again when it ends.                                                     *)
(*                                                                         *)
(* Simplifications.                                                        *)
(*  - What a request mints (an account id, a token, a link, a key, a       *)
(*    salted password hash) is fresh, so it bears the request's name; what *)
(*    the tenants of Standing registered with bears the tenant's.          *)
(*  - A wrong password, a bad email, a short password, a rate limit and an *)
(*    unknown token end a request without a trace: Refused covers them.    *)
(*  - A key is one whatever its kind, label and origins.                   *)
(***************************************************************************)
EXTENDS Naturals, FiniteSets

CONSTANTS
    Tenants,        \* tenant slugs; a slug may be registered again once erased
    Emails,         \* lower(email)
    Requests,       \* HTTP requests, one shot each
    Standing,       \* the tenants that exist at the start, each with an account
    StandingEmail,  \* StandingEmail[t]: that account's email
    None            \* no row

Names == Requests \cup Standing

ASSUME StandingAssumption ==
    /\ Standing \subseteq Tenants
    /\ StandingEmail \in [Standing -> Emails]
    /\ \A t, u \in Standing : StandingEmail[t] = StandingEmail[u] => t = u
    /\ Requests \cap Tenants = {}
    /\ None \notin Names \cup Tenants \cup Emails

VARIABLES
    tenant,   \* tenant[t]: the request that created the row, or None
    owner,    \* owner[t]: the account with tenant_id t (idx_accounts_tenant), or None
    session,  \* session[n]: the unexpired session whose token n minted, or None
    link,     \* link[n]: the reset token mailed by n, or None
    key,      \* key[n]: the tenant of the API key minted by n, or None
    at,       \* at[r]: where request r stands and what it has read
    held       \* held[r]: the rows written by r's open transaction

vars == <<tenant, owner, session, link, key, at, held>>

Steps == {"new", "done",
          "check", "provision", "own", "registered",
          "lookup", "open",
          "find", "mail",
          "redeem", "set", "burn", "revoke", "commit", "won",
          "current", "change", "evict", "changed",
          "logout", "mint", "drop", "create", "first key", "exists", "insert",
          "erase", "keys", "sessions", "stores", "rows", "sweep", "closed"}

Account == [id : Names, email : Emails, pw : Names]
Session == [account : Names, tenant : Tenants]
Link    == [account : Names, state : {"live", "expired", "used"}, after : SUBSET Requests]
Place   == [step : Steps, tenant : Tenants \cup {None}, email : Emails \cup {None},
            account : Names \cup {None}, ref : Names \cup {None}]
Writes  == [links : SUBSET Names, sessions : SUBSET Names]

\* A row is not the absence of one.
ASSUME RowAssumption == None \notin Account \cup Session \cup Link

TypeOK ==
    /\ tenant  \in [Tenants -> Names \cup {None}]
    /\ owner   \in [Tenants -> Account \cup {None}]
    /\ session \in [Names -> Session \cup {None}]
    /\ link    \in [Names -> Link \cup {None}]
    /\ key     \in [Names -> Tenants \cup {None}]
    /\ at      \in [Requests -> Place]
    /\ held    \in [Requests -> Writes]

Nowhere == [step |-> "new", tenant |-> None, email |-> None,
            account |-> None, ref |-> None]
Nothing == [links |-> {}, sessions |-> {}]

\* A standing tenant has its account, the session and the key its registration
\* minted, and one reset link outstanding.
Init ==
    /\ tenant  = [t \in Tenants |-> IF t \in Standing THEN t ELSE None]
    /\ owner   = [t \in Tenants |->
                    IF t \in Standing THEN [id |-> t, email |-> StandingEmail[t], pw |-> t]
                    ELSE None]
    /\ session = [n \in Names |->
                    IF n \in Standing THEN [account |-> n, tenant |-> n] ELSE None]
    /\ link    = [n \in Names |->
                    IF n \in Standing THEN [account |-> n, state |-> "live", after |-> {}] ELSE None]
    /\ key     = [n \in Names |-> IF n \in Standing THEN n ELSE None]
    /\ at      = [r \in Requests |-> Nowhere]
    /\ held    = [r \in Requests |-> Nothing]

-----------------------------------------------------------------------------
(* The rows, and the locks open transactions hold on them.                 *)

Live(t) == tenant[t] # None
AccountExists(a) == \E t \in Tenants : owner[t] # None /\ owner[t].id = a
EmailTaken(e) == \E t \in Tenants : owner[t] # None /\ owner[t].email = e

Resetting(r) == at[r].step \in {"set", "burn", "revoke", "commit"}
HoldsLink(r, l)    == Resetting(r) /\ (l = at[r].ref \/ l \in held[r].links)
HoldsAccount(r, a) == /\ at[r].step \in {"burn", "revoke", "commit", "evict", "changed"}
                      /\ at[r].account = a
HoldsSession(r, s) == s \in held[r].sessions
HoldsSlug(r, t)    == at[r].step \in {"own", "registered"} /\ at[r].tenant = t
HoldsEmail(r, e)   == at[r].step = "registered" /\ at[r].email = e

LinkFree(l)    == \A q \in Requests : ~HoldsLink(q, l)
AccountFree(a) == \A q \in Requests : ~HoldsAccount(q, a)
SessionFree(s) == \A q \in Requests : ~HoldsSession(q, s)
SlugFree(t)    == \A q \in Requests : ~HoldsSlug(q, t)
EmailFree(e)   == \A q \in Requests : ~HoldsEmail(q, e)

SessionsOf(a) == {s \in Names : session[s] # None /\ session[s].account = a}
UnusedLinks(a) ==
    {l \in Names : link[l] # None /\ link[l].account = a /\ link[l].state # "used"}

Goto(r, step) == at' = [at EXCEPT ![r].step = step]
rowVars == <<tenant, owner, session, link, key>>

\* The request answers with an error, fails or loses its connection; a
\* transaction rolls back, whether its client gave up or Postgres chose it to
\* break a cycle of waits.
Refused(r) ==
    /\ at[r].step \notin {"new", "done", "won", "closed"}
    /\ Goto(r, "done")
    /\ held' = [held EXCEPT ![r] = Nothing]
    /\ UNCHANGED rowVars

-----------------------------------------------------------------------------
(* Registration: a tenant, its account, a session and a key in one         *)
(* transaction; and its administrative twin, which has no transaction.     *)

BeginRegister(r, t, e) ==
    /\ at[r].step = "new"
    /\ at' = [at EXCEPT ![r] = [Nowhere EXCEPT !.step = "check", !.tenant = t, !.email = e]]
    /\ UNCHANGED <<rowVars, held>>

\* The pre-check for a clean 409.
CheckEmail(r) ==
    /\ at[r].step = "check"
    /\ Goto(r, IF EmailTaken(at[r].email) THEN "done" ELSE "provision")
    /\ UNCHANGED <<rowVars, held>>

\* Mutant: provisioning on a connection of its own, outside the transaction.
Provision_OutsideTransaction(r) ==
    LET t == at[r].tenant IN
    /\ at[r].step = "provision"
    /\ SlugFree(t)
    /\ IF Live(t) THEN Goto(r, "done") /\ UNCHANGED <<tenant, key>>
       ELSE /\ Goto(r, "own")
            /\ tenant' = [tenant EXCEPT ![t] = r]
            /\ key' = [key EXCEPT ![r] = t]
    /\ UNCHANGED <<owner, session, link, held>>

\* INSERT INTO tenants ... ON CONFLICT DO NOTHING waits for an uncommitted row
\* of the same slug; no row inserted is a 409.  The key follows, in the
\* transaction's own sight only.
Provision(r) ==
    /\ at[r].step = "provision"
    /\ SlugFree(at[r].tenant)
    /\ Goto(r, IF Live(at[r].tenant) THEN "done" ELSE "own")
    /\ UNCHANGED <<rowVars, held>>

\* INSERT INTO accounts, which the unique index on lower(email) makes wait and
\* may refuse although the pre-check passed; the session insert follows.
InsertAccount(r) ==
    /\ at[r].step = "own"
    /\ EmailFree(at[r].email)
    /\ Goto(r, IF EmailTaken(at[r].email) THEN "done" ELSE "registered")
    /\ UNCHANGED <<rowVars, held>>

CommitRegister(r) ==
    /\ at[r].step = "registered"
    /\ LET t == at[r].tenant IN
        /\ tenant'  = [tenant EXCEPT ![t] = r]
        /\ owner'   = [owner EXCEPT ![t] = [id |-> r, email |-> at[r].email, pw |-> r]]
        /\ session' = [session EXCEPT ![r] = [account |-> r, tenant |-> t]]
        /\ key'     = [key EXCEPT ![r] = t]
    /\ Goto(r, "done")
    /\ UNCHANGED <<link, held>>

BeginAdmin(r, t, step) ==
    /\ at[r].step = "new"
    /\ step \in {"create", "exists", "erase"}
    /\ at' = [at EXCEPT ![r] = [Nowhere EXCEPT !.step = step, !.tenant = t]]
    /\ UNCHANGED <<rowVars, held>>

\* POST /admin/tenants: each insert commits by itself.
CreateTenant(r) ==
    LET t == at[r].tenant IN
    /\ at[r].step = "create"
    /\ SlugFree(t)
    /\ IF Live(t) THEN Goto(r, "done") /\ UNCHANGED tenant
       ELSE Goto(r, "first key") /\ tenant' = [tenant EXCEPT ![t] = r]
    /\ UNCHANGED <<owner, session, link, key, held>>

\* POST /admin/tenants/{id}/keys looks the tenant up before it inserts.
TenantExists(r) ==
    /\ at[r].step = "exists"
    /\ Goto(r, IF Live(at[r].tenant) THEN "insert" ELSE "done")
    /\ UNCHANGED <<rowVars, held>>

\* Mutant: api_keys.tenant_id without its foreign key.
InsertKey_NoForeignKey(r) ==
    /\ at[r].step \in {"first key", "insert", "mint"}
    /\ key' = [key EXCEPT ![r] = at[r].tenant]
    /\ Goto(r, "done")
    /\ UNCHANGED <<tenant, owner, session, link, held>>

\* INSERT INTO api_keys by whichever path: the foreign key wants the tenant.
InsertKey(r) ==
    /\ at[r].step \in {"first key", "insert", "mint"}
    /\ IF Live(at[r].tenant) THEN key' = [key EXCEPT ![r] = at[r].tenant]
       ELSE UNCHANGED key
    /\ Goto(r, "done")
    /\ UNCHANGED <<tenant, owner, session, link, held>>

-----------------------------------------------------------------------------
(* Login and the mailing of a reset link: read the account, then insert.   *)

BeginByEmail(r, e, step) ==
    /\ at[r].step = "new"
    /\ step \in {"lookup", "find"}
    /\ at' = [at EXCEPT ![r] = [Nowhere EXCEPT !.step = step, !.email = e]]
    /\ UNCHANGED <<rowVars, held>>

\* Mutant: the lookup forgets the tenant the session is denormalised with.
FindAccount_NoTenant(r) ==
    LET next == IF at[r].step = "lookup" THEN "open" ELSE "mail" IN
    /\ at[r].step \in {"lookup", "find"}
    /\ \E t \in Tenants :
        /\ owner[t] # None
        /\ owner[t].email = at[r].email
        /\ at' = [at EXCEPT ![r] =
                    [@ EXCEPT !.step = next, !.account = owner[t].id]]
    /\ UNCHANGED <<rowVars, held>>

\* SELECT the account of the email.  The caller of a login presents the
\* password now stored; with any other the request is Refused.
FindAccount(r) ==
    LET next == IF at[r].step = "lookup" THEN "open" ELSE "mail" IN
    /\ at[r].step \in {"lookup", "find"}
    /\ \E t \in Tenants :
        /\ owner[t] # None
        /\ owner[t].email = at[r].email
        /\ at' = [at EXCEPT ![r] =
                    [@ EXCEPT !.step = next, !.tenant = t, !.account = owner[t].id]]
    /\ UNCHANGED <<rowVars, held>>

\* Mutant: sessions.account_id without its foreign key.
OpenSession_NoForeignKey(r) ==
    /\ at[r].step = "open"
    /\ session' = [session EXCEPT ![r] = [account |-> at[r].account, tenant |-> at[r].tenant]]
    /\ Goto(r, "done")
    /\ UNCHANGED <<tenant, owner, link, key, held>>

\* create_session: the foreign key wants the account, not its password.
OpenSession(r) ==
    LET a == at[r].account IN
    /\ at[r].step = "open"
    /\ IF AccountExists(a)
       THEN session' = [session EXCEPT ![r] = [account |-> a, tenant |-> at[r].tenant]]
       ELSE UNCHANGED session
    /\ Goto(r, "done")
    /\ UNCHANGED <<tenant, owner, link, key, held>>

\* after: the resets whose burn has already been executed.
MailLink(r) ==
    LET a == at[r].account
        burnt == {q \in Requests : at[q].step \in {"revoke", "commit", "won"}} IN
    /\ at[r].step = "mail"
    /\ IF AccountExists(a)
       THEN link' = [link EXCEPT ![r] = [account |-> a, state |-> "live", after |-> burnt]]
       ELSE UNCHANGED link
    /\ Goto(r, "done")
    /\ UNCHANGED <<tenant, owner, session, key, held>>

SessionExpires(s) ==
    /\ session[s] # None
    /\ session' = [session EXCEPT ![s] = None]
    /\ UNCHANGED <<tenant, owner, link, key, at, held>>

\* now() is the start of the transaction: a reset that has begun still redeems it.
LinkExpires(l) ==
    /\ link[l] # None
    /\ link[l].state = "live"
    /\ \A q \in Requests : at[q].step = "redeem" => at[q].ref # l
    /\ link' = [link EXCEPT ![l].state = "expired"]
    /\ UNCHANGED <<tenant, owner, session, key, at, held>>

-----------------------------------------------------------------------------
(* POST /auth/password/reset: one transaction over three tables.           *)

BeginReset(r, l) ==
    /\ at[r].step = "new"
    /\ link[l] # None
    /\ at' = [at EXCEPT ![r] = [Nowhere EXCEPT !.step = "redeem", !.ref = l]]
    /\ UNCHANGED <<rowVars, held>>

\* Mutant: the link is read first and marked later, so nobody waits for anybody.
Redeem_ReadThenWrite(r) ==
    LET l == at[r].ref IN
    /\ at[r].step = "redeem"
    /\ IF link[l] # None /\ link[l].state = "live"
       THEN at' = [at EXCEPT ![r].step = "set", ![r].account = link[l].account]
       ELSE Goto(r, "done")
    /\ UNCHANGED <<rowVars, held>>

\* UPDATE ... WHERE used_at IS NULL AND expires_at > now() RETURNING account_id
Redeem(r) ==
    LET l == at[r].ref IN
    /\ at[r].step = "redeem"
    /\ LinkFree(l)
    /\ IF link[l] # None /\ link[l].state = "live"
       THEN at' = [at EXCEPT ![r].step = "set", ![r].account = link[l].account]
       ELSE Goto(r, "done")
    /\ UNCHANGED <<rowVars, held>>

SetPassword(r) ==
    /\ at[r].step = "set"
    /\ AccountFree(at[r].account)
    /\ Goto(r, "burn")
    /\ UNCHANGED <<rowVars, held>>

\* used_at = now() on the account's other links, wherever it is still null; the
\* statement waits for those another transaction is redeeming.
BurnLinks(r) ==
    LET others == UnusedLinks(at[r].account) \ {at[r].ref} IN
    /\ at[r].step = "burn"
    /\ \A l \in others : LinkFree(l)
    /\ held' = [held EXCEPT ![r].links = others]
    /\ Goto(r, "revoke")
    /\ UNCHANGED rowVars

RevokeSessions(r) ==
    LET all == SessionsOf(at[r].account) IN
    /\ at[r].step = "revoke"
    /\ \A s \in all : SessionFree(s)
    /\ held' = [held EXCEPT ![r].sessions = all]
    /\ Goto(r, "commit")
    /\ UNCHANGED rowVars

\* owner with the password of account a replaced by that of request r.
WithPassword(a, r) ==
    [t \in Tenants |-> IF owner[t] # None /\ owner[t].id = a
                       THEN [owner[t] EXCEPT !.pw = r] ELSE owner[t]]

Without(s) == [n \in Names |-> IF n \in s THEN None ELSE session[n]]

CommitReset(r) ==
    LET used == held[r].links \cup {at[r].ref} IN
    /\ at[r].step = "commit"
    /\ owner'   = WithPassword(at[r].account, r)
    /\ link'    = [n \in Names |-> IF n \in used /\ link[n] # None
                                   THEN [link[n] EXCEPT !.state = "used"] ELSE link[n]]
    /\ session' = Without(held[r].sessions)
    /\ Goto(r, "won")
    /\ held'    = [held EXCEPT ![r] = Nothing]
    /\ UNCHANGED <<tenant, key>>

-----------------------------------------------------------------------------
(* What a session may do: change the password, log out, mint and revoke    *)
(* keys.  The extractor resolves the session before the handler runs.      *)

BeginWithSession(r, s, step) ==
    /\ at[r].step = "new"
    /\ step \in {"current", "logout", "mint", "drop"}
    /\ session[s] # None
    /\ at' = [at EXCEPT ![r] = [Nowhere EXCEPT !.step = step, !.ref = s,
                                    !.account = session[s].account, !.tenant = session[s].tenant]]
    /\ UNCHANGED <<rowVars, held>>

\* SELECT password_hash and verify; the caller presents the right one.
CheckCurrent(r) ==
    /\ at[r].step = "current"
    /\ AccountExists(at[r].account)
    /\ Goto(r, "change")
    /\ UNCHANGED <<rowVars, held>>

\* BEGIN; UPDATE accounts, without a second look at the password.
ChangePassword(r) ==
    /\ at[r].step = "change"
    /\ AccountFree(at[r].account)
    /\ Goto(r, "evict")
    /\ UNCHANGED <<rowVars, held>>

EvictOthers(r) ==
    LET others == SessionsOf(at[r].account) \ {at[r].ref} IN
    /\ at[r].step = "evict"
    /\ \A s \in others : SessionFree(s)
    /\ held' = [held EXCEPT ![r].sessions = others]
    /\ Goto(r, "changed")
    /\ UNCHANGED rowVars

CommitChange(r) ==
    /\ at[r].step = "changed"
    /\ owner'   = WithPassword(at[r].account, r)
    /\ session' = Without(held[r].sessions)
    /\ Goto(r, "done")
    /\ held'    = [held EXCEPT ![r] = Nothing]
    /\ UNCHANGED <<tenant, link, key>>

Logout(r) ==
    /\ at[r].step = "logout"
    /\ SessionFree(at[r].ref)
    /\ session' = Without({at[r].ref})
    /\ Goto(r, "done")
    /\ UNCHANGED <<tenant, owner, link, key, held>>

\* DELETE /auth/keys/{hash}: the tenant in the WHERE clause is the boundary.
RevokeKey(r, n) ==
    /\ at[r].step = "drop"
    /\ key[n] = at[r].tenant
    /\ key' = [key EXCEPT ![n] = None]
    /\ Goto(r, "done")
    /\ UNCHANGED <<tenant, owner, session, link, held>>

-----------------------------------------------------------------------------
(* DELETE /admin/tenants/{id}: the saga of erase_tenant, each statement    *)
(* committed by itself.                                                    *)

\* SELECT 1 FROM tenants, then the audit row; ref remembers which tenancy the
\* request is about.  The audit row is open from here to "closed".
BeginErasure(r) ==
    LET t == at[r].tenant IN
    /\ at[r].step = "erase"
    /\ IF Live(t) THEN at' = [at EXCEPT ![r].step = "keys", ![r].ref = tenant[t]]
       ELSE Goto(r, "done")
    /\ UNCHANGED <<rowVars, held>>

DeleteKeys(r) ==
    /\ at[r].step = "keys"
    /\ key' = [n \in Names |-> IF key[n] = at[r].tenant THEN None ELSE key[n]]
    /\ Goto(r, "sessions")
    /\ UNCHANGED <<tenant, owner, session, link, held>>

SessionsIn(t) == {s \in Names : session[s] # None /\ session[s].tenant = t}

DeleteSessions(r) ==
    LET all == SessionsIn(at[r].tenant) IN
    /\ at[r].step = "sessions"
    /\ \A s \in all : SessionFree(s)
    /\ session' = Without(all)
    /\ Goto(r, "stores")
    /\ UNCHANGED <<tenant, owner, link, key, held>>

\* delete_tenant_vectors and delete_tenant_objects; the vectors once more after
\* the rows, and then finish closes the audit row.
SweepStores(r) ==
    /\ at[r].step \in {"stores", "sweep"}
    /\ Goto(r, IF at[r].step = "stores" THEN "rows" ELSE "closed")
    /\ UNCHANGED <<rowVars, held>>

\* DELETE FROM tenants, with every row that references it.
DeleteTenant(r) ==
    LET t == at[r].tenant
        Gone(a) == owner[t] # None /\ owner[t].id = a IN
    /\ at[r].step = "rows"
    /\ owner[t] # None => AccountFree(owner[t].id)
    /\ \A l \in Names : link[l] # None /\ Gone(link[l].account) => LinkFree(l)
    /\ \A s \in SessionsIn(t) : SessionFree(s)
    /\ tenant'  = [tenant EXCEPT ![t] = None]
    /\ owner'   = [owner EXCEPT ![t] = None]
    /\ session' = Without(SessionsIn(t) \cup {s \in Names : session[s] # None /\ Gone(session[s].account)})
    /\ link'    = [l \in Names |-> IF link[l] # None /\ Gone(link[l].account) THEN None ELSE link[l]]
    /\ key'     = [n \in Names |-> IF key[n] = t THEN None ELSE key[n]]
    /\ Goto(r, "sweep")
    /\ UNCHANGED held

-----------------------------------------------------------------------------
Begin(r) ==
    \/ \E t \in Tenants, e \in Emails : BeginRegister(r, t, e)
    \/ \E t \in Tenants, step \in Steps : BeginAdmin(r, t, step)
    \/ \E e \in Emails, step \in Steps : BeginByEmail(r, e, step)
    \/ \E l \in Names : BeginReset(r, l)
    \/ \E s \in Names, step \in Steps : BeginWithSession(r, s, step)

Register(r) == CheckEmail(r) \/ Provision(r) \/ InsertAccount(r) \/ CommitRegister(r)
Admin(r)    == CreateTenant(r) \/ TenantExists(r) \/ InsertKey(r)
ByEmail(r)  == FindAccount(r) \/ OpenSession(r) \/ MailLink(r)
Reset(r)    == \/ Redeem(r) \/ SetPassword(r) \/ BurnLinks(r)
               \/ RevokeSessions(r) \/ CommitReset(r)
Change(r)   == CheckCurrent(r) \/ ChangePassword(r) \/ EvictOthers(r) \/ CommitChange(r)
Manage(r)   == Logout(r) \/ \E n \in Names : RevokeKey(r, n)
Erase(r)    == \/ BeginErasure(r) \/ DeleteKeys(r)
               \/ DeleteSessions(r) \/ SweepStores(r) \/ DeleteTenant(r)

Handle(r) == \/ Begin(r) \/ Register(r) \/ Admin(r) \/ ByEmail(r) \/ Reset(r)
             \/ Change(r) \/ Manage(r) \/ Erase(r) \/ Refused(r)

Next ==
    \/ \E r \in Requests : Handle(r)
    \/ \E n \in Names : SessionExpires(n) \/ LinkExpires(n)

Spec == Init /\ [][Next]_vars

-----------------------------------------------------------------------------
(* Properties.                                                             *)

\* The foreign keys, seen from outside: nobody holds a session, a link or a key
\* for a tenancy that is over, however the requests that insert them, the
\* erasure and a new registration of the same slug interleave (the inserts of
\* accounts.rs come long after the row they rest on was read).  In particular a
\* session always belongs to the account that owns its tenant now.
AccessNeedsTenancy ==
    /\ \A s \in Names : session[s] # None =>
          /\ owner[session[s].tenant] # None
          /\ owner[session[s].tenant].id = session[s].account
    /\ \A l \in Names : link[l] # None => AccountExists(link[l].account)
    /\ \A n \in Names : key[n] # None => Live(key[n])
    /\ \A t \in Tenants : owner[t] # None => owner[t].id = tenant[t]

\* register is one unit of work (accounts.rs "no half-provisioned tenant"): two
\* registrations racing for a slug or an email never leave a tenant without its
\* owner, nor two accounts with one email.
RegistrationIsWhole ==
    /\ \A t \in Tenants :
          Live(t) /\ (tenant[t] \in Standing \/ at[tenant[t]].email # None) => owner[t] # None
    /\ \A t, u \in Tenants :
          owner[t] # None /\ owner[u] # None /\ owner[t].email = owner[u].email => t = u

\* "Ask three times, use one, and the other two links are dead" (reset_password):
\* two resets of one account both succeed only when the link of one was mailed
\* after the other had burned the rest, even when both are redeemed at once.
OneLinkWins ==
    \A q, r \in Requests :
        LET l == at[q].ref
            m == at[r].ref IN
        /\ q # r /\ at[q].step = "won" /\ at[r].step = "won"
        /\ at[q].account = at[r].account
        /\ link[l] # None /\ link[m] # None
        => q \in link[m].after \/ r \in link[l].after

\* Once DELETE FROM tenants has run, the tenancy that the erasure was asked to end
\* never lives again: no row of it and no session of its account, although the
\* same slug may be registered anew and logins were in flight (erase_tenant).
ErasedTenancyIsGone ==
    \A r \in Requests : at[r].step \in {"sweep", "closed"} =>
        /\ tenant[at[r].tenant] # at[r].ref
        /\ \A s \in Names : session[s] # None => session[s].account # at[r].ref
=============================================================================
