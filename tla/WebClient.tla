------------------------------ MODULE WebClient ------------------------------
(***************************************************************************)
(* One browser tab of the frontend: SessionProvider, which knows who is     *)
(* signed in and the tenant the tab acts in, and the React Query cache from *)
(* which a detail page takes the record its address names.                  *)
(*                                                                          *)
(* A record is a pair <<tenant, id>>.  One kind of record stands for all    *)
(* kinds, so the cache has one key per tenant: contextKey() is given the    *)
(* resource, the tenant and parameters, and no detail hook passes the id.   *)
(*                                                                          *)
(* The library is external: what mounting, unmounting, invalidate() and     *)
(* clear() do to a query is modelled from how the hooks use them, with      *)
(* staleTime 0 and a queryFn that listens to the signal.                    *)
(***************************************************************************)
CONSTANTS
  Users, Tenants,
  Records,                   \* the records there are, pairs <<tenant, id>>
  NoUser, NoTenant, NoRecord

ASSUME WebClientAssumption ==
  /\ Records \subseteq Tenants \X {r[2] : r \in Records}
  /\ NoUser \notin Users /\ NoTenant \notin Tenants /\ NoRecord \notin Records

VARIABLES
  session,   \* whose session the browser's cookie is
  auth,      \* AuthState
  tenant,    \* activeTenantId, and what sessionStorage holds of it
  leaving,   \* signOut() awaits logout()
  page,      \* the record the open detail page is about
  cache,     \* [Tenants -> the entry under the key of the tenant]
  fetch,     \* the request a query of the page has under way
  save,      \* a mutation; save.key is the tenant its onSuccess would invalidate
  chooser,   \* history: who chose the tenant
  elsewhere, \* history: users whose session did not end by signing out in this tab
  opened,    \* history: records opened since the cache was last cleared
  astray     \* history: a save whose tenant changed under it

sessionVars == <<session, auth, tenant, leaving, chooser, elsewhere>>
queryVars == <<page, cache, fetch, save, opened, astray>>
webClientVars == <<sessionVars, queryVars>>

\* A request that has failed leaves an entry that shows nothing, whatever it held before.
Entry == [of : Records \cup {NoRecord}, saved : BOOLEAN, by : Users \cup {NoUser}]
NoEntry == [of |-> NoRecord, saved |-> FALSE, by |-> NoUser]
Fetch == [at : {"none", "asked", "answered"}, of : Records \cup {NoRecord},
          key : Tenants \cup {NoTenant}, entry : Entry]
NoFetch == [at |-> "none", of |-> NoRecord, key |-> NoTenant, entry |-> NoEntry]
Mutation == [at : {"none", "asked", "written", "over", "failed"},
             of : Records \cup {NoRecord}, key : Tenants \cup {NoTenant}, mounted : BOOLEAN]
EmptyCache == [t \in Tenants |-> NoEntry]

WebClientTypeOK ==
  /\ session \in Users \cup {NoUser} /\ chooser \in Users \cup {NoUser}
  /\ auth \in [status : {"loading", "unauthenticated"}, user : {NoUser}]
                \cup [status : {"authenticated"}, user : Users]
  /\ tenant \in Tenants \cup {NoTenant}
  /\ leaving \in BOOLEAN /\ astray \in BOOLEAN
  /\ page \in Records \cup {NoRecord}
  /\ cache \in [Tenants -> Entry]
  /\ fetch \in Fetch
  /\ save \in Mutation
  /\ elsewhere \subseteq Users
  /\ opened \subseteq Records

State(status, user) == [status |-> status, user |-> user]

WebClientInit ==
  /\ session = NoUser /\ chooser = NoUser
  /\ auth = State("loading", NoUser)
  /\ tenant = NoTenant
  /\ leaving = FALSE /\ astray = FALSE
  /\ page = NoRecord /\ cache = EmptyCache /\ fetch = NoFetch
  /\ save = [at |-> "none", of |-> NoRecord, key |-> NoTenant, mounted |-> FALSE]
  /\ elsewhere = {} /\ opened = {}

\* RequireAuth, RequireActiveContext and `enabled`: what is mounted, and may ask.
SignedIn == auth.status = "authenticated"
Enabled == SignedIn /\ tenant # NoTenant

-----------------------------------------------------------------------------
(* useTenantQuery, useTenantMutation                                       *)

\* Answers are looked up and stored under the tenant alone: params never hold the id.
Asks(record, key) == [at |-> "asked", of |-> record, key |-> key, entry |-> NoEntry]

\* A page that is mounted asks again, whatever the cache holds for it meanwhile.
OpenPage(record) ==
  /\ Enabled /\ page = NoRecord
  /\ page' = record
  /\ fetch' = Asks(record, tenant)
  /\ opened' = opened \cup {record}
  /\ UNCHANGED <<sessionVars, cache, save, astray>>

\* The key of the query is the same for the other record: nothing is asked.
SelectRecord(record) ==
  /\ Enabled /\ page \notin {NoRecord, record} /\ record[1] = page[1]
  /\ page' = record
  /\ opened' = opened \cup {record}
  /\ UNCHANGED <<sessionVars, cache, fetch, save, astray>>

Settled(how) == [save EXCEPT !.at = how, !.key = NoTenant, !.mounted = FALSE]
Unmounted == [save EXCEPT !.mounted = FALSE]

\* A query nobody observes is cancelled through its signal, and its entry stays; a mutation
\* goes on, with the tenant it had.
ClosePage ==
  /\ page # NoRecord
  /\ page' = NoRecord
  /\ fetch' = NoFetch
  /\ save' = Unmounted
  /\ UNCHANGED <<sessionVars, cache, opened, astray>>

\* The record as it is, or an ApiError: no such tenant, no permission, no network.
RequestIsAnswered ==
  LET is == [of |-> fetch.of, by |-> session,
             saved |-> save.of = fetch.of /\ save.at \in {"written", "over"}]
  IN /\ fetch.at = "asked"
     /\ \E ok \in BOOLEAN :
          /\ ok => session # NoUser /\ fetch.of[1] = fetch.key
          /\ fetch' = [fetch EXCEPT !.at = "answered", !.entry = IF ok THEN is ELSE NoEntry]
     /\ UNCHANGED <<sessionVars, page, cache, save, opened, astray>>

QueryIsSettled ==
  /\ fetch.at = "answered"
  /\ cache' = [cache EXCEPT ![fetch.key] = fetch.entry]
  /\ fetch' = NoFetch
  /\ UNCHANGED <<sessionVars, page, save, opened, astray>>

\* Mutate(): one at a time, for the record the address names.
Save ==
  /\ Enabled /\ page # NoRecord /\ page[1] = tenant /\ save.at = "none"
  /\ save' = [at |-> "asked", of |-> page, key |-> tenant, mounted |-> TRUE]
  /\ UNCHANGED <<sessionVars, page, cache, fetch, opened, astray>>

\* The tenant of the request is the one it was made under.
SaveIsAnswered ==
  /\ save.at = "asked"
  /\ \/ session # NoUser /\ save' = [save EXCEPT !.at = "written"]
     \/ save' = Settled("failed")
  /\ UNCHANGED <<sessionVars, page, cache, fetch, opened, astray>>

\* invalidateQueries() has a page under the key ask again, in place of what it had asked.
Invalidated ==
  IF Enabled /\ page # NoRecord /\ save.key = tenant THEN Asks(page, tenant) ELSE fetch

SaveSucceeds ==
  /\ save.at = "written"
  /\ save' = Settled("over")
  /\ fetch' = Invalidated
  /\ UNCHANGED <<sessionVars, page, cache, opened, astray>>

-----------------------------------------------------------------------------
(* SessionProvider                                                         *)

\* A network failure, like a 401, is taken for "not signed in".
IdentityArrives ==
  /\ auth.status = "loading"
  /\ auth' \in {State("unauthenticated", NoUser)}
                 \cup (IF session = NoUser THEN {} ELSE {State("authenticated", session)})
  /\ UNCHANGED <<session, tenant, leaving, chooser, elsewhere, queryVars>>

\* setActiveTenantId(): clear() cancels what is under way; a mounted page asks under its new
\* key, and its mutation, which goes on, is given the new tenant to invalidate.  Entering the
\* tenant that is already active changes no key, and is left out.
SetActiveTenantId(t) ==
  /\ SignedIn /\ t # tenant
  /\ tenant' = t
  /\ chooser' = IF t = NoTenant THEN NoUser ELSE auth.user
  /\ cache' = EmptyCache
  /\ page' = IF t = NoTenant THEN NoRecord ELSE page
  /\ fetch' = IF page' = NoRecord THEN NoFetch ELSE Asks(page, t)
  /\ opened' = {page'} \ {NoRecord}
  /\ LET follows == t # NoTenant /\ save.mounted /\ save.at \in {"asked", "written"} IN
       /\ save' = IF follows THEN [save EXCEPT !.key = t]
                  ELSE IF t = NoTenant THEN Unmounted ELSE save
       /\ astray' = (astray \/ follows)
  /\ UNCHANGED <<session, auth, leaving, elsewhere>>

SignOut ==
  /\ SignedIn /\ ~ leaving
  /\ leaving' = TRUE
  /\ UNCHANGED <<session, auth, tenant, chooser, elsewhere, queryVars>>

\* Mutation: signing out forgets the identity and nothing else.
TenantIsKept == tenant
TenantAfterSignOut == NoTenant

\* logout() has returned, or failed and left the session as it was.
SignedOut ==
  /\ leaving
  /\ leaving' = FALSE
  /\ session' \in {session, NoUser}
  /\ auth' = State("unauthenticated", NoUser)
  /\ tenant' = TenantAfterSignOut
  /\ chooser' = IF tenant' = NoTenant THEN NoUser ELSE chooser
  /\ cache' = EmptyCache /\ page' = NoRecord /\ fetch' = NoFetch /\ opened' = {}
  /\ save' = Unmounted
  /\ UNCHANGED <<elsewhere, astray>>

\* The page is loaded anew: only sessionStorage remains, where it is not blocked.
LoadedAnew(kept) ==
  /\ auth' = State("loading", NoUser)
  /\ tenant' = kept
  /\ chooser' = IF kept = NoTenant THEN NoUser ELSE chooser
  /\ leaving' = FALSE
  /\ cache' = EmptyCache /\ page' = NoRecord /\ fetch' = NoFetch /\ opened' = {}
  /\ save' = CASE save.at = "asked"   -> Settled("failed")
               [] save.at = "written" -> Settled("over")
               [] OTHER               -> save
  /\ UNCHANGED astray

Reload ==
  /\ \E kept \in {tenant, NoTenant} : LoadedAnew(kept)
  /\ UNCHANGED <<session, elsewhere>>

\* beginLogin() leaves the page; the identity provider sends someone back to it.
BeginLogin ==
  /\ auth.status = "unauthenticated"
  /\ session' \in Users
  /\ elsewhere' = elsewhere \cup ({session} \ {session', NoUser})
  /\ LoadedAnew(tenant)

-----------------------------------------------------------------------------
(* The session, outside this tab                                           *)

SessionEnds ==
  /\ session # NoUser
  /\ session' = NoUser
  /\ elsewhere' = elsewhere \cup {session}
  /\ UNCHANGED <<auth, tenant, leaving, chooser, queryVars>>

-----------------------------------------------------------------------------
WebClientNext ==
  \/ \E record \in Records : OpenPage(record) \/ SelectRecord(record)
  \/ ClosePage \/ RequestIsAnswered \/ QueryIsSettled
  \/ Save \/ SaveIsAnswered \/ SaveSucceeds
  \/ IdentityArrives \/ SignOut \/ SignedOut \/ Reload \/ BeginLogin \/ SessionEnds
  \/ \E t \in Tenants \cup {NoTenant} : SetActiveTenantId(t)

WebClientSpec == WebClientInit /\ [][WebClientNext]_webClientVars

-----------------------------------------------------------------------------
(* Properties                                                              *)

\* QueryState: what the open page shows, if it shows a record.
Shown == IF Enabled /\ page # NoRecord THEN cache[tenant] ELSE NoEntry
ShowsRecord == Shown.of # NoRecord

\* Part of ClientShowsItsContext.  TopBar.tsx, "a shared/kiosk browser never retains the
\* previous user's active tenant id or cached query results after they sign out": whoever
\* is signed in chose the tenant and fetched what is cached, unless a session ended
\* otherwise than by signing out here.
NextUserStartsClean ==
  SignedIn =>
    /\ chooser \in {auth.user, NoUser} \cup elsewhere
    /\ \A t \in Tenants : cache[t].by \in {auth.user, NoUser} \/ auth.user \in elsewhere

\* Part of ClientShowsItsContext.  What a detail page shows is a record of its tenant, opened
\* since the tenant was chosen, though it need not be the record the address names: the
\* keys leave the id out.  If it is that record, a page at rest shows what this tab has
\* saved of it, unless the tenant was changed during the save.
ShownRecordIsExcused ==
  ShowsRecord =>
    /\ Shown.of[1] = tenant /\ Shown.of \in opened
    /\ Shown.of = page /\ save.of = page /\ save.at = "over" /\ fetch = NoFetch =>
         Shown.saved \/ astray

\* The tab never shows what belongs to another context: another user, another tenant, or
\* another state of the record than the one this tab has brought about.
ClientShowsItsContext == NextUserStartsClean /\ ShownRecordIsExcused
=============================================================================
