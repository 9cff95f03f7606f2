--------------------------- MODULE WebClientProofs ---------------------------
(***************************************************************************)
(* A tab of the frontend shows nothing that belongs to another user, tenant *)
(* or state of a record, beyond what the keys of its cache allow.           *)
(***************************************************************************)
EXTENDS WebClient, TLAPS

LEMMA EntryTypes ==
  /\ NoEntry \in Entry /\ NoFetch \in Fetch
  /\ EmptyCache \in [Tenants -> Entry]
  /\ \A t \in Tenants : EmptyCache[t] = NoEntry
  /\ NoEntry.of = NoRecord /\ NoEntry.by = NoUser
  /\ NoFetch.at = "none" /\ NoFetch.entry = NoEntry
  BY DEF NoEntry, Entry, NoFetch, Fetch, EmptyCache

LEMMA AsksTypes ==
  ASSUME NEW record \in Records, NEW key \in Tenants
  PROVE  /\ Asks(record, key) \in Fetch
         /\ Asks(record, key).at = "asked" /\ Asks(record, key).of = record
         /\ Asks(record, key).key = key /\ Asks(record, key).entry = NoEntry
         /\ Asks(record, key) # NoFetch
  BY EntryTypes DEF Asks, Fetch, NoFetch

\* What ends a mutation leaves of it the record alone.
LEMMA SettledTypes ==
  ASSUME save \in Mutation, NEW how \in {"over", "failed"}
  PROVE  /\ Settled(how) \in Mutation
         /\ Settled(how).at = how /\ Settled(how).of = save.of
         /\ Unmounted \in Mutation
         /\ Unmounted.at = save.at /\ Unmounted.of = save.of /\ Unmounted.key = save.key
  BY DEF Settled, Unmounted, Mutation

LEMMA SavesTypes ==
  ASSUME save \in Mutation, NEW key \in Tenants, NEW how \in {"asked", "written"}
  PROVE  /\ [save EXCEPT !.key = key] \in Mutation
         /\ [save EXCEPT !.key = key].at = save.at /\ [save EXCEPT !.key = key].of = save.of
         /\ [save EXCEPT !.at = how] \in Mutation
         /\ [save EXCEPT !.at = how].at = how /\ [save EXCEPT !.at = how].of = save.of
         /\ [save EXCEPT !.at = how].key = save.key
  BY DEF Mutation

\* The mutation a reload leaves behind.
LEMMA ReloadedSave ==
  ASSUME WebClientTypeOK, NEW kept, LoadedAnew(kept)
  PROVE  /\ save' \in Mutation /\ save'.of = save.of
         /\ save'.at \notin {"asked", "written"}
         /\ save'.at = "over" => save.at \in {"written", "over"}
  <1>1. save \in Mutation
    BY DEF WebClientTypeOK
  <1>2. CASE save.at = "asked"
    BY <1>1, <1>2, SettledTypes DEF LoadedAnew
  <1>3. CASE save.at = "written"
    BY <1>1, <1>3, SettledTypes DEF LoadedAnew
  <1>4. CASE save.at \notin {"asked", "written"}
    BY <1>1, <1>4 DEF LoadedAnew
  <1> QED
    BY <1>2, <1>3, <1>4

\* What a request brings: nothing, or its record, as its session may see it.
AnsweredWith(entry) ==
  /\ fetch' = [fetch EXCEPT !.at = "answered", !.entry = entry]
  /\ \/ entry = NoEntry
     \/ /\ entry.of = fetch.of /\ entry.by = session /\ fetch.of[1] = fetch.key
        /\ entry.of = save.of /\ save.at = "over" => entry.saved

LEMMA AnswerIs ==
  ASSUME WebClientTypeOK, RequestIsAnswered
  PROVE  \E entry \in Entry : AnsweredWith(entry)
  <1> DEFINE is == [of |-> fetch.of, by |-> session,
                    saved |-> save.of = fetch.of /\ save.at \in {"written", "over"}]
  <1>1. is \in Entry
    BY DEF WebClientTypeOK, Entry, Fetch
  <1>2. PICK ok \in BOOLEAN :
          /\ ok => fetch.of[1] = fetch.key
          /\ fetch' = [fetch EXCEPT !.at = "answered", !.entry = IF ok THEN is ELSE NoEntry]
    BY DEF RequestIsAnswered
  <1>3. CASE ok
    BY <1>1, <1>2, <1>3 DEF AnsweredWith
  <1>4. CASE ~ ok
    BY <1>2, <1>4, EntryTypes DEF AnsweredWith
  <1> QED
    BY <1>3, <1>4

-----------------------------------------------------------------------------
(* Types                                                                   *)

LEMMA QueryTypes ==
  ASSUME WebClientTypeOK,
         \/ \E record \in Records : OpenPage(record) \/ SelectRecord(record)
         \/ ClosePage \/ RequestIsAnswered \/ QueryIsSettled
         \/ Save \/ SaveIsAnswered \/ SaveSucceeds
  PROVE  WebClientTypeOK'
  <1> USE DEF WebClientTypeOK, sessionVars
  <1>1. ASSUME NEW record \in Records, OpenPage(record)
        PROVE  WebClientTypeOK'
    <2>1. tenant \in Tenants
      BY <1>1 DEF OpenPage, Enabled
    <2> QED
      BY <1>1, <2>1, AsksTypes DEF OpenPage
  <1>2. ASSUME NEW record \in Records, SelectRecord(record)
        PROVE  WebClientTypeOK'
    BY <1>2 DEF SelectRecord
  <1>3. CASE ClosePage
    BY <1>3, EntryTypes, SettledTypes DEF ClosePage
  <1>4. CASE RequestIsAnswered
    <2>1. fetch' \in Fetch
      BY <1>4, AnswerIs DEF AnsweredWith, Fetch
    <2> QED
      BY <1>4, <2>1 DEF RequestIsAnswered
  <1>5. CASE QueryIsSettled
    <2>1. fetch.entry \in Entry
      BY DEF Fetch
    <2> QED
      BY <1>5, <2>1, EntryTypes DEF QueryIsSettled
  <1>6. CASE Save
    <2>1. save' \in Mutation
      BY <1>6 DEF Save, Mutation, Enabled
    <2> QED
      BY <1>6, <2>1 DEF Save
  <1>7. CASE SaveIsAnswered
    <2>1. CASE save' = [save EXCEPT !.at = "written"]
      <3>1. save' \in Mutation
        BY <2>1 DEF Mutation
      <3> QED
        BY <1>7, <3>1 DEF SaveIsAnswered
    <2>2. CASE save' = Settled("failed")
      <3>1. save' \in Mutation
        BY <2>2, SettledTypes
      <3> QED
        BY <1>7, <3>1 DEF SaveIsAnswered
    <2> QED
      BY <1>7, <2>1, <2>2 DEF SaveIsAnswered
  <1>8. CASE SaveSucceeds
    <2>1. fetch' \in Fetch
      BY <1>8, AsksTypes DEF SaveSucceeds, Invalidated, Enabled
    <2> QED
      BY <1>8, <2>1, SettledTypes DEF SaveSucceeds
  <1> QED
    BY <1>1, <1>2, <1>3, <1>4, <1>5, <1>6, <1>7, <1>8

LEMMA SessionTypes ==
  ASSUME WebClientTypeOK,
         \/ IdentityArrives \/ SignOut \/ SignedOut \/ Reload \/ BeginLogin \/ SessionEnds
         \/ \E t \in Tenants \cup {NoTenant} : SetActiveTenantId(t)
  PROVE  WebClientTypeOK'
  <1> USE DEF WebClientTypeOK, queryVars
  <1>1. CASE IdentityArrives
    BY <1>1 DEF IdentityArrives, State
  <1>2. CASE SignOut \/ SessionEnds
    BY <1>2 DEF SignOut, SessionEnds
  <1>3. CASE SignedOut
    BY <1>3, EntryTypes, SettledTypes DEF SignedOut, State, TenantAfterSignOut
  <1>4. ASSUME NEW kept \in Tenants \cup {NoTenant}, LoadedAnew(kept),
               session' \in Users \cup {NoUser}, elsewhere' \subseteq Users
        PROVE  WebClientTypeOK'
    BY <1>4, EntryTypes, ReloadedSave DEF LoadedAnew, State
  <1>5. CASE Reload \/ BeginLogin
    BY <1>4, <1>5 DEF Reload, BeginLogin
  <1>6. ASSUME NEW t \in Tenants \cup {NoTenant}, SetActiveTenantId(t)
        PROVE  WebClientTypeOK'
    <2>1. page' \in Records \cup {NoRecord} /\ (page' # NoRecord => t \in Tenants)
      BY <1>6 DEF SetActiveTenantId
    <2>2. fetch' \in Fetch /\ opened' \subseteq Records
      BY <1>6, <2>1, AsksTypes, EntryTypes DEF SetActiveTenantId
    <2>3. save' \in Mutation /\ astray' \in BOOLEAN
      BY <1>6, SettledTypes, SavesTypes DEF SetActiveTenantId
    <2>4. chooser' \in Users \cup {NoUser}
      BY <1>6 DEF SetActiveTenantId, SignedIn
    <2> QED
      BY <1>6, <2>1, <2>2, <2>3, <2>4, EntryTypes DEF SetActiveTenantId
  <1> QED
    BY <1>1, <1>2, <1>3, <1>5, <1>6

LEMMA WebClientTypedAtFirst == WebClientInit => WebClientTypeOK
  <1> SUFFICES ASSUME WebClientInit PROVE WebClientTypeOK
    OBVIOUS
  <1>1. auth \in [status : {"loading", "unauthenticated"}, user : {NoUser}]
    BY DEF WebClientInit, State
  <1>2. save \in Mutation
    BY DEF WebClientInit, Mutation
  <1>3. cache \in [Tenants -> Entry] /\ fetch \in Fetch
    BY EntryTypes DEF WebClientInit
  <1> QED
    BY <1>1, <1>2, <1>3 DEF WebClientInit, WebClientTypeOK

LEMMA TypeKept == WebClientTypeOK /\ [WebClientNext]_webClientVars => WebClientTypeOK'
  <1>1. CASE UNCHANGED webClientVars
    BY <1>1 DEF webClientVars, sessionVars, queryVars, WebClientTypeOK
  <1> QED
    BY <1>1, QueryTypes, SessionTypes DEF WebClientNext

\* Every variable of the tab keeps its type.
THEOREM WebClientTypeCorrect == WebClientSpec => []WebClientTypeOK
  BY WebClientTypedAtFirst, TypeKept, PTL DEF WebClientSpec

-----------------------------------------------------------------------------
(* What the tab shows                                                      *)

\* Who is signed in here is who the browser's session is, or was until it ended elsewhere;
\* nobody else has chosen the tenant.
SessionInvariant ==
  /\ chooser \in {session, NoUser} \cup elsewhere
  /\ SignedIn => \/ session = auth.user
                 \/ session = NoUser /\ auth.user \in elsewhere

\* An entry under a key was fetched by who is signed in, and is a record of that tenant.
FetchedUnder(entry, key) ==
  /\ entry.by \in {auth.user, NoUser} \/ auth.user \in elsewhere
  /\ entry.of # NoRecord => entry.of[1] = key /\ entry.of \in opened

\* A request is for the tenant the tab is in, and only an open page has one.
CacheInvariant ==
  /\ page = NoRecord => fetch = NoFetch
  /\ page # NoRecord => Enabled /\ page \in opened
  /\ fetch # NoFetch => fetch.key = tenant /\ fetch.of \in opened
  /\ FetchedUnder(fetch.entry, fetch.key)
  /\ \A t \in Tenants : FetchedUnder(cache[t], t)

\* An entry of the record that was saved holds what was saved.
HasSaved(entry) == entry.of # NoRecord /\ entry.of = save.of => entry.saved \/ astray

\* A save under way invalidates the key of its record, unless its tenant changed under it;
\* when it is over, an entry without it is one a page is about to replace.
SaveInvariant ==
  /\ save.at \in {"asked", "written"} =>
       save.of \in Records /\ (save.key = save.of[1] \/ astray)
  /\ save.at = "over" =>
       /\ HasSaved(fetch.entry)
       /\ page # NoRecord /\ fetch = NoFetch => HasSaved(cache[tenant])

ClientInvariant == WebClientTypeOK /\ SessionInvariant /\ CacheInvariant /\ SaveInvariant

\* No query and no mutation touches the session.
LEMMA QueriesLeaveSession ==
  ASSUME \/ \E record \in Records : OpenPage(record) \/ SelectRecord(record)
         \/ ClosePage \/ RequestIsAnswered \/ QueryIsSettled
         \/ Save \/ SaveIsAnswered \/ SaveSucceeds
  PROVE  UNCHANGED <<session, auth, tenant, chooser, elsewhere>>
  BY DEF OpenPage, SelectRecord, ClosePage, RequestIsAnswered, QueryIsSettled,
         Save, SaveIsAnswered, SaveSucceeds, sessionVars

LEMMA SessionKept ==
  ASSUME WebClientTypeOK, SessionInvariant, [WebClientNext]_webClientVars
  PROVE  SessionInvariant'
  <1> USE DEF SessionInvariant, SignedIn
  <1>1. CASE UNCHANGED <<session, auth, tenant, chooser, elsewhere>>
    BY <1>1
  <1>2. CASE IdentityArrives
    BY <1>2, WebClientAssumption DEF IdentityArrives, State
  <1>3. CASE SignedOut
    BY <1>3 DEF SignedOut, State, TenantAfterSignOut
  <1>4. CASE Reload
    BY <1>4 DEF Reload, LoadedAnew, State
  <1>5. CASE BeginLogin
    <2>1. chooser' \in {chooser, NoUser} /\ auth'.status = "loading"
      BY <1>5 DEF BeginLogin, LoadedAnew, State
    <2> QED
      BY <1>5, <2>1 DEF BeginLogin
  <1>6. CASE SessionEnds
    BY <1>6 DEF SessionEnds
  <1>7. ASSUME NEW t \in Tenants \cup {NoTenant}, SetActiveTenantId(t)
        PROVE  SessionInvariant'
    BY <1>7 DEF SetActiveTenantId
  <1>8. CASE SignOut \/ UNCHANGED webClientVars
    BY <1>1, <1>8 DEF SignOut, webClientVars, sessionVars
  <1> QED
    BY <1>1, <1>2, <1>3, <1>4, <1>5, <1>6, <1>7, <1>8, QueriesLeaveSession DEF WebClientNext

-----------------------------------------------------------------------------
\* Nothing is cached and nothing is asked, as after every change of context.
LEMMA EmptyCacheIsFine ==
  ASSUME cache' = EmptyCache, page' = NoRecord, fetch' = NoFetch
  PROVE  CacheInvariant'
  BY EntryTypes DEF CacheInvariant, FetchedUnder

LEMMA CacheKeptByQueries ==
  ASSUME WebClientTypeOK, SessionInvariant, CacheInvariant,
         \/ \E record \in Records : OpenPage(record) \/ SelectRecord(record)
         \/ ClosePage \/ RequestIsAnswered \/ QueryIsSettled
         \/ Save \/ SaveIsAnswered \/ SaveSucceeds
  PROVE  CacheInvariant'
  <1> UNCHANGED <<session, auth, tenant, elsewhere>>
    BY QueriesLeaveSession
  <1>0. Enabled' = Enabled
    BY DEF Enabled, SignedIn
  <1>1. ASSUME NEW record \in Records, OpenPage(record)
        PROVE  CacheInvariant'
    <2>1. /\ tenant \in Tenants /\ Enabled /\ record # NoRecord
          /\ page' = record /\ opened' = opened \cup {record} /\ UNCHANGED cache
      BY <1>1, WebClientAssumption DEF OpenPage, Enabled, WebClientTypeOK
    <2>2. /\ fetch'.of = record /\ fetch'.key = tenant /\ fetch'.entry = NoEntry
      BY <1>1, <2>1, AsksTypes DEF OpenPage
    <2>3. FetchedUnder(fetch.entry, fetch.key)' /\ \A t \in Tenants : FetchedUnder(cache[t], t)'
      BY <2>1, <2>2, EntryTypes DEF CacheInvariant, FetchedUnder
    <2> QED
      BY <1>0, <2>1, <2>2, <2>3 DEF CacheInvariant
  <1>2. ASSUME NEW record \in Records, SelectRecord(record)
        PROVE  CacheInvariant'
    BY <1>0, <1>2, WebClientAssumption DEF SelectRecord, CacheInvariant, FetchedUnder
  <1>3. CASE ClosePage
    BY <1>3, EntryTypes DEF ClosePage, CacheInvariant, FetchedUnder
  <1>4. CASE RequestIsAnswered
    <2> PICK entry \in Entry : AnsweredWith(entry)
      BY <1>4, AnswerIs
    <2>1. /\ fetch'.entry = entry /\ fetch'.key = fetch.key /\ fetch'.of = fetch.of
          /\ fetch # NoFetch
      BY <1>4, EntryTypes DEF AnsweredWith, RequestIsAnswered, WebClientTypeOK, Fetch
    <2>2. SignedIn /\ fetch.of \in opened
      BY <2>1 DEF CacheInvariant, Enabled
    <2>3. FetchedUnder(entry, fetch.key)
      BY <2>2, EntryTypes DEF AnsweredWith, FetchedUnder, SessionInvariant
    <2>4. UNCHANGED <<page, cache, opened>>
      BY <1>4 DEF RequestIsAnswered
    <2> QED
      BY <1>0, <2>1, <2>2, <2>3, <2>4 DEF CacheInvariant, FetchedUnder
  <1>5. CASE QueryIsSettled
    <2>1. \A t \in Tenants : cache'[t] = IF t = fetch.key THEN fetch.entry ELSE cache[t]
      BY <1>5 DEF QueryIsSettled, WebClientTypeOK
    <2> QED
      BY <1>0, <1>5, <2>1, EntryTypes DEF QueryIsSettled, CacheInvariant, FetchedUnder
  <1>6. CASE Save \/ SaveIsAnswered
    BY <1>0, <1>6 DEF Save, SaveIsAnswered, CacheInvariant, FetchedUnder
  <1>7. CASE SaveSucceeds
    <2>1. CASE fetch' = fetch
      BY <1>0, <1>7, <2>1 DEF SaveSucceeds, CacheInvariant, FetchedUnder
    <2>2. CASE Enabled /\ page # NoRecord /\ fetch' = Asks(page, tenant)
      <3>1. tenant \in Tenants /\ page \in Records
        BY <2>2 DEF Enabled, WebClientTypeOK
      <3> QED
        BY <1>0, <1>7, <2>2, <3>1, AsksTypes, EntryTypes
           DEF SaveSucceeds, CacheInvariant, FetchedUnder
    <2> QED
      BY <1>7, <2>1, <2>2 DEF SaveSucceeds, Invalidated
  <1> QED
    BY <1>1, <1>2, <1>3, <1>4, <1>5, <1>6, <1>7

LEMMA CacheKept ==
  ASSUME WebClientTypeOK, WebClientTypeOK', SessionInvariant, CacheInvariant,
         [WebClientNext]_webClientVars
  PROVE  CacheInvariant'
  <1>1. CASE IdentityArrives
    <2>1. ~ SignedIn /\ auth.user = NoUser /\ NoUser \notin elsewhere
      BY <1>1, WebClientAssumption DEF IdentityArrives, SignedIn, WebClientTypeOK
    <2>2. page = NoRecord /\ fetch = NoFetch
      BY <2>1 DEF CacheInvariant, Enabled
    <2>3. \A t \in Tenants : cache[t].by = NoUser
      BY <2>1 DEF CacheInvariant, FetchedUnder
    <2> QED
      BY <1>1, <2>2, <2>3, EntryTypes
         DEF IdentityArrives, queryVars, CacheInvariant, FetchedUnder
  <1>2. CASE SignOut \/ SessionEnds \/ UNCHANGED webClientVars
    BY <1>2 DEF SignOut, SessionEnds, webClientVars, sessionVars, queryVars,
                CacheInvariant, FetchedUnder, Enabled, SignedIn
  <1>3. CASE SignedOut \/ Reload \/ BeginLogin
    BY <1>3, EmptyCacheIsFine DEF SignedOut, Reload, BeginLogin, LoadedAnew
  <1>4. ASSUME NEW t \in Tenants \cup {NoTenant}, SetActiveTenantId(t)
        PROVE  CacheInvariant'
    <2>1. CASE page' = NoRecord
      BY <1>4, <2>1, EmptyCacheIsFine DEF SetActiveTenantId
    <2>2. CASE page' # NoRecord
      <3>1. /\ page' \in Records /\ t \in Tenants /\ tenant' = t
            /\ fetch' = Asks(page', t) /\ opened' = {page'} /\ cache' = EmptyCache
        BY <1>4, <2>2 DEF SetActiveTenantId, WebClientTypeOK
      <3>2. Enabled'
        BY <1>4, <3>1, WebClientAssumption DEF SetActiveTenantId, Enabled, SignedIn
      <3> QED
        BY <2>2, <3>1, <3>2, AsksTypes, EntryTypes DEF CacheInvariant, FetchedUnder
    <2> QED
      BY <2>1, <2>2
  <1> QED
    BY <1>1, <1>2, <1>3, <1>4, CacheKeptByQueries DEF WebClientNext

-----------------------------------------------------------------------------
LEMMA SaveKeptByQueries ==
  ASSUME WebClientTypeOK, WebClientTypeOK', CacheInvariant, SaveInvariant,
         \/ \E record \in Records : OpenPage(record) \/ SelectRecord(record)
         \/ ClosePage \/ RequestIsAnswered \/ QueryIsSettled
         \/ Save \/ SaveIsAnswered \/ SaveSucceeds
  PROVE  SaveInvariant'
  <1> UNCHANGED <<session, auth, tenant, elsewhere>>
    BY QueriesLeaveSession
  <1>1. ASSUME NEW record \in Records, OpenPage(record)
        PROVE  SaveInvariant'
    <2>1. tenant \in Tenants
      BY <1>1 DEF OpenPage, Enabled, WebClientTypeOK
    <2>2. UNCHANGED <<save, astray>> /\ fetch' = Asks(record, tenant)
      BY <1>1 DEF OpenPage
    <2> QED
      BY <2>1, <2>2, AsksTypes, EntryTypes DEF SaveInvariant, HasSaved
  <1>2. ASSUME NEW record \in Records, SelectRecord(record)
        PROVE  SaveInvariant'
    BY <1>2 DEF SelectRecord, SaveInvariant, HasSaved
  <1>3. CASE ClosePage
    <2>1. /\ page' = NoRecord /\ fetch' = NoFetch /\ astray' = astray
          /\ save'.at = save.at /\ save'.of = save.of /\ save'.key = save.key
      BY <1>3, SettledTypes DEF ClosePage, WebClientTypeOK
    <2> QED
      BY <2>1, EntryTypes DEF SaveInvariant, HasSaved
  <1>4. CASE RequestIsAnswered
    <2> PICK entry \in Entry : AnsweredWith(entry)
      BY <1>4, AnswerIs
    <2>1. /\ fetch'.entry = entry /\ fetch'.at = "answered"
          /\ UNCHANGED <<save, astray>>
      BY <1>4 DEF AnsweredWith, RequestIsAnswered, WebClientTypeOK, Fetch
    <2>2. fetch' # NoFetch
      BY <2>1, EntryTypes
    <2> QED
      BY <2>1, <2>2, EntryTypes DEF AnsweredWith, SaveInvariant, HasSaved
  <1>5. CASE QueryIsSettled
    <2>1. CASE page = NoRecord
      BY <1>5, <2>1, EntryTypes DEF QueryIsSettled, SaveInvariant, HasSaved
    <2>2. CASE page # NoRecord
      <3>1. fetch.key = tenant /\ tenant \in Tenants
        BY <1>5, <2>2, EntryTypes
           DEF QueryIsSettled, CacheInvariant, Enabled, WebClientTypeOK
      <3>2. cache'[tenant] = fetch.entry
        BY <1>5, <3>1 DEF QueryIsSettled, WebClientTypeOK
      <3> QED
        BY <1>5, <3>2, EntryTypes DEF QueryIsSettled, SaveInvariant, HasSaved
    <2> QED
      BY <2>1, <2>2
  <1>6. CASE Save
    <2>1. /\ save'.at = "asked" /\ save'.of = page /\ save'.key = tenant
          /\ page \in Records /\ page[1] = tenant
      BY <1>6 DEF Save, WebClientTypeOK
    <2> QED
      BY <2>1 DEF SaveInvariant
  <1>7. CASE SaveIsAnswered
    <2>1. CASE save' = [save EXCEPT !.at = "written"]
      <3>1. save'.at = "written" /\ save'.of = save.of /\ save'.key = save.key
        BY <2>1 DEF WebClientTypeOK, Mutation
      <3> QED
        BY <1>7, <3>1 DEF SaveIsAnswered, SaveInvariant
    <2>2. CASE save' = Settled("failed")
      <3>1. save'.at = "failed"
        BY <2>2, SettledTypes DEF WebClientTypeOK
      <3> QED
        BY <3>1 DEF SaveInvariant
    <2> QED
      BY <1>7, <2>1, <2>2 DEF SaveIsAnswered
  <1>8. CASE SaveSucceeds
    <2>1. /\ save'.at = "over" /\ save'.of = save.of /\ save.of \in Records
          /\ save.key = save.of[1] \/ astray
          /\ UNCHANGED <<page, cache, astray>>
      BY <1>8, SettledTypes DEF SaveSucceeds, SaveInvariant, WebClientTypeOK
    <2>2. CASE page # NoRecord /\ save.key = tenant
      <3>1. tenant \in Tenants /\ page \in Records /\ fetch' = Asks(page, tenant)
        BY <1>8, <2>2 DEF SaveSucceeds, Invalidated, CacheInvariant, Enabled, WebClientTypeOK
      <3> QED
        BY <2>1, <3>1, AsksTypes, EntryTypes DEF SaveInvariant, HasSaved
    <2>3. CASE page = NoRecord
      <3>1. fetch' = NoFetch
        BY <1>8, <2>3 DEF SaveSucceeds, Invalidated, CacheInvariant
      <3> QED
        BY <2>1, <2>3, <3>1, EntryTypes DEF SaveInvariant, HasSaved
    <2>4. CASE page # NoRecord /\ save.key # tenant
      <3>1. fetch' = fetch /\ tenant \in Tenants
        BY <1>8, <2>4 DEF SaveSucceeds, Invalidated, CacheInvariant, Enabled, WebClientTypeOK
      <3>2. cache[tenant].of # NoRecord => cache[tenant].of[1] = tenant
        BY <3>1 DEF CacheInvariant, FetchedUnder
      <3>3. fetch.entry.of # NoRecord => fetch.entry.of[1] = tenant
        BY EntryTypes DEF CacheInvariant, FetchedUnder
      <3> QED
        BY <2>1, <2>4, <3>1, <3>2, <3>3 DEF SaveInvariant, HasSaved
    <2> QED
      BY <2>2, <2>3, <2>4
  <1> QED
    BY <1>1, <1>2, <1>3, <1>4, <1>5, <1>6, <1>7, <1>8

LEMMA SaveKept ==
  ASSUME WebClientTypeOK, WebClientTypeOK', CacheInvariant, SaveInvariant,
         [WebClientNext]_webClientVars
  PROVE  SaveInvariant'
  <1>1. CASE IdentityArrives \/ SignOut \/ SessionEnds \/ UNCHANGED webClientVars
    <2>1. UNCHANGED <<page, tenant, cache, fetch, save, astray>>
      BY <1>1 DEF IdentityArrives, SignOut, SessionEnds, webClientVars, sessionVars, queryVars
    <2> QED
      BY <2>1 DEF SaveInvariant, HasSaved
  <1>2. CASE SignedOut
    <2>1. /\ page' = NoRecord /\ fetch' = NoFetch /\ astray' = astray
          /\ save'.at = save.at /\ save'.of = save.of /\ save'.key = save.key
      BY <1>2, SettledTypes DEF SignedOut, WebClientTypeOK
    <2> QED
      BY <2>1, EntryTypes DEF SaveInvariant, HasSaved
  <1>3. ASSUME NEW kept, LoadedAnew(kept)
        PROVE  SaveInvariant'
    <2>1. page' = NoRecord /\ fetch' = NoFetch /\ save'.at \notin {"asked", "written"}
      BY <1>3, ReloadedSave DEF LoadedAnew
    <2> QED
      BY <2>1, EntryTypes DEF SaveInvariant, HasSaved
  <1>4. ASSUME NEW t \in Tenants \cup {NoTenant}, SetActiveTenantId(t)
        PROVE  SaveInvariant'
    <2>1. fetch'.entry = NoEntry /\ (page' = NoRecord \/ fetch' # NoFetch)
      <3>1. CASE page' = NoRecord
        BY <1>4, <3>1, EntryTypes DEF SetActiveTenantId
      <3>2. CASE page' # NoRecord
        <4>1. page' \in Records /\ t \in Tenants /\ fetch' = Asks(page', t)
          BY <1>4, <3>2 DEF SetActiveTenantId, WebClientTypeOK
        <4> QED
          BY <4>1, AsksTypes
      <3> QED
        BY <3>1, <3>2
    <2>2. /\ save'.at = save.at /\ save'.of = save.of
          /\ astray' \/ (save'.key = save.key /\ astray' = astray)
      BY <1>4, SettledTypes, SavesTypes DEF SetActiveTenantId, WebClientTypeOK
    <2> QED
      BY <2>1, <2>2, EntryTypes DEF SaveInvariant, HasSaved
  <1> QED
    BY <1>1, <1>2, <1>3, <1>4, SaveKeptByQueries DEF WebClientNext, Reload, BeginLogin

-----------------------------------------------------------------------------
LEMMA ClientInvariantHolds == WebClientSpec => []ClientInvariant
  <1>1. WebClientInit => ClientInvariant
    <2> SUFFICES ASSUME WebClientInit PROVE ClientInvariant
      OBVIOUS
    <2>1. SessionInvariant
      BY DEF WebClientInit, SessionInvariant, SignedIn, State
    <2>2. CacheInvariant
      BY EntryTypes DEF WebClientInit, CacheInvariant, FetchedUnder
    <2>3. SaveInvariant
      BY EntryTypes DEF WebClientInit, SaveInvariant
    <2> QED
      BY <2>1, <2>2, <2>3, WebClientTypedAtFirst DEF ClientInvariant
  <1>2. ClientInvariant /\ [WebClientNext]_webClientVars => ClientInvariant'
    BY TypeKept, SessionKept, CacheKept, SaveKept DEF ClientInvariant
  <1> QED
    BY <1>1, <1>2, PTL DEF WebClientSpec

\* The tab never shows what belongs to another user, tenant or state of a record, beyond
\* what a session that ended elsewhere or a save that lost its tenant excuses.
THEOREM ClientShowsItsContextHolds == WebClientSpec => []ClientShowsItsContext
  <1>1. ClientInvariant => NextUserStartsClean
    BY DEF ClientInvariant, SessionInvariant, CacheInvariant, FetchedUnder,
           NextUserStartsClean, SignedIn
  <1>2. ClientInvariant => ShownRecordIsExcused
    <2> SUFFICES ASSUME ClientInvariant, ShowsRecord
                 PROVE  /\ Shown.of[1] = tenant /\ Shown.of \in opened
                        /\ Shown.of = page /\ save.of = page /\ save.at = "over"
                             /\ fetch = NoFetch => Shown.saved \/ astray
      BY DEF ShownRecordIsExcused
    <2>1. tenant \in Tenants /\ page # NoRecord /\ Shown = cache[tenant]
      BY EntryTypes DEF ClientInvariant, WebClientTypeOK, ShowsRecord, Shown, Enabled
    <2>2. cache[tenant].of # NoRecord
      BY <2>1 DEF ShowsRecord
    <2>3. cache[tenant].of[1] = tenant /\ cache[tenant].of \in opened
      BY <2>1, <2>2 DEF ClientInvariant, CacheInvariant, FetchedUnder
    <2> QED
      BY <2>1, <2>2, <2>3 DEF ClientInvariant, SaveInvariant, HasSaved
  <1> QED
    BY <1>1, <1>2, ClientInvariantHolds, PTL DEF ClientShowsItsContext
=============================================================================
