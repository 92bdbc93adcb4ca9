------------------------------- MODULE Session -------------------------------
(***************************************************************************)
(* Who acts.  The account a device's tabs send their requests as (ADR 0027): *)
(* MSAL's cache of accounts and its designation of an active one, shared by  *)
(* the tabs through localStorage; and the row of the users table that a      *)
(* service makes of the token it verified (ADR 0012, DEV-124).               *)
(*                                                                         *)
(* MSAL and Entra are modelled from their use: a token is granted for the    *)
(* account it is asked for, and with the response that account is cached.    *)
(***************************************************************************)
EXTENDS Naturals, Sequences, SequencesExt

CONSTANTS
  Accounts,
  AllowedSets, \* which of them may have one of the roles the app is for
  Windows, Hits, \* pages of the app, and requests that reach the Core API
  NoAccount

ASSUME AccountAssumption ==
  NoAccount \notin Accounts /\ IsFiniteSet(Accounts) /\ AllowedSets \subseteq SUBSET Accounts

VARIABLES
  cache, active,  \* localStorage: cached accounts, oldest first, and the active one
  window, accounts,  \* each page, and the account list its React tree has
  page,           \* what AuthGuard last rendered
  coming,         \* the account of a redirect response not yet handled
  renewing,       \* acquireTokenSilent waits for a token of this account
  chosen,         \* history: who last signed in here, unless signed out
  misattributed,  \* history: a request was sent as another than the chosen one
  crossed,        \* history: a token came for another account than the chosen one
  hit,            \* each request in the Core API
  users,          \* core_db: ids that have a row, and the emails of all rows
  provisionedIds,
  allowed         \* the accounts with such a role

storageVars == <<cache, active>>
windowVars     == <<window, accounts, page, coming, renewing>>
choiceVars  == <<chosen, misattributed, crossed>>
deviceVars  == <<storageVars, windowVars, choiceVars>>
serverVars  == <<hit, users, provisionedIds>>
sessionVars == <<deviceVars, serverVars, allowed>>

-----------------------------------------------------------------------------
(* The account of a request, and the page of an account *)

(* getActiveAccount: the designation, else the first account of the page's list *)
ActiveAccount(t) ==
  IF active # NoAccount THEN active
  ELSE IF accounts[t] # <<>> THEN Head(accounts[t]) ELSE NoAccount

(* AuthGuard, with an account list *)
PageFor(list) ==
  IF list = <<>> THEN "login"
  ELSE IF (IF active # NoAccount THEN active ELSE Head(list)) \in allowed THEN "app"
  ELSE "unauthorized"

Mount(t, list) ==
  /\ window' = [window EXCEPT ![t] = "open"]
  /\ accounts' = [accounts EXCEPT ![t] = list]

(* A page goes with its promises. *)
Leave(t, where) ==
  /\ window' = [window EXCEPT ![t] = where]
  /\ accounts' = [accounts EXCEPT ![t] = <<>>]
  /\ page' = [page EXCEPT ![t] = "none"]
  /\ renewing' = [renewing EXCEPT ![t] = NoAccount]

-----------------------------------------------------------------------------
(* Loading a page: MsalProviderWrapper and wireActiveAccount *)

LoadPage(t) ==
  /\ window[t] \in {"closed", "open"}
  /\ Leave(t, "wiring")
  /\ UNCHANGED <<storageVars, coming, choiceVars, serverVars, allowed>>

(* faulty: the first cached account is promoted, however many there are *)
WireFirstAccount(t) ==
  /\ window[t] = "wiring"
  /\ active' = IF active = NoAccount /\ cache # <<>> THEN Head(cache) ELSE active
  /\ Mount(t, cache)
  /\ UNCHANGED <<cache, page, coming, renewing, choiceVars, serverVars, allowed>>

(* One cached account is the one; of several with no designation none is guessed,  *)
(* and the page waits until all are gone.                                       *)
WireActiveAccount(t) ==
  /\ window[t] = "wiring"
  /\ IF active = NoAccount /\ Len(cache) > 1
     THEN /\ window' = [window EXCEPT ![t] = "clearing"]
          /\ UNCHANGED <<active, accounts>>
     ELSE /\ active' = IF active = NoAccount /\ Len(cache) = 1 THEN Head(cache) ELSE active
          /\ Mount(t, cache)
  /\ UNCHANGED <<cache, page, coming, renewing, choiceVars, serverVars, allowed>>

(* clearCache settles, whatever another page has cached meanwhile *)
CacheCleared(t) ==
  /\ window[t] = "clearing"
  /\ cache' = <<>> /\ active' = NoAccount
  /\ chosen' = NoAccount
  /\ Mount(t, <<>>)
  /\ UNCHANGED <<page, coming, renewing, misattributed, crossed, serverVars, allowed>>

(* faulty: an account that signs in again is cached twice *)
HandleRedirectTwice(t) ==
  /\ window[t] = "open" /\ coming[t] # NoAccount
  /\ cache' = Append(cache, coming[t])
  /\ active' = coming[t] /\ chosen' = coming[t]
  /\ accounts' = [accounts EXCEPT ![t] = cache']
  /\ coming' = [coming EXCEPT ![t] = NoAccount]
  /\ UNCHANGED <<window, page, renewing, misattributed, crossed, serverVars, allowed>>

(* Once mounted, MSAL takes up the redirect response: LOGIN_SUCCESS, or the success *)
(* of a token asked for by redirect.                                             *)
HandleRedirect(t) ==
  /\ window[t] = "open" /\ coming[t] # NoAccount
  /\ cache' = IF coming[t] \in ToSet(cache) THEN cache ELSE Append(cache, coming[t])
  /\ active' = coming[t] /\ chosen' = coming[t]
  /\ accounts' = [accounts EXCEPT ![t] = cache']
  /\ coming' = [coming EXCEPT ![t] = NoAccount]
  /\ UNCHANGED <<window, page, renewing, misattributed, crossed, serverVars, allowed>>

(* AuthGuard waits for the response.  A page is rendered again for reasons of its   *)
(* own, but not because the designation changed.                                  *)
Render(t) ==
  /\ window[t] = "open" /\ coming[t] = NoAccount
  /\ \E list \in {accounts[t], cache} :
       /\ accounts' = [accounts EXCEPT ![t] = list]
       /\ page' = [page EXCEPT ![t] = PageFor(list)]
  /\ <<accounts', page'>> # <<accounts, page>>
  /\ UNCHANGED <<window, storageVars, coming, renewing, choiceVars, serverVars, allowed>>

-----------------------------------------------------------------------------
(* Signing in and out *)

(* loginRedirect *)
SignIn(t) ==
  /\ window[t] = "open" /\ page[t] = "login"
  /\ Leave(t, "away")
  /\ UNCHANGED <<storageVars, coming, choiceVars, serverVars, allowed>>

(* AccountMenu and SwitchAccountButton: the whole cache goes, not one account *)
SignOut(t) ==
  /\ window[t] = "open" /\ page[t] \in {"app", "unauthorized"}
  /\ cache' = <<>> /\ active' = NoAccount
  /\ chosen' = NoAccount
  /\ Leave(t, "away")
  /\ UNCHANGED <<coming, misattributed, crossed, serverVars, allowed>>

(* Entra sends the browser back: with the account the user picked, or without *)
ReturnFromEntra(t, a) ==
  /\ window[t] = "away"
  /\ window' = [window EXCEPT ![t] = "wiring"]
  /\ coming' = [coming EXCEPT ![t] = a]
  /\ UNCHANGED <<storageVars, accounts, page, renewing, choiceVars, serverVars, allowed>>

-----------------------------------------------------------------------------
(* Requests: acquireApiToken and acquireApiTokenSilent *)

SendAs(a) == misattributed' = (misattributed \/ a # chosen)

(* A token in the cache answers at once; one to renew takes a while. *)
AcquireToken(t) ==
  /\ window[t] = "open" /\ page[t] = "app" /\ renewing[t] = NoAccount
  /\ LET a == ActiveAccount(t) IN
       /\ a \in ToSet(cache)
       /\ \/ /\ active' = a
             /\ SendAs(a)
             /\ UNCHANGED renewing
          \/ /\ renewing' = [renewing EXCEPT ![t] = a]
             /\ UNCHANGED <<active, misattributed>>
  /\ UNCHANGED <<cache, window, accounts, page, coming, chosen, crossed, serverVars, allowed>>

(* ACQUIRE_TOKEN_SUCCESS: the account of the token becomes the active one, of every *)
(* window, even if another has signed in or out meanwhile.                          *)
TokenRenewed(t) ==
  /\ renewing[t] # NoAccount
  /\ LET a == renewing[t] IN
       /\ cache' = IF a \in ToSet(cache) THEN cache ELSE Append(cache, a)
       /\ active' = a
       /\ crossed' = (crossed \/ a # chosen)
       /\ SendAs(a)
  /\ renewing' = [renewing EXCEPT ![t] = NoAccount]
  /\ UNCHANGED <<window, accounts, page, coming, chosen, serverVars, allowed>>

(* InteractionRequiredAuthError: behind a user's action the page goes to Entra for   *)
(* the token, on a timer it does without.                                         *)
TokenRefused(t) ==
  /\ window[t] = "open" /\ page[t] = "app"
  /\ renewing[t] # NoAccount \/ ActiveAccount(t) \notin ToSet(cache)
  /\ \/ Leave(t, "away")
     \/ /\ renewing[t] # NoAccount
        /\ renewing' = [renewing EXCEPT ![t] = NoAccount]
        /\ UNCHANGED <<window, accounts, page>>
  /\ UNCHANGED <<storageVars, coming, choiceVars, serverVars, allowed>>

-----------------------------------------------------------------------------
(* The Core API: requireRole and ensureUserProvisioned *)

HitStates == [by : Accounts \cup {NoAccount},
              at : {"none", "verified", "inserting", "handling"}, failed : BOOLEAN]

Idle == [by |-> NoAccount, at |-> "none", failed |-> FALSE]

(* A token that does not verify, or is of no role the route is for, ends here. *)
VerifyToken(h, a) ==
  /\ hit[h] = Idle
  /\ a \in allowed
  /\ hit' = [hit EXCEPT ![h] = [by |-> a, at |-> "verified", failed |-> FALSE]]
  /\ UNCHANGED <<deviceVars, users, provisionedIds, allowed>>

EnsureUserProvisioned(h) ==
  /\ hit[h].at = "verified"
  /\ hit' = [hit EXCEPT ![h].at = IF hit[h].by \in provisionedIds THEN "handling" ELSE "inserting"]
  /\ UNCHANGED <<deviceVars, users, provisionedIds, allowed>>

(* onConflictDoNothing on the id; an email another row has makes the insert throw,   *)
(* as a failing database does.  That is swallowed, and nothing is cached.           *)
ProvisionUser(h) ==
  /\ hit[h].at = "inserting"
  /\ \/ /\ hit[h].by \in users.ids \/ hit[h].by \notin users.emails
        /\ users' = [ids |-> users.ids \cup {hit[h].by}, emails |-> users.emails \cup {hit[h].by}]
        /\ provisionedIds' = provisionedIds \cup {hit[h].by}
        /\ hit' = [hit EXCEPT ![h].at = "handling"]
     \/ /\ hit' = [hit EXCEPT ![h].at = "handling", ![h].failed = TRUE]
        /\ UNCHANGED <<users, provisionedIds>>
  /\ UNCHANGED <<deviceVars, allowed>>

(* The route writes the id as a foreign key, or does not. *)
Respond(h) ==
  /\ hit[h].at = "handling"
  /\ hit' = [hit EXCEPT ![h] = Idle]
  /\ UNCHANGED <<deviceVars, users, provisionedIds, allowed>>

CoreApiRestarts ==
  /\ provisionedIds # {} \/ \E h \in Hits : hit[h] # Idle
  /\ provisionedIds' = {}
  /\ hit' = [h \in Hits |-> Idle]
  /\ UNCHANGED <<deviceVars, users, allowed>>

-----------------------------------------------------------------------------
(* A device may hold several accounts of an earlier version of the app, the last of *)
(* which signed in last but is not designated.                                    *)
SessionInit ==
  /\ \E last \in Accounts \cup {NoAccount}, others \in SUBSET Accounts :
       /\ last = NoAccount => others = {}
       /\ cache = SetToSeq(others \ {last}) \o (IF last = NoAccount THEN <<>> ELSE <<last>>)
       /\ chosen = last
       /\ active \in {NoAccount, last}
  /\ window = [t \in Windows |-> "closed"] /\ accounts = [t \in Windows |-> <<>>]
  /\ page = [t \in Windows |-> "none"]
  /\ coming = [t \in Windows |-> NoAccount] /\ renewing = [t \in Windows |-> NoAccount]
  /\ misattributed = FALSE /\ crossed = FALSE
  /\ allowed \in AllowedSets
  /\ hit = [h \in Hits |-> Idle] /\ provisionedIds = {}
  /\ \E ids, emails \in SUBSET Accounts :
       ids \subseteq emails /\ users = [ids |-> ids, emails |-> emails]

DeviceNext ==
  \E t \in Windows :
    \/ LoadPage(t) \/ WireActiveAccount(t) \/ CacheCleared(t) \/ HandleRedirect(t) \/ Render(t)
    \/ SignIn(t) \/ SignOut(t) \/ AcquireToken(t) \/ TokenRenewed(t) \/ TokenRefused(t)
    \/ \E a \in Accounts \cup {NoAccount} : ReturnFromEntra(t, a)

ProvisionNext ==
  \/ \E h \in Hits : \/ \E a \in Accounts : VerifyToken(h, a)
                     \/ EnsureUserProvisioned(h) \/ ProvisionUser(h) \/ Respond(h)
  \/ CoreApiRestarts

SessionNext == DeviceNext \/ ProvisionNext

SessionSpec == SessionInit /\ [][SessionNext]_sessionVars

-----------------------------------------------------------------------------
SessionTypeOK ==
  /\ cache \in Seq(Accounts) /\ IsInjective(cache)
  /\ active \in Accounts \cup {NoAccount} /\ chosen \in Accounts \cup {NoAccount}
  /\ window \in [Windows -> {"closed", "wiring", "clearing", "open", "away"}]
  /\ accounts \in [Windows -> Seq(Accounts)]
  /\ page \in [Windows -> {"none", "login", "unauthorized", "app"}]
  /\ coming \in [Windows -> Accounts \cup {NoAccount}]
  /\ renewing \in [Windows -> Accounts \cup {NoAccount}]
  /\ misattributed \in BOOLEAN /\ crossed \in BOOLEAN
  /\ hit \in [Hits -> HitStates]
  /\ users \in [ids : SUBSET Accounts, emails : SUBSET Accounts]
  /\ provisionedIds \subseteq Accounts /\ allowed \in AllowedSets

(* Every request is sent as the account that last signed in on the device, whatever  *)
(* tabs sign in and out around it and whatever the cache held before, unless a       *)
(* renewal begun for another account came in between (active-account.ts:45-51); and  *)
(* the service knows whom it serves: an id it no longer inserts has its row, and a   *)
(* request goes on without one only if the insert failed (user-provisioning.ts:52).  *)
ActsAsChosen ==
  /\ misattributed => crossed
  /\ provisionedIds \subseteq users.ids
  /\ \A h \in Hits : hit[h].at = "handling" => hit[h].by \in users.ids \/ hit[h].failed
==============================================================================
