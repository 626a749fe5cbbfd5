-------------------------------- MODULE AppKeys --------------------------------
(***************************************************************************)
(* Connecting applications (api/app/app.go, accounts/connect.go,           *)
(* persist/postgres/apps.go, quotas.go).  An application asks for a        *)
(* connection, a user approves it with a connect key or a pre-authorized   *)
(* key approves it at once, the application polls for its secret and       *)
(* registers its key as an account.  Requests live in memory under a       *)
(* mutex, keys and accounts in the database at READ COMMITTED.             *)
(***************************************************************************)
EXTENDS Integers, FiniteSets

CONSTANTS
    ConnectKeys, Quotas,
    AppKeySet,        \* public keys applications register
    AuthRequests,     \* connection requests
    AppOf,            \* [AuthRequests -> AppKeySet]: the key the application will register
    Clients,          \* concurrent calls of the register handler
    UseLimits,        \* values total_uses of a quota may have
    PreUses,          \* uses of a pre-authorized key
    MaxKeyChanges     \* bound: changes the operator makes

ASSUME AppKeysAssumption ==
    /\ AppOf \in [AuthRequests -> AppKeySet] /\ UseLimits \subseteq Nat
    /\ IsFiniteSet(AuthRequests) /\ IsFiniteSet(AppKeySet) /\ PreUses \in Nat /\ MaxKeyChanges \in Nat

NoKey     == "none"
NoReq     == [state |-> "none"]
NoCall    == [pc |-> "none"]

VARIABLES
    totalUses,    \* quotas: the registrations each allows, or -1 without a row
    quotaOf,      \* app_connect_keys: the quota of each, or NoKey without a row
    account,      \* accounts: "none", "live" or "deleted", with its connect key
    preKey,       \* the pre-authorized key: its connect key and remaining uses
    request,      \* authRequests
    call,         \* register calls in progress
    rowLock,      \* the call that holds the row of a connect key
    secret,       \* history: the connect key whose secret the application was given
    grants,       \* history: accounts registered from a request
    accepted,     \* history: applications told that they are registered
    keyChanges    \* operator changes so far

keyTables == <<totalUses, quotaOf, account, preKey>>
keyVars   == <<keyTables, request, call, rowLock, secret, grants, accepted, keyChanges>>

KeysInit ==
    /\ totalUses \in [Quotas -> UseLimits] /\ quotaOf \in [ConnectKeys -> Quotas]
    /\ account = [a \in AppKeySet |-> [state |-> "none", key |-> NoKey]]
    /\ preKey \in {[key |-> k, left |-> PreUses] : k \in ConnectKeys}
    /\ request = [r \in AuthRequests |-> NoReq] /\ call = [c \in Clients |-> NoCall]
    /\ rowLock = [k \in ConnectKeys |-> NoKey]
    /\ secret = [r \in AuthRequests |-> NoKey] /\ grants = [r \in AuthRequests |-> 0]
    /\ accepted = {} /\ keyChanges = 0

LiveAccounts(k) == {a \in AppKeySet : account[a].state = "live" /\ account[a].key = k}
AccountsOf(k)   == {a \in AppKeySet : account[a].state # "none" /\ account[a].key = k}
Exists(k)       == k # NoKey /\ quotaOf[k] # NoKey

-----------------------------------------------------------------------------
(***************************************************************************)
(* Requests and approval                                                   *)
(***************************************************************************)

(* ConsumePreAuthorizedKey takes one use in a single update.                *)
Consumable == preKey.left > 0 /\ Exists(preKey.key)

(* A request is new, its id is not used again; with a pre-authorized key it *)
(* is approved at once.                                                     *)
AuthRequest(r, pre) ==
    /\ request[r] = NoReq /\ secret[r] = NoKey /\ grants[r] = 0
    /\ \A c \in Clients : call[c] # NoCall => call[c].req # r
    /\ pre => Consumable
    /\ preKey' = IF pre THEN [preKey EXCEPT !.left = @ - 1] ELSE preKey
    /\ request' = [request EXCEPT ![r] = [state |-> IF pre THEN "approved" ELSE "open",
                                          key |-> IF pre THEN preKey.key ELSE NoKey]]
    /\ UNCHANGED <<totalUses, quotaOf, account, call, rowLock, secret, grants, accepted, keyChanges>>

Approvable(r) == request[r] # NoReq /\ request[r].state = "open"

(* A user approves with a connect key; a request that is approved already   *)
(* is left alone.                                                           *)
ApproveConnect(r, k) ==
    /\ Approvable(r) /\ Exists(k)
    /\ request' = [request EXCEPT ![r] = [state |-> "approved", key |-> k]]
    /\ UNCHANGED <<keyTables, call, rowLock, secret, grants, accepted, keyChanges>>

(* The user rejects the request, or it expires.                             *)
DropRequest(r) ==
    /\ request[r] # NoReq
    /\ request' = [request EXCEPT ![r] = NoReq]
    /\ UNCHANGED <<keyTables, call, rowLock, secret, grants, accepted, keyChanges>>

(* The application polls for the outcome, signing with its ephemeral key.   *)
AuthConnectStatus(r) ==
    /\ request[r] # NoReq /\ request[r].state = "approved"
    /\ secret' = [secret EXCEPT ![r] = request[r].key]
    /\ UNCHANGED <<keyTables, request, call, rowLock, grants, accepted, keyChanges>>

-----------------------------------------------------------------------------
(***************************************************************************)
(* Registration                                                            *)
(***************************************************************************)

KeptRequest(r) == request
ConsumedRequest(r) == [request EXCEPT ![r] = NoReq]

(* handleAuthRegister consumes the approved request under the mutex,        *)
(* whether or not the application has asked for its secret.                 *)
AuthRegister(c, r) ==
    /\ call[c] = NoCall
    /\ request[r] # NoReq /\ request[r].state = "approved"
    /\ request' = ConsumedRequest(r)
    /\ call' = [call EXCEPT ![c] = [pc |-> "count", req |-> r, key |-> request[r].key, left |-> 0]]
    /\ UNCHANGED <<keyTables, rowLock, secret, grants, accepted, keyChanges>>

Return(c) == call' = [call EXCEPT ![c] = NoCall]

(* The statement that touches the connect key and counts its accounts sees  *)
(* the accounts committed when it starts.                                   *)
CountUses(c) ==
    /\ call[c].pc = "count"
    /\ LET k == call[c].key IN
       IF Exists(k)
       THEN call' = [call EXCEPT ![c].pc = "lock",
                                 ![c].left = totalUses[quotaOf[k]] - Cardinality(LiveAccounts(k))]
       ELSE Return(c)
    /\ UNCHANGED <<keyTables, request, rowLock, secret, grants, accepted, keyChanges>>

(* It waits for the row; the count is not taken again.                      *)
LockKey(c) ==
    /\ call[c].pc = "lock"
    /\ LET k == call[c].key IN
       \/ ~Exists(k) /\ Return(c) /\ UNCHANGED rowLock
       \/ /\ Exists(k) /\ rowLock[k] = NoKey
          /\ rowLock' = [rowLock EXCEPT ![k] = c]
          /\ call' = [call EXCEPT ![c].pc = "add"]
    /\ UNCHANGED <<keyTables, request, secret, grants, accepted, keyChanges>>

(* addAccount: a row that exists is success for the application; a new one  *)
(* is rolled back when no use was left.  The transaction may also fail, and *)
(* the request is gone all the same.                                        *)
AddAccount(c) ==
    /\ call[c].pc = "add"
    /\ LET k == call[c].key
           r == call[c].req
           a == AppOf[r]
       IN  \/ /\ account[a].state # "none"
              /\ accepted' = accepted \cup {a}
              /\ UNCHANGED <<account, grants>>
           \/ /\ account[a].state = "none" /\ call[c].left > 0
              /\ account' = [account EXCEPT ![a] = [state |-> "live", key |-> k]]
              /\ grants' = [grants EXCEPT ![r] = @ + 1]
              /\ accepted' = accepted \cup {a}
           \/ UNCHANGED <<account, grants, accepted>>
    /\ rowLock' = [rowLock EXCEPT ![call[c].key] = NoKey]
    /\ Return(c)
    /\ UNCHANGED <<totalUses, quotaOf, preKey, request, secret, keyChanges>>

-----------------------------------------------------------------------------
(***************************************************************************)
(* The operator                                                            *)
(***************************************************************************)

Change == keyChanges < MaxKeyChanges /\ keyChanges' = keyChanges + 1

PutQuota(q, n) ==
    /\ Change /\ totalUses' = [totalUses EXCEPT ![q] = n]
    /\ UNCHANGED <<quotaOf, account, preKey, request, call, rowLock, secret, grants, accepted>>

(* A quota in use by a connect key is kept.                                 *)
DeleteQuota(q) ==
    /\ Change /\ totalUses[q] >= 0 /\ \A k \in ConnectKeys : quotaOf[k] # q
    /\ totalUses' = [totalUses EXCEPT ![q] = -1]
    /\ UNCHANGED <<quotaOf, account, preKey, request, call, rowLock, secret, grants, accepted>>

PutConnectKey(k, q) ==
    /\ Change /\ totalUses[q] >= 0 /\ rowLock[k] = NoKey
    /\ quotaOf' = [quotaOf EXCEPT ![k] = q]
    /\ UNCHANGED <<totalUses, account, preKey, request, call, rowLock, secret, grants, accepted>>

(* Only a key without accounts can be deleted: accounts refer to it.  Its   *)
(* pre-authorized keys go with it.                                          *)
DeleteConnectKey(k) ==
    /\ Change /\ Exists(k) /\ AccountsOf(k) = {} /\ rowLock[k] = NoKey
    /\ quotaOf' = [quotaOf EXCEPT ![k] = NoKey]
    /\ preKey' = IF preKey.key = k THEN [preKey EXCEPT !.left = 0] ELSE preKey
    /\ UNCHANGED <<totalUses, account, request, call, rowLock, secret, grants, accepted>>

(* The pre-authorized key is deleted, or expires and is pruned.             *)
DropPreAuthorizedKey ==
    /\ Change /\ preKey.left > 0
    /\ preKey' = [preKey EXCEPT !.left = 0]
    /\ UNCHANGED <<totalUses, quotaOf, account, request, call, rowLock, secret, grants, accepted>>

(* DeleteAccount marks the account, PruneAccounts removes it.               *)
DeleteAccount(a) ==
    /\ Change /\ account[a].state = "live"
    /\ account' = [account EXCEPT ![a].state = "deleted"] /\ accepted' = accepted \ {a}
    /\ UNCHANGED <<totalUses, quotaOf, preKey, request, call, rowLock, secret, grants>>

PruneAccounts(a) ==
    /\ account[a].state = "deleted"
    /\ account' = [account EXCEPT ![a] = [state |-> "none", key |-> NoKey]]
    /\ UNCHANGED <<totalUses, quotaOf, preKey, request, call, rowLock, secret, grants, accepted, keyChanges>>

KeysNext ==
    \/ \E r \in AuthRequests :
          \/ \E pre \in BOOLEAN : AuthRequest(r, pre)
          \/ \E k \in ConnectKeys : ApproveConnect(r, k)
          \/ DropRequest(r) \/ AuthConnectStatus(r)
          \/ \E c \in Clients : AuthRegister(c, r)
    \/ \E c \in Clients : CountUses(c) \/ LockKey(c) \/ AddAccount(c)
    \/ \E q \in Quotas : DeleteQuota(q) \/ \E n \in UseLimits : PutQuota(q, n)
    \/ \E k \in ConnectKeys : DeleteConnectKey(k) \/ \E q \in Quotas : PutConnectKey(k, q)
    \/ DropPreAuthorizedKey
    \/ \E a \in AppKeySet : DeleteAccount(a) \/ PruneAccounts(a)

KeysSpec == KeysInit /\ [][KeysNext]_keyVars

-----------------------------------------------------------------------------
(***************************************************************************)
(* Properties                                                              *)
(***************************************************************************)

(* One approval registers at most one account, however often and however    *)
(* concurrently the register call is sent (handleAuthRegister).             *)
OneAccountPerApproval ==
    \A r \in AuthRequests :
        /\ grants[r] <= 1
        /\ \A c, d \in Clients : call[c] # NoCall /\ call[d] # NoCall /\ call[c].req = call[d].req => c = d

(* The connect key an account is registered under is the one whose secret   *)
(* its application was given, if it was given one, though users may race to *)
(* approve the request with different keys (handlePOSTAuthConnect).         *)
SecretMatchesKey ==
    \A c \in Clients : call[c] # NoCall => secret[call[c].req] \in {NoKey, call[c].key}

(* Registrations are the ones that were approved, once and with the key     *)
(* that approved them.                                                      *)
RegistrationsApproved == OneAccountPerApproval /\ SecretMatchesKey

(* A new account is never registered under a connect key that has no use    *)
(* left, as RegisterAppKey promises: ErrKeyExhausted is returned if the key *)
(* is exhausted.                                                            *)
QuotaRespected ==
    [][\A k \in ConnectKeys : Cardinality(LiveAccounts(k)') > Cardinality(LiveAccounts(k)) =>
          Cardinality(LiveAccounts(k)) < totalUses[quotaOf[k]]]_keyVars

(* An application that was told it is registered has an account that is     *)
(* not deleted, until the account is deleted again (handleAuthRegister).    *)
RegisteredIsUsable == \A a \in accepted : account[a].state = "live"
=============================================================================
