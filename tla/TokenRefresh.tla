---------------------------- MODULE TokenRefresh ----------------------------
(***************************************************************************)
(* Who writes the tokens of a config entry: requests that were answered    *)
(* with 401 (core/client.py), the setup of a reloaded entry, the options   *)
(* flow and reauthentication, around the lock of async_refresh_entry_token *)
(* (oauth_refresh.py).  A refresh token can be spent once.                 *)
(*                                                                         *)
(* Tokens are numbered as the account server issues them, an access and a  *)
(* refresh token at a time.  `harm` is a history variable: what happened   *)
(* that the code does not make good, until something else does.            *)
(***************************************************************************)
EXTENDS Naturals, Sequences

CONSTANTS
    Requests,    \* requests under way at the same time
    Setup,       \* the task that sets the entry up
    Clients,     \* client objects: the loaded one and those of earlier setups
    None,        \* Python's None
    MaxTokens    \* bounds the tokens issued

ASSUME SetupAssumption == Setup \notin Requests
ASSUME ClientsAssumption == Clients # {}
ASSUME BoundAssumption == MaxTokens \in Nat

VARIABLES
    mode,        \* CONF_CONNECTION_MODE: "cloud" or "private"
    entry,       \* of entry.data: token (to refresh), access, short, push
    client,      \* access_token of each client
    current,     \* the client of the loaded coordinator
    loaded,      \* did the last setup succeed?
    pc,          \* of each task
    via,         \* the client a task works with, while it does
    queue,       \* the refresh lock: its holder, then the waiters
    read,        \* what the holder read from the entry, or None
    doubtful,    \* history: was its token known to be worthless, or has it become so?
    pending,     \* _pending_entry_data of the options flow
    wanted,      \* history: the push domain confirmed last
    reloadDue,   \* a reload was requested and has not begun
    live,        \* the refresh tokens the account server accepts
    issued,      \* tokens issued
    harm         \* history, see above

tasks  == <<pc, via>>
lock   == <<queue, read, doubtful>>
server == <<live, issued>>
vars   == <<mode, entry, client, current, loaded, tasks, lock, pending, wanted, reloadDue,
            server, harm>>

Tasks   == Requests \cup {Setup}
Tokens  == 0 .. MaxTokens
Lives   == {"short", "long"}
Entries == [token : Tokens, access : Tokens, life : Lives, push : {0, 1}]
Harms   == {"lost_answer", "stale_options", "revoked", "raced", "behind"}

(* Reasons for which the entry's refresh token may be worthless. *)
Deadly == {"lost_answer", "stale_options", "revoked"}

ASSUME NoneAssumption == None \notin Entries

TypeOK ==
    /\ mode \in {"cloud", "private"}
    /\ entry \in Entries
    /\ client \in [Clients -> Tokens] /\ current \in Clients
    /\ loaded \in BOOLEAN /\ reloadDue \in BOOLEAN
    /\ pc \in [Tasks -> {"idle", "sent", "queued", "refreshing", "retried"}]
    /\ via \in [Tasks -> Clients \cup {None}]
    /\ queue \in Seq(Tasks)
    /\ read \in Entries \cup {None} /\ doubtful \in BOOLEAN
    /\ pending \in Entries \cup {None} /\ wanted \in {0, 1}
    /\ live \in SUBSET Tokens /\ issued \in Tokens
    /\ harm \in SUBSET Harms

(* An entry that a scan login has just created, loaded. *)
Init ==
    /\ mode \in {"cloud", "private"}
    /\ entry \in [token : {0}, access : {0}, life : Lives, push : {0}]
    /\ client = [c \in Clients |-> 0] /\ current \in Clients
    /\ loaded = TRUE /\ reloadDue = FALSE
    /\ pc = [t \in Tasks |-> "idle"] /\ via = [t \in Tasks |-> None]
    /\ queue = <<>> /\ read = None /\ doubtful = FALSE
    /\ pending = None /\ wanted = 0
    /\ live = {0} /\ issued = 0
    /\ harm = {}

-----------------------------------------------------------------------------
(* The account server.                                                       *)

(* The user logs every device out, or changes the password. *)
Revoke ==
    /\ live # {}
    /\ live' = {}
    /\ harm' = harm \cup {"revoked"}
    /\ doubtful' = TRUE
    /\ UNCHANGED <<mode, entry, client, current, loaded, tasks, queue, read, pending,
                   wanted, reloadDue, issued>>

(* A new pair; the refresh tokens in spent are accepted no longer. *)
Issue(spent) ==
    /\ issued < MaxTokens
    /\ issued' = issued + 1
    /\ live' = (live \ spent) \cup {issued'}

-----------------------------------------------------------------------------
(* Requests: YeelightProClient._request.                                     *)

SendRequest(r) ==
    /\ loaded
    /\ pc[r] = "idle"
    /\ pc' = [pc EXCEPT ![r] = "sent"]
    /\ via' = [via EXCEPT ![r] = current]
    /\ UNCHANGED <<mode, entry, client, current, loaded, lock, pending, wanted, reloadDue,
                   server, harm>>

(* Answered, refused for another reason, or refused again after the one retry. *)
RequestEnds(r) ==
    /\ pc[r] \in {"sent", "retried"}
    /\ pc' = [pc EXCEPT ![r] = "idle"]
    /\ via' = [via EXCEPT ![r] = None]
    /\ UNCHANGED <<mode, entry, client, current, loaded, lock, pending, wanted,
                   reloadDue, server, harm>>

(* Entry data with a new pair of tokens. *)
WithTokens(data, n, life) == [data EXCEPT !.token = n, !.access = n, !.life = life]
WithAccess(data, n)       == [data EXCEPT !.access = n]

ReadEntry == read' = entry /\ doubtful' = (harm \cap Deadly # {})

(* Mutant: whoever comes reads the entry and refreshes, lock or not. *)
MutAskForLock(t) ==
    /\ queue' = Append(queue, t)
    /\ pc' = [pc EXCEPT ![t] = "refreshing"]
    /\ ReadEntry

(* `async with lock`: a free lock is taken without giving way to others. *)
AskForLock(t) ==
    /\ queue' = Append(queue, t)
    /\ IF queue = <<>>
       THEN pc' = [pc EXCEPT ![t] = "refreshing"] /\ ReadEntry
       ELSE pc' = [pc EXCEPT ![t] = "queued"] /\ UNCHANGED <<read, doubtful>>

(* 401, which may come at any time: the token refresh handler, with force=True. *)
Unauthorized(r) ==
    /\ pc[r] = "sent"
    /\ AskForLock(r)
    /\ UNCHANGED <<mode, entry, client, current, loaded, via, pending, wanted, reloadDue,
                   server, harm>>

-----------------------------------------------------------------------------
(* async_refresh_entry_token under its lock.                                 *)

Holds(t) == queue # <<>> /\ Head(queue) = t

(* The lock is passed on; a request is sent again, a setup goes on. *)
Release(t) ==
    /\ queue' = Tail(queue)
    /\ read' = None /\ doubtful' = FALSE
    /\ pc' = [pc EXCEPT ![t] = IF t = Setup THEN "idle" ELSE "retried"]
    /\ via' = [via EXCEPT ![t] = IF t = Setup THEN None ELSE @]

(* The lock is passed on.  Forced or not, the entry is read anew; without force *)
(* a token that somebody else has refreshed meanwhile will do.               *)
Acquire(t) ==
    /\ Holds(t) /\ pc[t] = "queued"
    /\ t = Setup => entry.life = "short"
    /\ pc' = [pc EXCEPT ![t] = "refreshing"]
    /\ ReadEntry
    /\ UNCHANGED <<mode, entry, client, current, loaded, via, queue, pending, wanted,
                   reloadDue, server, harm>>

AlreadyRefreshed ==
    /\ Holds(Setup) /\ pc[Setup] = "queued"
    /\ entry.life = "long"
    /\ client' = [client EXCEPT ![via[Setup]] = entry.access]
    /\ loaded' = TRUE
    /\ Release(Setup)
    /\ harm' = harm \ {"behind"}
    /\ UNCHANGED <<mode, entry, current, pending, wanted, reloadDue, server>>

(* Mutant: the new tokens are given to the client only. *)
MutRefreshed(t) ==
    /\ Holds(t) /\ pc[t] = "refreshing"
    /\ read.token \in live
    /\ Issue({read.token})
    /\ client' = [client EXCEPT ![via[t]] = issued']
    /\ harm' = IF via[t] = current THEN harm \ {"behind"} ELSE harm \cup {"behind"}
    /\ loaded' = (loaded \/ t = Setup)
    /\ Release(t)
    /\ UNCHANGED <<mode, entry, current, pending, wanted, reloadDue>>

(* The server spends the refresh token and answers.  What was read before the    *)
(* call is written back with the new tokens; the client that asked gets the new *)
(* access token, and its request is sent once more.                          *)
Refreshed(t) ==
    /\ Holds(t) /\ pc[t] = "refreshing"
    /\ read.token \in live
    /\ Issue({read.token})
    /\ \E l \in Lives :
         entry' = WithTokens(read, issued', l)
    /\ client' = [client EXCEPT ![via[t]] = issued']
    /\ harm' = (harm \ (Deadly \cup {"behind"}))
                   \cup (IF via[t] = current THEN {} ELSE {"behind"})
    /\ loaded' = (loaded \/ t = Setup)
    /\ Release(t)
    /\ UNCHANGED <<mode, current, pending, wanted, reloadDue>>

(* Any error: the request, or the setup, fails with it. *)
GiveUp(t) ==
    /\ Holds(t) /\ pc[t] = "refreshing"
    /\ queue' = Tail(queue)
    /\ read' = None /\ doubtful' = FALSE
    /\ pc' = [pc EXCEPT ![t] = "idle"]
    /\ via' = [via EXCEPT ![t] = None]
    /\ loaded' = (loaded /\ t # Setup)
    /\ UNCHANGED <<mode, entry, client, current, pending, wanted, reloadDue>>

RefreshFails(t) == GiveUp(t) /\ UNCHANGED <<server, harm>>

(* The token is spent, but the answer is lost, cannot be parsed or names another *)
(* account (_guard_same_account): nothing is stored.                         *)
AnswerLost(t) ==
    /\ GiveUp(t)
    /\ read.token \in live
    /\ live' = live \ {read.token}
    /\ harm' = harm \cup {"lost_answer"}
    /\ UNCHANGED issued

-----------------------------------------------------------------------------
(* The setup of a reloaded entry: a new client with the entry's access token,    *)
(* refreshed at once if it is short-lived.                                   *)
Reload ==
    /\ pc[Setup] = "idle"
    /\ \E c \in Clients :
        /\ \A r \in Requests : via[r] # c
        /\ client' = [client EXCEPT ![c] = entry.access]
        /\ current' = c
    /\ reloadDue' = FALSE
    /\ harm' = harm \ {"behind"}
    /\ IF entry.life = "short"
       THEN AskForLock(Setup) /\ loaded' = FALSE /\ via' = [via EXCEPT ![Setup] = current']
       ELSE loaded' = TRUE /\ UNCHANGED <<tasks, lock>>
    /\ UNCHANGED <<mode, entry, pending, wanted, server>>

(* The general step of the options flow, in private mode: merge_private_entry_data *)
(* copies the whole entry data of that moment.                               *)
OptionsEntered ==
    /\ mode = "private"
    /\ pending = None
    /\ pending' = [entry EXCEPT !.push = 1 - @]
    /\ UNCHANGED <<mode, entry, client, current, loaded, tasks, lock, wanted, reloadDue,
                   server, harm>>

OptionsAbandoned ==
    /\ pending # None
    /\ pending' = None
    /\ UNCHANGED <<mode, entry, client, current, loaded, tasks, lock, wanted, reloadDue,
                   server, harm>>

(* The confirm step writes that copy back. *)
OptionsConfirmed ==
    /\ pending # None
    /\ entry' = pending
    /\ pending' = None
    /\ wanted' = pending.push
    /\ reloadDue' = TRUE
    /\ harm' = (harm \ {"raced"})
                   \cup (IF pending.token # entry.token THEN {"stale_options"} ELSE {})
                   \cup (IF read # None THEN {"raced"} ELSE {})
    /\ UNCHANGED <<mode, client, current, loaded, tasks, lock, server>>

(* Mutant: the typed token comes with the defaults of the other settings. *)
MutReauthenticated ==
    /\ Issue({})
    /\ entry' = [entry EXCEPT !.access = issued', !.push = 0]
    /\ reloadDue' = TRUE
    /\ UNCHANGED <<mode, client, current, loaded, tasks, lock, pending, wanted, harm>>

(* Reauthentication: by scan login in cloud mode, with an access token typed in  *)
(* by the user in private mode.                                              *)
Reauthenticated ==
    /\ Issue({})
    /\ IF mode = "cloud"
       THEN /\ \E l \in Lives :
                 entry' = WithTokens(entry, issued', l)
            /\ harm' = harm \ Deadly
       ELSE /\ entry' = WithAccess(entry, issued')
            /\ UNCHANGED harm
    /\ reloadDue' = TRUE
    /\ UNCHANGED <<mode, client, current, loaded, tasks, lock, pending, wanted>>

-----------------------------------------------------------------------------
Next ==
    \/ Revoke
    \/ \E r \in Requests : SendRequest(r) \/ RequestEnds(r) \/ Unauthorized(r)
    \/ \E t \in Tasks : Acquire(t) \/ Refreshed(t) \/ RefreshFails(t) \/ AnswerLost(t)
    \/ AlreadyRefreshed
    \/ Reload
    \/ OptionsEntered \/ OptionsAbandoned \/ OptionsConfirmed
    \/ Reauthenticated

Spec == Init /\ [][Next]_vars

-----------------------------------------------------------------------------
(* Properties.                                                               *)

(* A refresh token is never presented twice: while a refresh is under way the    *)
(* server still accepts the token it carries, unless that token was already    *)
(* known to be worthless when it was read, or all tokens are revoked.        *)
NoTokenSpentTwice ==
    \A t \in Tasks : pc[t] = "refreshing" => doubtful \/ (read # None /\ read.token \in live)

(* The entry's refresh token is one the server accepts ("refresh token 一次性轮换   *)
(* 成功后必须保存新的 access/refresh/client secret", test_oauth_refresh.py:240),   *)
(* except after three things: an answer was lost, an options flow wrote back an *)
(* older copy of the entry, or the server revoked it.                        *)
EntryTokenIsLive == entry.token \in live \/ harm \cap Deadly # {}

(* The push domain is the one the user confirmed last, unless that happened     *)
(* during a refresh, which writes back what it had read.                     *)
SettingKept == entry.push = wanted \/ "raced" \in harm

(* The loaded client sends the entry's access token, unless a reload is due or   *)
(* a request of an unloaded client has refreshed the token after it.         *)
ClientHasEntryToken ==
    ~reloadDue => client[current] = entry.access \/ "behind" \in harm

(* Whoever refreshes, with whatever it has read: the tokens in use, the refresh     *)
(* token of the entry and the access token of the client, are the live ones.    *)
TokensInUseAreLive == EntryTokenIsLive /\ ClientHasEntryToken

-----------------------------------------------------------------------------
(* The inductive invariant behind them. *)

(* Only the holder of the lock refreshes, with an entry it has read; a setup gives *)
(* its client to nobody else.                                                *)
LockInv ==
    /\ \A t \in Tasks : pc[t] = "refreshing" => Holds(t) /\ read # None
    /\ pc[Setup] # "idle" => via[Setup] = current

(* What a refresh will write back keeps the setting, or "raced" says why not. *)
ReadInv == read # None => read.push = wanted \/ "raced" \in harm

IndInv ==
    TypeOK /\ LockInv /\ ReadInv
    /\ NoTokenSpentTwice /\ EntryTokenIsLive /\ SettingKept /\ ClientHasEntryToken
=============================================================================
