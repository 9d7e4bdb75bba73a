----------------------------- MODULE SetupFlow -----------------------------
(***************************************************************************)
(* The config flow: how an entry comes to its account, house and token, and *)
(* how reauthentication replaces the token (config_flow*.py,                *)
(* scan_login_contract.py, core/scan_login.py).  The user grants a token by *)
(* scanning a code that lives for a while; a task polls the server until it *)
(* has been granted or has expired.                                         *)
(***************************************************************************)
EXTENDS Naturals

CONSTANTS
    Accounts,
    HousesOf,      \* [Accounts -> SUBSET house]
    Regions,       \* that can be selected
    TokenRegions,  \* that a token may name; Nil if it names none
    Gateways,      \* addresses of LAN gateways
    Life,          \* how long a code lives (five minutes), in ticks
    Skews,         \* how far Home Assistant's clock may be ahead of the server's
    MaxGrants,     \* bound: tokens granted
    Nil

VARIABLES
    entries,   \* the config entries of the integration
    granted,   \* tokens so far
    page,      \* step of the flow, "closed" when there is none
    connection, \* _connection_mode
    region,    \* _cloud_region
    reauth,    \* the entry that is reauthenticated, or Nil
    skew,      \* of the clocks
    code,      \* the code at the server: its status, age and token
    qr,        \* _scan_login_state.qr_code: the status it was last seen in, or Nil
    poll,      \* the polling task
    reply,     \* the answer it was sent last
    token,     \* _access_token and the account that came with it
    choices,   \* _house_choices
    house,     \* _house_id
    found      \* _lan_discovered_map

login   == <<code, qr, poll, reply, token>>
answers == <<choices, house, found>>
setupVars == <<entries, granted, page, connection, region, reauth, skew, login, answers>>

Houses == UNION {HousesOf[a] : a \in Accounts}
NoCode == [status |-> "NONE", age |-> 0, token |-> Nil]

-----------------------------------------------------------------------------
(* account_identity: what the token tells of its account, or else its fingerprint. *)
Identity(t) == IF t.named THEN <<"user_id", t.account>> ELSE <<"access_token", t.id>>

(* config_entry_unique_id *)
UniqueId(t) ==
    CASE connection = "cloud"   -> <<"cloud", region, Identity(t), house>>
      [] connection = "private" -> <<"private", house>>

(* scan_login_token_matches_region *)
SameRegion(t) == connection = "private" \/ t.region \in {Nil, region}

(* Mutant: a token that tells nothing of its account is taken for the same. *)
MutSameAccount(t) == t.named /\ reauth.token.named => t.account = reauth.token.account

(* _same_reauth_account *)
SameAccount(t) == Identity(reauth.token) = Identity(t)

(* expires_in_seconds = 0, by Home Assistant's clock. *)
Expired == code.age + skew >= Life

Pollable(status) == status = "CREATED" /\ ~Expired

-----------------------------------------------------------------------------
(* The server, the user's telephone, and time. *)

TimePasses ==
    /\ code.status # "NONE" /\ code.age < Life
    /\ code' = [code EXCEPT !.age = @ + 1,
                            !.status = IF @ = "CREATED" /\ code.age + 1 = Life
                                       THEN "EXPIRED" ELSE @]
    /\ UNCHANGED <<entries, granted, page, connection, region, reauth, skew, qr, poll,
                   reply, token,
                   answers>>

NewToken(a, r, n) == [id |-> granted + 1, account |-> a, region |-> r, named |-> n]

UserGrants ==
    /\ code.status = "CREATED" /\ granted < MaxGrants
    /\ \E a \in Accounts, r \in TokenRegions, n \in BOOLEAN :
        code' = [code EXCEPT !.status = "LOGIN", !.token = NewToken(a, r, n)]
    /\ granted' = granted + 1
    /\ UNCHANGED <<entries, page, connection, region, reauth, skew, qr, poll, reply, token,
                   answers>>

-----------------------------------------------------------------------------
(* How a flow begins and ends. *)

NoMoreCode == code' = NoCode /\ qr' = Nil /\ poll' = "none" /\ reply' = NoCode

FreshFlow ==
    /\ NoMoreCode
    /\ token' = Nil /\ choices' = {} /\ house' = Nil /\ found' = {}

(* Nothing yet, or an entry that was made with a token that was typed in. *)
InitSetup ==
    /\ page = "closed" /\ connection = "cloud" /\ reauth = Nil
    /\ region = CHOOSE r \in Regions : TRUE
    /\ \/ entries = {} /\ granted = 0
       \/ \E a \in Accounts : \E h \in HousesOf[a] :
            LET t == [id |-> 1, account |-> a, region |-> Nil, named |-> FALSE] IN
            /\ entries = {[uid |-> <<"cloud", region, Identity(t), h>>, mode |-> "cloud",
                           region |-> region, house |-> h, token |-> t]}
            /\ granted = 1
    /\ skew \in Skews
    /\ code = NoCode /\ qr = Nil /\ poll = "none" /\ reply = NoCode /\ token = Nil
    /\ choices = {} /\ house = Nil /\ found = {}

(* async_step_user up to the way to authenticate. *)
StartFlow ==
    /\ page = "closed"
    /\ FreshFlow
    /\ connection' \in {"cloud", "private", "lan"}
    /\ region' \in Regions
    /\ reauth' = Nil
    /\ page' \in IF connection' = "lan" THEN {"lan"} ELSE {"scan", "manual"}
    /\ UNCHANGED <<entries, granted, skew>>

(* A token was refused.  Cloud entries scan, private ones are asked for a token. *)
StartReauth ==
    /\ page = "closed"
    /\ \E e \in {f \in entries : f.mode # "lan"} :
        /\ reauth' = e /\ connection' = e.mode /\ region' = e.region
        /\ page' = IF e.mode = "cloud" THEN "scan" ELSE "confirm"
    /\ FreshFlow
    /\ UNCHANGED <<entries, granted, skew>>

(* The flow is removed with its polling task; a new one is another object. *)
Close ==
    /\ page' = "closed" /\ connection' = "cloud" /\ reauth' = Nil /\ FreshFlow
    /\ UNCHANGED <<region, skew>>

Abandon == page # "closed" /\ Close /\ UNCHANGED <<entries, granted>>

Created(e) ==
    /\ Close
    /\ entries' = IF \E f \in entries : f.uid = e.uid THEN entries ELSE entries \cup {e}
    /\ UNCHANGED granted

Updated(t) ==
    /\ Close
    /\ entries' = (entries \ {reauth}) \cup {[reauth EXCEPT !.token = t]}

-----------------------------------------------------------------------------
(* Scan login. *)

(* async_step_cloud_scan_login: a code is created when there is none, or on demand. *)
ShowCode ==
    /\ page = "scan" /\ poll = "none"
    /\ code' = [NoCode EXCEPT !.status = "CREATED"]
    /\ qr' = "CREATED"
    /\ UNCHANGED <<entries, granted, page, connection, region, reauth, skew, poll, reply,
                   token, answers>>

(* The form is sent: with a code that can be polled a task is started. *)
StartPolling ==
    /\ page = "scan" /\ poll = "none" /\ qr # Nil
    /\ Pollable(qr)
    /\ poll' = "sleep"
    /\ UNCHANGED <<entries, granted, page, connection, region, reauth, skew, code, qr,
                   reply, token,
                   answers>>

(* The server has answered; the answer is on its way. *)
CheckCode ==
    /\ poll = "sleep"
    /\ poll' = "check" /\ reply' = code
    /\ UNCHANGED <<entries, granted, page, connection, region, reauth, skew, code, qr,
                   token, answers>>

CheckFails ==
    /\ poll = "sleep"
    /\ poll' = "failed"
    /\ UNCHANGED <<entries, granted, page, connection, region, reauth, skew, code, qr,
                   reply, token,
                   answers>>

(* Mutant: a code that has expired is given up before its answer is looked at. *)
MutAfterCheck ==
    IF reply.status = "EXPIRED" \/ Expired THEN "expired"
    ELSE IF reply.status = "LOGIN" THEN "login" ELSE "sleep"

(* async_poll_scan_login_until_login *)
AfterCheck ==
    IF reply.status = "LOGIN" THEN "login"
    ELSE IF Pollable(reply.status) THEN "sleep" ELSE "expired"

Checked ==
    /\ poll = "check"
    /\ qr' = reply.status
    /\ poll' = AfterCheck
    /\ UNCHANGED <<entries, granted, page, connection, region, reauth, skew, code, reply,
                   token, answers>>

(* The task has raised: the form is shown again, with the code it had. *)
PollingFailed ==
    /\ poll \in {"expired", "failed"}
    /\ poll' = "none" /\ reply' = NoCode
    /\ UNCHANGED <<entries, granted, page, connection, region, reauth, skew, code, qr,
                   token, answers>>

(* May this grant be used? *)
Accepted(t) == SameRegion(t) /\ (reauth # Nil => SameAccount(t))

(* async_step_cloud_scan_login_wait and _async_finish_scan_login *)
Granted ==
    /\ poll = "login"
    /\ Accepted(reply.token)
    /\ IF reauth # Nil
       THEN Updated(reply.token)
       ELSE /\ page' = "houses" /\ token' = reply.token
            /\ NoMoreCode
            /\ UNCHANGED <<entries, connection, region, reauth, skew, answers>>
    /\ UNCHANGED granted

(* _reset_scan_login_with_invalid_auth *)
GrantRefused ==
    /\ poll = "login"
    /\ ~Accepted(reply.token)
    /\ NoMoreCode
    /\ UNCHANGED <<entries, granted, page, connection, region, reauth, skew, token, answers>>

-----------------------------------------------------------------------------
(* Tokens that are typed in, houses, devices. *)

(* async_validate_auth: the account knows the house. *)
Valid(t, h) == h \in HousesOf[t.account]

(* It tells nothing of its account. *)
TypedTokens == {NewToken(a, Nil, FALSE) : a \in Accounts}

(* async_step_cloud_auth *)
TypeToken ==
    /\ page = "manual" /\ granted < MaxGrants
    /\ token' \in TypedTokens
    /\ granted' = granted + 1
    /\ page' = "houses"
    /\ UNCHANGED <<entries, connection, region, reauth, skew, code, qr, poll, reply, answers>>

(* async_step_reauth_confirm: whose token it is is not asked, but it must see the house. *)
ConfirmToken ==
    /\ page = "confirm" /\ granted < MaxGrants
    /\ \E t \in TypedTokens : Valid(t, reauth.house) /\ Updated(t)
    /\ granted' = granted + 1

(* The list may fail: the form then has nothing to choose from. *)
LoadHouses ==
    /\ page = "houses" /\ choices = {}
    /\ choices' = HousesOf[token.account] /\ choices' # {}
    /\ page' = "house"
    /\ UNCHANGED <<entries, granted, connection, region, reauth, skew, login, house, found>>

(* async_step_cloud_houses: validated once more, now with the house. *)
ChooseHouse ==
    /\ page = "house"
    /\ house' \in choices /\ Valid(token, house')
    /\ page' = "devices"
    /\ UNCHANGED <<entries, granted, connection, region, reauth, skew, login, choices, found>>

(* _create_entry, or an abort when the unique id is taken. *)
CreateEntry ==
    /\ page = "devices"
    /\ Created([uid |-> UniqueId(token), mode |-> connection, region |-> region, house |-> house,
                token |-> token])

-----------------------------------------------------------------------------
(* LAN gateways. *)

DiscoverGateways ==
    /\ page = "lan"
    /\ found' \in SUBSET Gateways
    /\ UNCHANGED <<entries, granted, page, connection, region, reauth, skew, login, choices,
                   house>>

(* One that was found or typed in, once it has accepted a connection. *)
CreateLanEntry ==
    /\ page = "lan"
    /\ \E g \in IF found = {} THEN Gateways ELSE found :
        Created([uid |-> <<"lan", g>>, mode |-> "lan", region |-> Nil, house |-> Nil,
                 token |-> Nil])

NextSetup ==
    \/ TimePasses \/ UserGrants
    \/ StartFlow \/ StartReauth \/ Abandon
    \/ ShowCode \/ StartPolling \/ CheckCode \/ CheckFails \/ Checked \/ PollingFailed
    \/ Granted \/ GrantRefused
    \/ TypeToken \/ ConfirmToken \/ LoadHouses \/ ChooseHouse \/ CreateEntry
    \/ DiscoverGateways \/ CreateLanEntry

SpecSetup == InitSetup /\ [][NextSetup]_setupVars

-----------------------------------------------------------------------------
(* Properties. *)

(* What the flows have made of grants, reauthentications and choices holds together: *)
(* an entry's token sees its house and is of its region, and its unique id still     *)
(* names the token's account; so one account's house has one entry, unless a token   *)
(* told nothing of its account.                                              *)
EntriesSound ==
    \A e \in {f \in entries : f.mode # "lan"} :
        /\ Valid(e.token, e.house)
        /\ e.mode = "cloud" =>
            /\ e.token.region \in {Nil, e.region}
            /\ e.uid[3] = Identity(e.token)
            /\ \A f \in entries \ {e} :
                (f.mode = "cloud" /\ e.token.named /\ f.token.named) =>
                    <<e.region, e.house, e.token.account>>
                        # <<f.region, f.house, f.token.account>>

(* A grant that the server has told of is used, however late the answer: what can    *)
(* be said against it is only its region or, in a reauthentication, its account, of  *)
(* which both the entry and the grant must tell.                             *)
GrantsAreUsed ==
    [][(poll \in {"check", "login"} /\ poll' # poll /\ reply.status = "LOGIN"
            /\ page' # "closed") =>
        \/ poll' = "login" \/ page' = "houses"
        \/ ~SameRegion(reply.token)
        \/ reauth # Nil /\ ~(/\ reauth.token.account = reply.token.account
                              /\ reauth.token.named /\ reply.token.named)]_setupVars

-----------------------------------------------------------------------------
(* The inductive invariant behind EntriesSound.                              *)

Token == [id : Nat, account : Accounts, region : TokenRegions \cup {Nil}, named : BOOLEAN]

Choosing == {"houses", "house", "devices"}

(* Tokens that are, or may come to be, an entry's. *)
Held ==
    {e.token : e \in {f \in entries : f.mode # "lan"}}
        \cup {c.token : c \in {d \in {code, reply} : d.status = "LOGIN"}}
        \cup {t \in {token} : page \in Choosing}

(* Each was issued once: to one account. *)
TokensInv ==
    /\ granted \in Nat
    /\ Held \subseteq Token
    /\ \A t \in Held : t.id <= granted
    /\ \A t, u \in Held : t.id = u.id => t = u

EntryInv(e) ==
    /\ e = [uid |-> e.uid, mode |-> e.mode, region |-> e.region, house |-> e.house,
            token |-> e.token]
    /\ e.mode # "lan" => Valid(e.token, e.house)
    /\ e.mode = "cloud" =>
        /\ e.uid = <<"cloud", e.region, Identity(e.token), e.house>>
        /\ e.token.region \in {Nil, e.region}

EntriesInv ==
    /\ \A e \in entries : EntryInv(e)
    /\ \A e, f \in entries : e.uid = f.uid => e = f

(* What is known at each step of the flow. *)
FlowInv ==
    /\ poll # "none" => page = "scan"
    /\ poll = "login" => reply.status = "LOGIN"
    /\ page \in {"scan", "manual"} \cup Choosing => connection \in {"cloud", "private"}
    /\ page \in Choosing /\ connection = "cloud" => token.region \in {Nil, region}
    /\ page = "devices" => Valid(token, house)
    /\ page = "confirm" => reauth \in entries /\ reauth.mode \notin {"cloud", "lan"}
    /\ page = "scan" /\ reauth # Nil =>
        /\ reauth \in entries /\ reauth.mode = "cloud"
        /\ connection = "cloud" /\ region = reauth.region

CodeInv == code = [status |-> code.status, age |-> code.age, token |-> code.token]

SoundInv == TokensInv /\ EntriesInv /\ FlowInv

SetupInv == SoundInv /\ CodeInv
=============================================================================
