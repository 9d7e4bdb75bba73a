---------------------------- MODULE AccountProofs ----------------------------
(***************************************************************************)
(* Theorems about the user's account: the config flow and its logins         *)
(* (SetupFlow), for any accounts, houses, regions, codes and clocks, and the  *)
(* owners of the entry's tokens (TokenRefresh), for any number of requests,  *)
(* clients and tokens.                                                     *)
(***************************************************************************)
EXTENDS TokenRefresh, SetupFlow, TLAPS

-----------------------------------------------------------------------------
(* SetupFlow *)

(* What is held stays sound when nothing is added, and when a new token is.  *)
LEMMA HeldKept ==
    ASSUME TokensInv, granted' = granted, Held' \subseteq Held
    PROVE  TokensInv'
BY DEF TokensInv

LEMMA HeldGrows ==
    ASSUME TokensInv, granted' = granted + 1,
           NEW n \in Token, n.id = granted + 1, Held' \subseteq Held \cup {n}
    PROVE  TokensInv'
<1>1. granted' \in Nat /\ Held' \subseteq Token
  BY DEF TokensInv
<1>2. ASSUME NEW t \in Held' PROVE t.id <= granted'
  <2>1. t \in Held \/ t = n
    OBVIOUS
  <2>2. CASE t \in Held
    BY <2>2 DEF TokensInv, Token
  <2>3. CASE t = n
    BY <2>3 DEF TokensInv
  <2> QED
    BY <2>1, <2>2, <2>3
<1>3. ASSUME NEW t \in Held', NEW u \in Held', t.id = u.id PROVE t = u
  <2>1. \A v \in Held : v.id # n.id
    BY DEF TokensInv, Token
  <2>2. (t \in Held \/ t = n) /\ (u \in Held \/ u = n)
    OBVIOUS
  <2> QED
    BY <1>3, <2>1, <2>2 DEF TokensInv
<1> QED
  BY <1>1, <1>2, <1>3 DEF TokensInv

(* A typed or granted token is a new one.                                      *)
LEMMA NewTokenIsToken ==
    ASSUME granted \in Nat, NEW a \in Accounts, NEW r \in TokenRegions \cup {Nil},
           NEW n \in BOOLEAN
    PROVE  /\ NewToken(a, r, n) \in Token /\ NewToken(a, r, n).id = granted + 1
           /\ NewToken(a, r, n).region = r
BY DEF NewToken, Token

(* Tokens of one identity are of one account.                                  *)
LEMMA IdentityTellsAccount ==
    ASSUME TokensInv, NEW t \in Held, NEW u \in Held, Identity(t) = Identity(u)
    PROVE  t.account = u.account
<1>1. t.named \in BOOLEAN /\ u.named \in BOOLEAN
  BY DEF TokensInv, Token
<1>2. CASE t.named /\ u.named
  BY <1>2 DEF Identity
<1>3. CASE ~t.named /\ ~u.named
  <2>1. t.id = u.id
    BY <1>3 DEF Identity
  <2> QED
    BY <2>1 DEF TokensInv
<1>4. CASE t.named # u.named
  BY <1>1, <1>4 DEF Identity
<1> QED
  BY <1>1, <1>2, <1>3, <1>4

(* A flow that has ended holds nothing that its entries do not.                *)
LEMMA ClosedFlow ==
    ASSUME FreshFlow, page' \notin Choosing
    PROVE  Held' = {e.token : e \in {f \in entries' : f.mode # "lan"}}
BY DEF Held, FreshFlow, NoMoreCode, NoCode

LEMMA ClosedInv ==
    ASSUME Close PROVE FlowInv'
BY DEF Close, FreshFlow, NoMoreCode, FlowInv, Choosing

(* An entry is added, if none has its unique id.                               *)
LEMMA CreatedInv ==
    ASSUME SoundInv, NEW e, Created(e), EntryInv(e), e.mode # "lan" => e.token \in Held
    PROVE  SoundInv'
<1>1. Close /\ granted' = granted /\ entries' \subseteq entries \cup {e}
  BY DEF Created
<1>2. FlowInv'
  BY <1>1, ClosedInv
<1>3. EntriesInv'
  <2>1. \A f \in entries' : EntryInv(f)'
    BY <1>1 DEF SoundInv, EntriesInv, EntryInv, Valid, Identity
  <2>2. \A f, g \in entries' : f.uid = g.uid => f = g
    BY DEF Created, SoundInv, EntriesInv
  <2> QED
    BY <2>1, <2>2 DEF EntriesInv
<1>4. Held' \subseteq Held
  <2>1. Held' = {f.token : f \in {g \in entries' : g.mode # "lan"}}
    BY <1>1, ClosedFlow DEF Close, Choosing
  <2>2. \A f \in entries : f.mode # "lan" => f.token \in Held
    BY DEF Held
  <2> QED
    BY <1>1, <2>1, <2>2
<1>5. TokensInv'
  BY <1>1, <1>4, HeldKept DEF SoundInv
<1> QED
  BY <1>2, <1>3, <1>5 DEF SoundInv

(* The token of an entry is replaced by one that fits the entry.                *)
LEMMA UpdatedEntries ==
    ASSUME SoundInv, NEW t, Updated(t), reauth \in entries, reauth.mode # "lan",
           Valid(t, reauth.house),
           reauth.mode = "cloud" =>
               Identity(t) = Identity(reauth.token) /\ t.region \in {Nil, reauth.region}
    PROVE  /\ EntriesInv' /\ FlowInv'
           /\ Held' \subseteq Held \cup {t}
<1> DEFINE new == [reauth EXCEPT !.token = t]
<1>1. Close /\ entries' = (entries \ {reauth}) \cup {new}
  BY DEF Updated
<1>2. /\ reauth = [uid |-> reauth.uid, mode |-> reauth.mode, region |-> reauth.region,
                   house |-> reauth.house, token |-> reauth.token]
      /\ reauth.mode = "cloud" =>
            reauth.uid = <<"cloud", reauth.region, Identity(reauth.token), reauth.house>>
  BY DEF SoundInv, EntriesInv, EntryInv
<1>3. new = [uid |-> reauth.uid, mode |-> reauth.mode, region |-> reauth.region,
             house |-> reauth.house, token |-> t]
  BY <1>2
<1>4. EntryInv(new)
  BY <1>2, <1>3 DEF EntryInv
<1>5. EntriesInv'
  <2>1. \A f \in entries' : EntryInv(f)'
    BY <1>1, <1>4 DEF SoundInv, EntriesInv, EntryInv, Valid, Identity
  <2>2. new.uid = reauth.uid /\ \A f \in entries \ {reauth} : f.uid # reauth.uid
    BY <1>3 DEF SoundInv, EntriesInv
  <2>3. \A f, g \in entries' : f.uid = g.uid => f = g
    <3> HIDE DEF new
    <3> QED
      BY <1>1, <2>2 DEF SoundInv, EntriesInv
  <2> QED
    BY <2>1, <2>3 DEF EntriesInv
<1>6. Held' \subseteq Held \cup {t}
  <2>1. Held' = {f.token : f \in {g \in entries' : g.mode # "lan"}}
    BY <1>1, ClosedFlow DEF Close, Choosing
  <2>2. \A f \in entries : f.mode # "lan" => f.token \in Held
    BY DEF Held
  <2>3. new.token = t
    BY <1>3
  <2> HIDE DEF new
  <2> QED
    BY <1>1, <2>1, <2>2, <2>3
<1> QED
  BY <1>1, <1>5, <1>6, ClosedInv

(* A step that leaves the entries alone needs to look at tokens and flow only. *)
LEMMA SameEntries ==
    ASSUME EntriesInv, UNCHANGED entries
    PROVE  EntriesInv'
BY DEF EntriesInv, EntryInv, Valid, Identity

LEMMA InitSound == InitSetup => SoundInv
<1> SUFFICES ASSUME InitSetup PROVE SoundInv
  OBVIOUS
<1>1. FlowInv
  BY DEF InitSetup, FlowInv, Choosing
<1>2. CASE entries = {} /\ granted = 0
  <2>1. Held = {}
    BY <1>2 DEF InitSetup, Held, NoCode, Choosing
  <2>2. TokensInv
    BY <1>2, <2>1 DEF TokensInv
  <2>3. EntriesInv
    BY <1>2 DEF EntriesInv
  <2> QED
    BY <1>1, <2>2, <2>3 DEF SoundInv
<1>3. ASSUME NEW a \in Accounts, NEW h \in HousesOf[a],
             LET t == [id |-> 1, account |-> a, region |-> Nil, named |-> FALSE] IN
             /\ entries = {[uid |-> <<"cloud", region, Identity(t), h>>, mode |-> "cloud",
                            region |-> region, house |-> h, token |-> t]}
             /\ granted = 1
      PROVE SoundInv
  <2> DEFINE t == [id |-> 1, account |-> a, region |-> Nil, named |-> FALSE]
             e == [uid |-> <<"cloud", region, Identity(t), h>>, mode |-> "cloud",
                   region |-> region, house |-> h, token |-> t]
  <2>1. entries = {e} /\ granted = 1
    BY <1>3
  <2>2. e.mode = "cloud" /\ e.token = t /\ t \in Token /\ t.id = 1
    BY DEF Token
  <2>3. EntryInv(e)
    BY DEF EntryInv, Valid
  <2> HIDE DEF t, e
  <2>4. EntriesInv
    BY <2>1, <2>3 DEF EntriesInv
  <2>5. Held = {t}
    BY <2>1, <2>2 DEF InitSetup, Held, NoCode, Choosing
  <2>6. TokensInv
    BY <2>1, <2>2, <2>5 DEF TokensInv
  <2> QED
    BY <1>1, <2>4, <2>6 DEF SoundInv
<1> QED
  BY <1>2, <1>3 DEF InitSetup

(* The steps of the code, of its polling and of the LAN form change no entry and    *)
(* hold no token that was not held, or told of by the code.                   *)
LEMMA QuietSteps ==
    ASSUME SoundInv,
           \/ TimePasses \/ ShowCode \/ StartPolling \/ CheckCode \/ CheckFails \/ Checked
           \/ PollingFailed \/ GrantRefused \/ DiscoverGateways
    PROVE  SoundInv'
<1> USE DEF SoundInv
<1>1. /\ UNCHANGED <<entries, granted, page, connection, region, reauth, house, token>>
      /\ \A c \in {code', reply'} : c.status = "LOGIN" =>
            \E d \in {code, reply} : d.status = "LOGIN" /\ d.token = c.token
  <2>1. CASE TimePasses
    <3>1. code'.status = "LOGIN" => code.status = "LOGIN" /\ code'.token = code.token
      BY <2>1 DEF TimePasses
    <3> QED
      BY <2>1, <3>1 DEF TimePasses, answers
  <2>2. CASE ShowCode
    BY <2>2 DEF ShowCode, NoCode, answers
  <2>3. CASE StartPolling \/ CheckCode \/ CheckFails \/ Checked \/ DiscoverGateways
    BY <2>3 DEF StartPolling, CheckCode, CheckFails, Checked, DiscoverGateways, login, answers
  <2>4. CASE PollingFailed \/ GrantRefused
    BY <2>4 DEF PollingFailed, GrantRefused, NoMoreCode, NoCode, answers
  <2> QED
    BY <2>1, <2>2, <2>3, <2>4
<1>2. EntriesInv'
  BY <1>1, SameEntries
<1>3. Held' \subseteq Held
  BY <1>1 DEF Held
<1>4. TokensInv'
  BY <1>1, <1>3, HeldKept
<1>5. /\ poll' # "none" => page = "scan"
      /\ poll' = "login" => reply'.status = "LOGIN"
  <2>1. CASE TimePasses \/ ShowCode \/ DiscoverGateways
    BY <2>1 DEF TimePasses, ShowCode, DiscoverGateways, FlowInv, login
  <2>2. CASE StartPolling \/ CheckCode \/ CheckFails \/ PollingFailed \/ GrantRefused
    BY <2>2 DEF StartPolling, CheckCode, CheckFails, PollingFailed, GrantRefused, NoMoreCode,
                FlowInv
  <2>3. CASE Checked
    BY <2>3 DEF Checked, AfterCheck, FlowInv
  <2> QED
    BY <2>1, <2>2, <2>3
<1>6. FlowInv'
  BY <1>1, <1>5 DEF FlowInv, Valid
<1> QED
  BY <1>2, <1>4, <1>6

LEMMA StepSound == SetupInv /\ [NextSetup]_setupVars => SoundInv'
<1> SUFFICES ASSUME SoundInv, CodeInv, [NextSetup]_setupVars PROVE SoundInv'
  BY DEF SetupInv
<1> USE DEF SoundInv
<1>1. CASE \/ TimePasses \/ ShowCode \/ StartPolling \/ CheckCode \/ CheckFails \/ Checked
           \/ PollingFailed \/ GrantRefused \/ DiscoverGateways
  BY <1>1, QuietSteps
<1>2. CASE UserGrants
  <2>1. PICK a \in Accounts, r \in TokenRegions, n \in BOOLEAN :
            code' = [code EXCEPT !.status = "LOGIN", !.token = NewToken(a, r, n)]
    BY <1>2 DEF UserGrants
  <2>2. /\ granted' = granted + 1
        /\ UNCHANGED <<entries, page, connection, region, reauth, poll, reply, token, house>>
    BY <1>2 DEF UserGrants, answers
  <2>3. NewToken(a, r, n) \in Token /\ NewToken(a, r, n).id = granted + 1
    BY NewTokenIsToken DEF TokensInv
  <2>4. Held' \subseteq Held \cup {NewToken(a, r, n)}
    <3>1. code' = [status |-> "LOGIN", age |-> code.age, token |-> NewToken(a, r, n)]
      BY <2>1 DEF CodeInv
    <3>2. code'.token = NewToken(a, r, n)
      BY <3>1
    <3> QED
      BY <2>2, <3>2 DEF Held
  <2>5. TokensInv'
    BY <2>2, <2>3, <2>4, HeldGrows
  <2>6. FlowInv'
    BY <2>1, <2>2 DEF FlowInv, Valid
  <2> QED
    BY <2>2, <2>5, <2>6, SameEntries
<1>3. CASE StartFlow
  <2>1. Held' \subseteq Held
    BY <1>3, ClosedFlow DEF StartFlow, Choosing, Held
  <2>2. TokensInv'
    BY <1>3, <2>1, HeldKept DEF StartFlow
  <2>3. FlowInv'
    BY <1>3 DEF StartFlow, FreshFlow, NoMoreCode, FlowInv, Choosing
  <2> QED
    BY <1>3, <2>2, <2>3, SameEntries DEF StartFlow
<1>4. CASE StartReauth
  <2>1. PICK e \in entries :
            /\ e.mode # "lan"
            /\ reauth' = e /\ connection' = e.mode /\ region' = e.region
            /\ page' = IF e.mode = "cloud" THEN "scan" ELSE "confirm"
    BY <1>4 DEF StartReauth
  <2>2. Held' \subseteq Held
    BY <1>4, <2>1, ClosedFlow DEF StartReauth, Choosing, Held
  <2>3. TokensInv'
    BY <1>4, <2>2, HeldKept DEF StartReauth
  <2>4. FlowInv'
    BY <1>4, <2>1 DEF StartReauth, FreshFlow, NoMoreCode, FlowInv, Choosing
  <2> QED
    BY <1>4, <2>3, <2>4, SameEntries DEF StartReauth
<1>5. CASE Abandon
  <2>1. Held' \subseteq Held
    BY <1>5, ClosedFlow DEF Abandon, Close, Choosing, Held
  <2>2. TokensInv'
    BY <1>5, <2>1, HeldKept DEF Abandon
  <2> QED
    BY <1>5, <2>2, ClosedInv, SameEntries DEF Abandon
<1>6. CASE Granted
  <2>1. /\ poll = "login" /\ page = "scan" /\ reply.status = "LOGIN" /\ granted' = granted
        /\ SameRegion(reply.token) /\ (reauth # Nil => SameAccount(reply.token))
    BY <1>6 DEF Granted, Accepted, FlowInv
  <2>2. reply.token \in Held
    BY <2>1 DEF Held
  <2>3. CASE reauth # Nil
    <3>1. /\ reauth \in entries /\ reauth.mode = "cloud" /\ Updated(reply.token)
          /\ connection = "cloud" /\ region = reauth.region
      BY <1>6, <2>1, <2>3 DEF Granted, FlowInv
    <3>2. Identity(reply.token) = Identity(reauth.token) /\ reauth.token \in Held
      BY <2>1, <2>3, <3>1 DEF SameAccount, Held
    <3>3. Valid(reply.token, reauth.house)
      <4>1. reply.token.account = reauth.token.account
        BY <2>2, <3>2, IdentityTellsAccount
      <4>2. Valid(reauth.token, reauth.house)
        BY <3>1 DEF EntriesInv, EntryInv
      <4> QED
        BY <4>1, <4>2 DEF Valid
    <3>4. reply.token.region \in {Nil, reauth.region}
      BY <2>1, <3>1 DEF SameRegion
    <3>5. EntriesInv' /\ FlowInv' /\ Held' \subseteq Held \cup {reply.token}
      BY <3>1, <3>2, <3>3, <3>4, UpdatedEntries
    <3> QED
      BY <2>1, <2>2, <3>5, HeldKept
  <2>4. CASE reauth = Nil
    <3>1. /\ page' = "houses" /\ token' = reply.token /\ NoMoreCode
          /\ UNCHANGED <<entries, connection, region, reauth, house>>
      BY <1>6, <2>4 DEF Granted, answers
    <3>2. Held' \subseteq Held
      BY <2>2, <3>1 DEF Held, NoMoreCode, NoCode, Choosing
    <3>3. FlowInv'
      BY <2>1, <3>1 DEF FlowInv, NoMoreCode, Choosing, SameRegion
    <3> QED
      BY <2>1, <3>1, <3>2, <3>3, HeldKept, SameEntries
  <2> QED
    BY <2>3, <2>4
<1>7. CASE TypeToken
  <2>1. PICK a \in Accounts : token' = NewToken(a, Nil, FALSE)
    BY <1>7 DEF TypeToken, TypedTokens
  <2>2. token' \in Token /\ token'.id = granted + 1 /\ token'.region = Nil
    BY <2>1, NewTokenIsToken DEF TokensInv
  <2>3. Held' \subseteq Held \cup {token'}
    BY <1>7 DEF TypeToken, Held
  <2>4. TokensInv'
    BY <1>7, <2>2, <2>3, HeldGrows DEF TypeToken
  <2>5. FlowInv'
    BY <1>7, <2>2 DEF TypeToken, FlowInv, Choosing
  <2> QED
    BY <1>7, <2>4, <2>5, SameEntries DEF TypeToken
<1>8. CASE ConfirmToken
  <2>1. PICK a \in Accounts : /\ Valid(NewToken(a, Nil, FALSE), reauth.house)
                              /\ Updated(NewToken(a, Nil, FALSE))
    BY <1>8 DEF ConfirmToken, TypedTokens
  <2>2. /\ NewToken(a, Nil, FALSE) \in Token /\ NewToken(a, Nil, FALSE).id = granted + 1
        /\ granted' = granted + 1
    BY <1>8, NewTokenIsToken DEF TokensInv, ConfirmToken
  <2>3. reauth \in entries /\ reauth.mode \notin {"cloud", "lan"}
    BY <1>8 DEF ConfirmToken, FlowInv
  <2>4. EntriesInv' /\ FlowInv' /\ Held' \subseteq Held \cup {NewToken(a, Nil, FALSE)}
    BY <2>1, <2>3, UpdatedEntries
  <2> QED
    BY <2>2, <2>4, HeldGrows
<1>9. CASE LoadHouses \/ ChooseHouse
  <2>1. /\ UNCHANGED <<entries, granted, connection, region, reauth, code, reply, poll, token>>
        /\ page \in Choosing /\ page' \in Choosing
        /\ page' = "devices" => Valid(token, house')
    BY <1>9 DEF LoadHouses, ChooseHouse, login, Choosing
  <2>2. Held' \subseteq Held
    BY <2>1 DEF Held
  <2>3. FlowInv'
    BY <2>1 DEF FlowInv, Choosing, Valid
  <2> QED
    BY <2>1, <2>2, <2>3, HeldKept, SameEntries
<1>10. CASE CreateEntry
  <2> DEFINE e == [uid |-> UniqueId(token), mode |-> connection, region |-> region,
                   house |-> house, token |-> token]
  <2>1. Created(e) /\ page = "devices"
    BY <1>10 DEF CreateEntry
  <2>2. EntryInv(e)
    BY <2>1 DEF EntryInv, UniqueId, FlowInv, Choosing
  <2>3. e.token \in Held
    BY <2>1 DEF Held, Choosing
  <2> QED
    BY <2>1, <2>2, <2>3, CreatedInv
<1>11. CASE CreateLanEntry
  <2>1. PICK g \in Gateways \cup found :
            Created([uid |-> <<"lan", g>>, mode |-> "lan", region |-> Nil, house |-> Nil,
                     token |-> Nil])
    BY <1>11 DEF CreateLanEntry
  <2>2. EntryInv([uid |-> <<"lan", g>>, mode |-> "lan", region |-> Nil, house |-> Nil,
                  token |-> Nil])
    BY DEF EntryInv
  <2> QED
    BY <2>1, <2>2, CreatedInv
<1>12. CASE UNCHANGED setupVars
  <2>1. TokensInv'
    BY <1>12, HeldKept DEF setupVars, login, Held
  <2>2. FlowInv'
    BY <1>12 DEF setupVars, login, answers, FlowInv, Valid
  <2> QED
    BY <1>12, <2>1, <2>2, SameEntries DEF setupVars
<1> QED
  BY <1>1, <1>2, <1>3, <1>4, <1>5, <1>6, <1>7, <1>8, <1>9, <1>10, <1>11, <1>12 DEF NextSetup

LEMMA CodeStep == CodeInv /\ [NextSetup]_setupVars => CodeInv'
<1> SUFFICES ASSUME CodeInv, [NextSetup]_setupVars PROVE CodeInv'
  OBVIOUS
<1>1. CASE TimePasses \/ UserGrants
  BY <1>1 DEF CodeInv, TimePasses, UserGrants
<1>2. CASE ShowCode
  BY <1>2 DEF CodeInv, ShowCode, NoCode
<1>3. CASE StartFlow \/ StartReauth \/ Abandon \/ ConfirmToken \/ CreateEntry \/ CreateLanEntry
  BY <1>3 DEF CodeInv, StartFlow, StartReauth, Abandon, ConfirmToken, Updated, CreateEntry,
              CreateLanEntry, Created, Close, FreshFlow, NoMoreCode, NoCode
<1>4. CASE Granted \/ GrantRefused
  BY <1>4 DEF CodeInv, Granted, GrantRefused, Updated, Close, FreshFlow, NoMoreCode, NoCode
<1>5. CASE \/ StartPolling \/ CheckCode \/ CheckFails \/ Checked \/ PollingFailed \/ TypeToken
           \/ LoadHouses \/ ChooseHouse \/ DiscoverGateways \/ UNCHANGED setupVars
  BY <1>5 DEF CodeInv, StartPolling, CheckCode, CheckFails, Checked, PollingFailed, TypeToken,
              LoadHouses, ChooseHouse, DiscoverGateways, login, setupVars
<1> QED
  BY <1>1, <1>2, <1>3, <1>4, <1>5 DEF NextSetup

LEMMA StepInv == SetupInv /\ [NextSetup]_setupVars => SetupInv'
BY StepSound, CodeStep DEF SetupInv

LEMMA InitInv == InitSetup => SetupInv
BY InitSound DEF InitSetup, SetupInv, CodeInv, NoCode

(* The inductive invariant.                                                    *)
THEOREM SetupInvariant == SpecSetup => []SetupInv
<1> QED
  BY InitInv, StepInv, PTL DEF SpecSetup

(* Token, house, region and unique id of every entry belong together.         *)
THEOREM EntriesStaySound == SpecSetup => []EntriesSound
<1>1. SetupInv => EntriesSound
  <2> SUFFICES ASSUME SetupInv, NEW e \in entries, e.mode # "lan"
               PROVE  /\ Valid(e.token, e.house)
                      /\ e.mode = "cloud" =>
                          /\ e.token.region \in {Nil, e.region}
                          /\ e.uid[3] = Identity(e.token)
                          /\ \A f \in entries \ {e} :
                              (f.mode = "cloud" /\ e.token.named /\ f.token.named) =>
                                  <<e.region, e.house, e.token.account>>
                                      # <<f.region, f.house, f.token.account>>
    BY DEF EntriesSound
  <2>1. \A f \in entries : EntryInv(f)
    BY DEF SetupInv, SoundInv, EntriesInv
  <2>2. ASSUME NEW f \in entries \ {e}, e.mode = "cloud", f.mode = "cloud", e.token.named,
               f.token.named,
               <<e.region, e.house, e.token.account>> = <<f.region, f.house, f.token.account>>
        PROVE  FALSE
    <3>1. Identity(e.token) = Identity(f.token) /\ e.region = f.region /\ e.house = f.house
      BY <2>2 DEF Identity
    <3>2. e.uid = f.uid
      BY <2>1, <2>2, <3>1 DEF EntryInv
    <3> QED
      BY <3>2 DEF SetupInv, SoundInv, EntriesInv
  <2> QED
    BY <2>1, <2>2 DEF EntryInv
<1> QED
  BY <1>1, SetupInvariant, PTL

(* A grant the server has told of is used, however late the answer.           *)
THEOREM GrantsUsed == SpecSetup => GrantsAreUsed
<1> DEFINE Used ==
        (poll \in {"check", "login"} /\ poll' # poll /\ reply.status = "LOGIN"
            /\ page' # "closed") =>
        \/ poll' = "login" \/ page' = "houses"
        \/ ~SameRegion(reply.token)
        \/ reauth # Nil /\ ~(/\ reauth.token.account = reply.token.account
                             /\ reauth.token.named /\ reply.token.named)
<1>1. SetupInv /\ [NextSetup]_setupVars => [Used]_setupVars
  <2> SUFFICES ASSUME SetupInv, NextSetup, poll \in {"check", "login"}, poll' # poll,
                      reply.status = "LOGIN", page' # "closed"
               PROVE  \/ poll' = "login" \/ page' = "houses"
                      \/ ~SameRegion(reply.token)
                      \/ reauth # Nil /\ ~(/\ reauth.token.account = reply.token.account
                                           /\ reauth.token.named /\ reply.token.named)
    OBVIOUS
  <2>1. page = "scan"
    BY DEF SetupInv, SoundInv, FlowInv
  <2>2. Checked \/ Granted \/ GrantRefused
    <3>1. ~(TimePasses \/ UserGrants \/ ShowCode \/ StartPolling \/ CheckCode \/ CheckFails
            \/ PollingFailed)
      BY DEF TimePasses, UserGrants, ShowCode, StartPolling, CheckCode, CheckFails,
             PollingFailed
    <3>2. ~(StartFlow \/ StartReauth \/ TypeToken \/ ConfirmToken \/ LoadHouses \/ ChooseHouse
            \/ CreateEntry \/ DiscoverGateways \/ CreateLanEntry)
      BY <2>1 DEF StartFlow, StartReauth, TypeToken, ConfirmToken, LoadHouses, ChooseHouse,
                  CreateEntry, DiscoverGateways, CreateLanEntry
    <3>3. ~Abandon
      BY DEF Abandon, Close
    <3> QED
      BY <3>1, <3>2, <3>3 DEF NextSetup
  <2>3. CASE Checked
    BY <2>3 DEF Checked, AfterCheck
  <2>4. CASE Granted
    BY <2>4 DEF Granted, Updated, Close
  <2>5. CASE GrantRefused
    BY <2>5 DEF GrantRefused, Accepted, SameAccount, Identity
  <2> QED
    BY <2>2, <2>3, <2>4, <2>5
<1> QED
  BY <1>1, SetupInvariant, PTL DEF SpecSetup, GrantsAreUsed

-----------------------------------------------------------------------------
(* TokenRefresh *)

USE SetupAssumption, ClientsAssumption, BoundAssumption, NoneAssumption

(* What becomes of the entry data when tokens or settings are set.             *)
LEMMA EntryTokens ==
    ASSUME NEW e \in Entries, NEW n \in Tokens, NEW l \in Lives
    PROVE  /\ WithTokens(e, n, l) \in Entries /\ WithTokens(e, n, l).push = e.push
           /\ WithTokens(e, n, l).token = n /\ WithTokens(e, n, l).access = n
BY DEF Entries, WithTokens

LEMMA EntryAccess ==
    ASSUME NEW e \in Entries, NEW n \in Tokens
    PROVE  /\ WithAccess(e, n) \in Entries /\ WithAccess(e, n).push = e.push
           /\ WithAccess(e, n).token = e.token /\ WithAccess(e, n).access = n
BY DEF Entries, WithAccess

LEMMA EntryFacts ==
    ASSUME NEW e \in Entries
    PROVE  /\ e # None /\ e.token \in Tokens /\ e.access \in Tokens /\ e.push \in {0, 1}
           /\ e.life \in Lives
           /\ [e EXCEPT !.push = 1 - @] \in Entries
<1>1. /\ e # None /\ e.token \in Tokens /\ e.access \in Tokens /\ e.push \in {0, 1}
      /\ e.life \in Lives
  BY DEF Entries
<1>2. 1 - e.push \in {0, 1}
  BY <1>1
<1>3. [e EXCEPT !.push = 1 - @] \in Entries
  BY <1>2 DEF Entries
<1> QED
  BY <1>1, <1>3

(* What happens to the queue of the lock.                                       *)
LEMMA QueueFacts ==
    ASSUME NEW q \in Seq(Tasks), NEW t \in Tasks
    PROVE  /\ Append(q, t) \in Seq(Tasks) /\ Append(q, t) # <<>>
           /\ q = <<>> => Head(Append(q, t)) = t
           /\ q # <<>> => Head(Append(q, t)) = Head(q) /\ Tail(q) \in Seq(Tasks)
OBVIOUS

(* A task that asks for the lock gets it if nobody has it, and waits otherwise.  *)
LEMMA Asked ==
    ASSUME TypeOK, LockInv, NEW t \in Tasks, AskForLock(t)
    PROVE  /\ queue' \in Seq(Tasks)
           /\ read' \in Entries \cup {None} /\ doubtful' \in BOOLEAN
           /\ \E s \in {"queued", "refreshing"} : pc' = [pc EXCEPT ![t] = s]
           /\ \/ /\ \A u \in Tasks : pc[u] # "refreshing"
                 /\ queue' # <<>> /\ Head(queue') = t /\ pc' = [pc EXCEPT ![t] = "refreshing"]
                 /\ read' = entry /\ doubtful' = (harm \cap Deadly # {})
              \/ /\ queue # <<>> /\ queue' # <<>> /\ Head(queue') = Head(queue)
                 /\ pc' = [pc EXCEPT ![t] = "queued"] /\ read' = read /\ doubtful' = doubtful
<1>1. queue' = Append(queue, t) /\ queue \in Seq(Tasks)
  BY DEF AskForLock, TypeOK
<1>2. CASE queue = <<>>
  <2>1. \A u \in Tasks : pc[u] # "refreshing"
    BY <1>2 DEF LockInv, Holds
  <2> QED
    BY <1>1, <1>2, <2>1, QueueFacts DEF AskForLock, ReadEntry, TypeOK
<1>3. CASE queue # <<>>
  BY <1>1, <1>3, QueueFacts DEF AskForLock, TypeOK
<1> QED
  BY <1>2, <1>3

(* What a refresh and a login store.                                            *)
LEMMA Stored ==
    ASSUME TypeOK, LockInv
    PROVE  /\ \A t \in Tasks : Refreshed(t) =>
                /\ entry' \in Entries /\ issued' \in Tokens /\ read # None /\ read \in Entries
                /\ entry'.token = issued' /\ entry'.access = issued' /\ entry'.push = read.push
           /\ Reauthenticated =>
                /\ entry' \in Entries /\ issued' \in Tokens
                /\ entry'.push = entry.push
                /\ mode = "cloud" => entry'.token = issued'
                /\ mode # "cloud" => entry'.token = entry.token
<1> USE DEF TypeOK
<1>1. ASSUME NEW t \in Tasks, Refreshed(t)
      PROVE  /\ entry' \in Entries /\ issued' \in Tokens /\ read # None /\ read \in Entries
             /\ entry'.token = issued' /\ entry'.access = issued' /\ entry'.push = read.push
  <2>1. issued' \in Tokens
    BY <1>1 DEF Refreshed, Issue, Tokens
  <2>2. read # None /\ read \in Entries
    BY <1>1 DEF Refreshed, LockInv
  <2>3. PICK l \in Lives : entry' = WithTokens(read, issued', l)
    BY <1>1 DEF Refreshed
  <2>4. l \in Lives
    OBVIOUS
  <2> QED
    BY ONLY <2>1, <2>2, <2>3, <2>4, EntryTokens
<1>2. ASSUME Reauthenticated
      PROVE  /\ entry' \in Entries /\ issued' \in Tokens
             /\ entry'.push = entry.push
             /\ mode = "cloud" => entry'.token = issued'
             /\ mode # "cloud" => entry'.token = entry.token
  <2>1. issued' \in Tokens /\ entry \in Entries
    <3>1. Issue({})
      BY <1>2 DEF Reauthenticated
    <3> QED
      BY <3>1 DEF Issue, Tokens
  <2>2. CASE mode = "cloud"
    <3>1. PICK l \in Lives :
            entry' = WithTokens(entry, issued', l)
      BY <1>2, <2>2 DEF Reauthenticated
    <3>2. l \in Lives
      OBVIOUS
    <3> QED
      BY ONLY <2>1, <2>2, <3>1, <3>2, EntryTokens
  <2>3. CASE mode # "cloud"
    <3>1. entry' = WithAccess(entry, issued')
      BY <1>2, <2>3 DEF Reauthenticated
    <3> QED
      BY ONLY <2>1, <2>3, <3>1, EntryAccess
  <2> QED
    BY <2>2, <2>3
<1> QED
  BY <1>1, <1>2

(* An entry just created is in the invariant.                                   *)
LEMMA InitInd == Init => IndInv
<1> SUFFICES ASSUME Init PROVE IndInv
  OBVIOUS
<1>1. entry \in Entries /\ entry.token = 0 /\ entry.access = 0 /\ entry.push = 0
  BY DEF Init, Entries, Tokens
<1>2. TypeOK
  <2>1. /\ mode \in {"cloud", "private"} /\ current \in Clients /\ loaded \in BOOLEAN
        /\ reloadDue \in BOOLEAN /\ read = None /\ doubtful \in BOOLEAN /\ wanted \in {0, 1}
        /\ pending = None /\ harm \in SUBSET Harms
    BY DEF Init
  <2>2. client \in [Clients -> Tokens] /\ live \in SUBSET Tokens /\ issued \in Tokens
    BY DEF Init, Tokens
  <2>3. queue \in Seq(Tasks) /\ via \in [Tasks -> Clients \cup {None}]
        /\ pc \in [Tasks -> {"idle", "sent", "queued", "refreshing", "retried"}]
    BY DEF Init
  <2> QED
    BY <1>1, <2>1, <2>2, <2>3 DEF TypeOK
<1>3. LockInv /\ ReadInv
  BY DEF Init, LockInv, ReadInv, Tasks
<1>4. NoTokenSpentTwice /\ EntryTokenIsLive /\ SettingKept /\ ClientHasEntryToken
  BY <1>1 DEF Init, NoTokenSpentTwice, EntryTokenIsLive, SettingKept, ClientHasEntryToken, Tasks
<1> QED
  BY <1>2, <1>3, <1>4 DEF IndInv

(* Every step keeps the types. *)
LEMMA TypeStep ==
    ASSUME TypeOK, LockInv, [Next]_vars
    PROVE  TypeOK'
<1> USE DEF TypeOK, Tasks, Tokens, Harms, LockInv, Holds, tasks, lock, server
<1>1. CASE Revoke
  BY <1>1, EntryFacts, Stored, Asked, QueueFacts DEF Revoke
<1>2. ASSUME NEW r \in Requests, SendRequest(r) PROVE TypeOK'
  BY <1>2, EntryFacts, Stored, Asked, QueueFacts DEF SendRequest
<1>3. ASSUME NEW r \in Requests, RequestEnds(r) PROVE TypeOK'
  BY <1>3, EntryFacts, Stored, Asked, QueueFacts DEF RequestEnds
<1>4. ASSUME NEW r \in Requests, Unauthorized(r) PROVE TypeOK'
  <2>1. mode' \in {"cloud", "private"} /\ entry' \in Entries
    BY <1>4, EntryFacts, Stored, Asked, QueueFacts DEF Unauthorized
  <2>2. client' \in [Clients -> Tokens] /\ current' \in Clients
    BY <1>4, EntryFacts, Stored, Asked, QueueFacts DEF Unauthorized
  <2>3. loaded' \in BOOLEAN /\ reloadDue' \in BOOLEAN
    BY <1>4, EntryFacts, Stored, Asked, QueueFacts DEF Unauthorized
  <2>4. pc' \in [Tasks -> {"idle", "sent", "queued", "refreshing", "retried"}]
    BY <1>4, EntryFacts, Stored, Asked, QueueFacts DEF Unauthorized
  <2>5. via' \in [Tasks -> Clients \cup {None}]
    BY <1>4, EntryFacts, Stored, Asked, QueueFacts DEF Unauthorized
  <2>6. queue' \in Seq(Tasks)
    BY <1>4, EntryFacts, Stored, Asked, QueueFacts DEF Unauthorized
  <2>7. read' \in Entries \cup {None} /\ doubtful' \in BOOLEAN
    BY <1>4, EntryFacts, Stored, Asked, QueueFacts DEF Unauthorized
  <2>8. pending' \in Entries \cup {None} /\ wanted' \in {0, 1}
    BY <1>4, EntryFacts, Stored, Asked, QueueFacts DEF Unauthorized
  <2>9. live' \in SUBSET Tokens /\ issued' \in Tokens
    BY <1>4, EntryFacts, Stored, Asked, QueueFacts DEF Unauthorized
  <2>10. harm' \in SUBSET Harms
    BY <1>4, EntryFacts, Stored, Asked, QueueFacts DEF Unauthorized
  <2> QED
    BY <2>1, <2>2, <2>3, <2>4, <2>5, <2>6, <2>7, <2>8, <2>9, <2>10
<1>5. ASSUME NEW t \in Tasks, Acquire(t) PROVE TypeOK'
  BY <1>5, EntryFacts, Stored, Asked, QueueFacts DEF Acquire, ReadEntry
<1>6. CASE AlreadyRefreshed
  <2>1. mode' \in {"cloud", "private"} /\ entry' \in Entries
    BY <1>6, EntryFacts, Stored, Asked, QueueFacts DEF AlreadyRefreshed, Release
  <2>2. client' \in [Clients -> Tokens] /\ current' \in Clients
    BY <1>6, EntryFacts, Stored, Asked, QueueFacts DEF AlreadyRefreshed, Release
  <2>3. loaded' \in BOOLEAN /\ reloadDue' \in BOOLEAN
    BY <1>6, EntryFacts, Stored, Asked, QueueFacts DEF AlreadyRefreshed, Release
  <2>4. pc' \in [Tasks -> {"idle", "sent", "queued", "refreshing", "retried"}]
    BY <1>6, EntryFacts, Stored, Asked, QueueFacts DEF AlreadyRefreshed, Release
  <2>5. via' \in [Tasks -> Clients \cup {None}]
    BY <1>6, EntryFacts, Stored, Asked, QueueFacts DEF AlreadyRefreshed, Release
  <2>6. queue' \in Seq(Tasks)
    BY <1>6, EntryFacts, Stored, Asked, QueueFacts DEF AlreadyRefreshed, Release
  <2>7. read' \in Entries \cup {None} /\ doubtful' \in BOOLEAN
    BY <1>6, EntryFacts, Stored, Asked, QueueFacts DEF AlreadyRefreshed, Release
  <2>8. pending' \in Entries \cup {None} /\ wanted' \in {0, 1}
    BY <1>6, EntryFacts, Stored, Asked, QueueFacts DEF AlreadyRefreshed, Release
  <2>9. live' \in SUBSET Tokens /\ issued' \in Tokens
    BY <1>6, EntryFacts, Stored, Asked, QueueFacts DEF AlreadyRefreshed, Release
  <2>10. harm' \in SUBSET Harms
    BY <1>6, EntryFacts, Stored, Asked, QueueFacts DEF AlreadyRefreshed, Release
  <2> QED
    BY <2>1, <2>2, <2>3, <2>4, <2>5, <2>6, <2>7, <2>8, <2>9, <2>10
<1>7. ASSUME NEW t \in Tasks, Refreshed(t) PROVE TypeOK'
  <2>1. mode' \in {"cloud", "private"} /\ entry' \in Entries
    BY <1>7, EntryFacts, Stored, Asked, QueueFacts DEF Refreshed, Release, Issue
  <2>2. client' \in [Clients -> Tokens] /\ current' \in Clients
    BY <1>7, EntryFacts, Stored, Asked, QueueFacts DEF Refreshed, Release, Issue
  <2>3. loaded' \in BOOLEAN /\ reloadDue' \in BOOLEAN
    BY <1>7, EntryFacts, Stored, Asked, QueueFacts DEF Refreshed, Release, Issue
  <2>4. pc' \in [Tasks -> {"idle", "sent", "queued", "refreshing", "retried"}]
    BY <1>7, EntryFacts, Stored, Asked, QueueFacts DEF Refreshed, Release, Issue
  <2>5. via' \in [Tasks -> Clients \cup {None}]
    BY <1>7, EntryFacts, Stored, Asked, QueueFacts DEF Refreshed, Release, Issue
  <2>6. queue' \in Seq(Tasks)
    BY <1>7, EntryFacts, Stored, Asked, QueueFacts DEF Refreshed, Release, Issue
  <2>7. read' \in Entries \cup {None} /\ doubtful' \in BOOLEAN
    BY <1>7, EntryFacts, Stored, Asked, QueueFacts DEF Refreshed, Release, Issue
  <2>8. pending' \in Entries \cup {None} /\ wanted' \in {0, 1}
    BY <1>7, EntryFacts, Stored, Asked, QueueFacts DEF Refreshed, Release, Issue
  <2>9. live' \in SUBSET Tokens /\ issued' \in Tokens
    BY <1>7, EntryFacts, Stored, Asked, QueueFacts DEF Refreshed, Release, Issue
  <2>10. harm' \in SUBSET Harms
    BY <1>7, EntryFacts, Stored, Asked, QueueFacts DEF Refreshed, Release, Issue
  <2> QED
    BY <2>1, <2>2, <2>3, <2>4, <2>5, <2>6, <2>7, <2>8, <2>9, <2>10
<1>8. ASSUME NEW t \in Tasks, RefreshFails(t) PROVE TypeOK'
  <2>1. mode' \in {"cloud", "private"} /\ entry' \in Entries
    BY <1>8, EntryFacts, Stored, Asked, QueueFacts DEF RefreshFails, GiveUp
  <2>2. client' \in [Clients -> Tokens] /\ current' \in Clients
    BY <1>8, EntryFacts, Stored, Asked, QueueFacts DEF RefreshFails, GiveUp
  <2>3. loaded' \in BOOLEAN /\ reloadDue' \in BOOLEAN
    BY <1>8, EntryFacts, Stored, Asked, QueueFacts DEF RefreshFails, GiveUp
  <2>4. pc' \in [Tasks -> {"idle", "sent", "queued", "refreshing", "retried"}]
    BY <1>8, EntryFacts, Stored, Asked, QueueFacts DEF RefreshFails, GiveUp
  <2>5. via' \in [Tasks -> Clients \cup {None}]
    BY <1>8, EntryFacts, Stored, Asked, QueueFacts DEF RefreshFails, GiveUp
  <2>6. queue' \in Seq(Tasks)
    BY <1>8, EntryFacts, Stored, Asked, QueueFacts DEF RefreshFails, GiveUp
  <2>7. read' \in Entries \cup {None} /\ doubtful' \in BOOLEAN
    BY <1>8, EntryFacts, Stored, Asked, QueueFacts DEF RefreshFails, GiveUp
  <2>8. pending' \in Entries \cup {None} /\ wanted' \in {0, 1}
    BY <1>8, EntryFacts, Stored, Asked, QueueFacts DEF RefreshFails, GiveUp
  <2>9. live' \in SUBSET Tokens /\ issued' \in Tokens
    BY <1>8, EntryFacts, Stored, Asked, QueueFacts DEF RefreshFails, GiveUp
  <2>10. harm' \in SUBSET Harms
    BY <1>8, EntryFacts, Stored, Asked, QueueFacts DEF RefreshFails, GiveUp
  <2> QED
    BY <2>1, <2>2, <2>3, <2>4, <2>5, <2>6, <2>7, <2>8, <2>9, <2>10
<1>9. ASSUME NEW t \in Tasks, AnswerLost(t) PROVE TypeOK'
  <2>1. mode' \in {"cloud", "private"} /\ entry' \in Entries
    BY <1>9, EntryFacts, Stored, Asked, QueueFacts DEF AnswerLost, GiveUp
  <2>2. client' \in [Clients -> Tokens] /\ current' \in Clients
    BY <1>9, EntryFacts, Stored, Asked, QueueFacts DEF AnswerLost, GiveUp
  <2>3. loaded' \in BOOLEAN /\ reloadDue' \in BOOLEAN
    BY <1>9, EntryFacts, Stored, Asked, QueueFacts DEF AnswerLost, GiveUp
  <2>4. pc' \in [Tasks -> {"idle", "sent", "queued", "refreshing", "retried"}]
    BY <1>9, EntryFacts, Stored, Asked, QueueFacts DEF AnswerLost, GiveUp
  <2>5. via' \in [Tasks -> Clients \cup {None}]
    BY <1>9, EntryFacts, Stored, Asked, QueueFacts DEF AnswerLost, GiveUp
  <2>6. queue' \in Seq(Tasks)
    BY <1>9, EntryFacts, Stored, Asked, QueueFacts DEF AnswerLost, GiveUp
  <2>7. read' \in Entries \cup {None} /\ doubtful' \in BOOLEAN
    BY <1>9, EntryFacts, Stored, Asked, QueueFacts DEF AnswerLost, GiveUp
  <2>8. pending' \in Entries \cup {None} /\ wanted' \in {0, 1}
    BY <1>9, EntryFacts, Stored, Asked, QueueFacts DEF AnswerLost, GiveUp
  <2>9. live' \in SUBSET Tokens /\ issued' \in Tokens
    BY <1>9, EntryFacts, Stored, Asked, QueueFacts DEF AnswerLost, GiveUp
  <2>10. harm' \in SUBSET Harms
    BY <1>9, EntryFacts, Stored, Asked, QueueFacts DEF AnswerLost, GiveUp
  <2> QED
    BY <2>1, <2>2, <2>3, <2>4, <2>5, <2>6, <2>7, <2>8, <2>9, <2>10
<1>10. CASE Reload
  <2>1. mode' \in {"cloud", "private"} /\ entry' \in Entries
    BY <1>10, EntryFacts, Stored, Asked, QueueFacts DEF Reload
  <2>2. client' \in [Clients -> Tokens] /\ current' \in Clients
    BY <1>10, EntryFacts, Stored, Asked, QueueFacts DEF Reload
  <2>3. loaded' \in BOOLEAN /\ reloadDue' \in BOOLEAN
    BY <1>10, EntryFacts, Stored, Asked, QueueFacts DEF Reload
  <2>4. pc' \in [Tasks -> {"idle", "sent", "queued", "refreshing", "retried"}]
    BY <1>10, EntryFacts, Stored, Asked, QueueFacts DEF Reload
  <2>5. via' \in [Tasks -> Clients \cup {None}]
    BY <1>10, EntryFacts, Stored, Asked, QueueFacts DEF Reload
  <2>6. queue' \in Seq(Tasks)
    BY <1>10, EntryFacts, Stored, Asked, QueueFacts DEF Reload
  <2>7. read' \in Entries \cup {None} /\ doubtful' \in BOOLEAN
    BY <1>10, EntryFacts, Stored, Asked, QueueFacts DEF Reload
  <2>8. pending' \in Entries \cup {None} /\ wanted' \in {0, 1}
    BY <1>10, EntryFacts, Stored, Asked, QueueFacts DEF Reload
  <2>9. live' \in SUBSET Tokens /\ issued' \in Tokens
    BY <1>10, EntryFacts, Stored, Asked, QueueFacts DEF Reload
  <2>10. harm' \in SUBSET Harms
    BY <1>10, EntryFacts, Stored, Asked, QueueFacts DEF Reload
  <2> QED
    BY <2>1, <2>2, <2>3, <2>4, <2>5, <2>6, <2>7, <2>8, <2>9, <2>10
<1>11. CASE OptionsEntered
  BY <1>11, EntryFacts, Stored, Asked, QueueFacts DEF OptionsEntered
<1>12. CASE OptionsAbandoned
  BY <1>12, EntryFacts, Stored, Asked, QueueFacts DEF OptionsAbandoned
<1>13. CASE OptionsConfirmed
  <2>1. mode' \in {"cloud", "private"} /\ entry' \in Entries
    BY <1>13, EntryFacts, Stored, Asked, QueueFacts DEF OptionsConfirmed
  <2>2. client' \in [Clients -> Tokens] /\ current' \in Clients
    BY <1>13, EntryFacts, Stored, Asked, QueueFacts DEF OptionsConfirmed
  <2>3. loaded' \in BOOLEAN /\ reloadDue' \in BOOLEAN
    BY <1>13, EntryFacts, Stored, Asked, QueueFacts DEF OptionsConfirmed
  <2>4. pc' \in [Tasks -> {"idle", "sent", "queued", "refreshing", "retried"}]
    BY <1>13, EntryFacts, Stored, Asked, QueueFacts DEF OptionsConfirmed
  <2>5. via' \in [Tasks -> Clients \cup {None}]
    BY <1>13, EntryFacts, Stored, Asked, QueueFacts DEF OptionsConfirmed
  <2>6. queue' \in Seq(Tasks)
    BY <1>13, EntryFacts, Stored, Asked, QueueFacts DEF OptionsConfirmed
  <2>7. read' \in Entries \cup {None} /\ doubtful' \in BOOLEAN
    BY <1>13, EntryFacts, Stored, Asked, QueueFacts DEF OptionsConfirmed
  <2>8. pending' \in Entries \cup {None} /\ wanted' \in {0, 1}
    BY <1>13, EntryFacts, Stored, Asked, QueueFacts DEF OptionsConfirmed
  <2>9. live' \in SUBSET Tokens /\ issued' \in Tokens
    BY <1>13, EntryFacts, Stored, Asked, QueueFacts DEF OptionsConfirmed
  <2>10. harm' \in SUBSET Harms
    BY <1>13, EntryFacts, Stored, Asked, QueueFacts DEF OptionsConfirmed
  <2> QED
    BY <2>1, <2>2, <2>3, <2>4, <2>5, <2>6, <2>7, <2>8, <2>9, <2>10
<1>14. CASE Reauthenticated
  <2>1. mode' \in {"cloud", "private"} /\ entry' \in Entries
    BY <1>14, EntryFacts, Stored, Asked, QueueFacts DEF Reauthenticated, Issue
  <2>2. client' \in [Clients -> Tokens] /\ current' \in Clients
    BY <1>14, EntryFacts, Stored, Asked, QueueFacts DEF Reauthenticated, Issue
  <2>3. loaded' \in BOOLEAN /\ reloadDue' \in BOOLEAN
    BY <1>14, EntryFacts, Stored, Asked, QueueFacts DEF Reauthenticated, Issue
  <2>4. pc' \in [Tasks -> {"idle", "sent", "queued", "refreshing", "retried"}]
    BY <1>14, EntryFacts, Stored, Asked, QueueFacts DEF Reauthenticated, Issue
  <2>5. via' \in [Tasks -> Clients \cup {None}]
    BY <1>14, EntryFacts, Stored, Asked, QueueFacts DEF Reauthenticated, Issue
  <2>6. queue' \in Seq(Tasks)
    BY <1>14, EntryFacts, Stored, Asked, QueueFacts DEF Reauthenticated, Issue
  <2>7. read' \in Entries \cup {None} /\ doubtful' \in BOOLEAN
    BY <1>14, EntryFacts, Stored, Asked, QueueFacts DEF Reauthenticated, Issue
  <2>8. pending' \in Entries \cup {None} /\ wanted' \in {0, 1}
    BY <1>14, EntryFacts, Stored, Asked, QueueFacts DEF Reauthenticated, Issue
  <2>9. live' \in SUBSET Tokens /\ issued' \in Tokens
    BY <1>14, EntryFacts, Stored, Asked, QueueFacts DEF Reauthenticated, Issue
  <2>10. harm' \in SUBSET Harms
    BY <1>14, EntryFacts, Stored, Asked, QueueFacts DEF Reauthenticated, Issue
  <2> QED
    BY <2>1, <2>2, <2>3, <2>4, <2>5, <2>6, <2>7, <2>8, <2>9, <2>10
<1>15. CASE UNCHANGED vars
  BY <1>15 DEF vars
<1> QED
  BY <1>1, <1>2, <1>3, <1>4, <1>5, <1>6, <1>7, <1>8, <1>9, <1>10, <1>11, <1>12, <1>13, <1>14,
     <1>15 DEF Next

(* Only the holder of the lock refreshes. *)
LEMMA LockStep ==
    ASSUME TypeOK, LockInv, [Next]_vars
    PROVE  LockInv'
<1> USE DEF TypeOK, Tasks, Tokens, Harms, LockInv, Holds, tasks, lock, server
<1>1. CASE Revoke
  BY <1>1, EntryFacts, Stored, Asked, QueueFacts DEF Revoke
<1>2. ASSUME NEW r \in Requests, SendRequest(r) PROVE LockInv'
  BY <1>2, EntryFacts, Stored, Asked, QueueFacts DEF SendRequest
<1>3. ASSUME NEW r \in Requests, RequestEnds(r) PROVE LockInv'
  BY <1>3, EntryFacts, Stored, Asked, QueueFacts DEF RequestEnds
<1>4. ASSUME NEW r \in Requests, Unauthorized(r) PROVE LockInv'
  BY <1>4, EntryFacts, Stored, Asked, QueueFacts DEF Unauthorized
<1>5. ASSUME NEW t \in Tasks, Acquire(t) PROVE LockInv'
  BY <1>5, EntryFacts, Stored, Asked, QueueFacts DEF Acquire, ReadEntry
<1>6. CASE AlreadyRefreshed
  BY <1>6, EntryFacts, Stored, Asked, QueueFacts DEF AlreadyRefreshed, Release
<1>7. ASSUME NEW t \in Tasks, Refreshed(t) PROVE LockInv'
  BY <1>7, EntryFacts, Stored, Asked, QueueFacts DEF Refreshed, Release, Issue
<1>8. ASSUME NEW t \in Tasks, RefreshFails(t) PROVE LockInv'
  BY <1>8, EntryFacts, Stored, Asked, QueueFacts DEF RefreshFails, GiveUp
<1>9. ASSUME NEW t \in Tasks, AnswerLost(t) PROVE LockInv'
  BY <1>9, EntryFacts, Stored, Asked, QueueFacts DEF AnswerLost, GiveUp
<1>10. CASE Reload
  BY <1>10, EntryFacts, Stored, Asked, QueueFacts DEF Reload
<1>11. CASE OptionsEntered
  BY <1>11, EntryFacts, Stored, Asked, QueueFacts DEF OptionsEntered
<1>12. CASE OptionsAbandoned
  BY <1>12, EntryFacts, Stored, Asked, QueueFacts DEF OptionsAbandoned
<1>13. CASE OptionsConfirmed
  BY <1>13, EntryFacts, Stored, Asked, QueueFacts DEF OptionsConfirmed
<1>14. CASE Reauthenticated
  BY <1>14, EntryFacts, Stored, Asked, QueueFacts DEF Reauthenticated, Issue
<1>15. CASE UNCHANGED vars
  BY <1>15 DEF vars
<1> QED
  BY <1>1, <1>2, <1>3, <1>4, <1>5, <1>6, <1>7, <1>8, <1>9, <1>10, <1>11, <1>12, <1>13, <1>14,
     <1>15 DEF Next

(* What was read keeps the setting, unless the options changed meanwhile. *)
LEMMA ReadStep ==
    ASSUME TypeOK, LockInv, ReadInv, SettingKept, [Next]_vars
    PROVE  ReadInv'
<1> USE DEF TypeOK, Tasks, Tokens, Harms, LockInv, Holds, ReadInv, SettingKept, Deadly, tasks, lock, server
<1>1. CASE Revoke
  BY <1>1, EntryFacts, Stored, Asked, QueueFacts DEF Revoke
<1>2. ASSUME NEW r \in Requests, SendRequest(r) PROVE ReadInv'
  BY <1>2, EntryFacts, Stored, Asked, QueueFacts DEF SendRequest
<1>3. ASSUME NEW r \in Requests, RequestEnds(r) PROVE ReadInv'
  BY <1>3, EntryFacts, Stored, Asked, QueueFacts DEF RequestEnds
<1>4. ASSUME NEW r \in Requests, Unauthorized(r) PROVE ReadInv'
  BY <1>4, EntryFacts, Stored, Asked, QueueFacts DEF Unauthorized
<1>5. ASSUME NEW t \in Tasks, Acquire(t) PROVE ReadInv'
  BY <1>5, EntryFacts, Stored, Asked, QueueFacts DEF Acquire, ReadEntry
<1>6. CASE AlreadyRefreshed
  BY <1>6, EntryFacts, Stored, Asked, QueueFacts DEF AlreadyRefreshed, Release
<1>7. ASSUME NEW t \in Tasks, Refreshed(t) PROVE ReadInv'
  BY <1>7, EntryFacts, Stored, Asked, QueueFacts DEF Refreshed, Release, Issue
<1>8. ASSUME NEW t \in Tasks, RefreshFails(t) PROVE ReadInv'
  BY <1>8, EntryFacts, Stored, Asked, QueueFacts DEF RefreshFails, GiveUp
<1>9. ASSUME NEW t \in Tasks, AnswerLost(t) PROVE ReadInv'
  BY <1>9, EntryFacts, Stored, Asked, QueueFacts DEF AnswerLost, GiveUp
<1>10. CASE Reload
  BY <1>10, EntryFacts, Stored, Asked, QueueFacts DEF Reload
<1>11. CASE OptionsEntered
  BY <1>11, EntryFacts, Stored, Asked, QueueFacts DEF OptionsEntered
<1>12. CASE OptionsAbandoned
  BY <1>12, EntryFacts, Stored, Asked, QueueFacts DEF OptionsAbandoned
<1>13. CASE OptionsConfirmed
  BY <1>13, EntryFacts, Stored, Asked, QueueFacts DEF OptionsConfirmed
<1>14. CASE Reauthenticated
  BY <1>14, EntryFacts, Stored, Asked, QueueFacts DEF Reauthenticated, Issue
<1>15. CASE UNCHANGED vars
  BY <1>15 DEF vars
<1> QED
  BY <1>1, <1>2, <1>3, <1>4, <1>5, <1>6, <1>7, <1>8, <1>9, <1>10, <1>11, <1>12, <1>13, <1>14,
     <1>15 DEF Next

(* Nobody presents a token that was spent. *)
LEMMA SpentStep ==
    ASSUME TypeOK, LockInv, EntryTokenIsLive, NoTokenSpentTwice, [Next]_vars
    PROVE  NoTokenSpentTwice'
<1> USE DEF TypeOK, Tasks, Tokens, Harms, LockInv, Holds, EntryTokenIsLive, NoTokenSpentTwice, Deadly, tasks, lock, server
<1>1. CASE Revoke
  BY <1>1, EntryFacts, Stored, Asked, QueueFacts DEF Revoke
<1>2. ASSUME NEW r \in Requests, SendRequest(r) PROVE NoTokenSpentTwice'
  BY <1>2, EntryFacts, Stored, Asked, QueueFacts DEF SendRequest
<1>3. ASSUME NEW r \in Requests, RequestEnds(r) PROVE NoTokenSpentTwice'
  BY <1>3, EntryFacts, Stored, Asked, QueueFacts DEF RequestEnds
<1>4. ASSUME NEW r \in Requests, Unauthorized(r) PROVE NoTokenSpentTwice'
  BY <1>4, EntryFacts, Stored, Asked, QueueFacts DEF Unauthorized
<1>5. ASSUME NEW t \in Tasks, Acquire(t) PROVE NoTokenSpentTwice'
  BY <1>5, EntryFacts, Stored, Asked, QueueFacts DEF Acquire, ReadEntry
<1>6. CASE AlreadyRefreshed
  BY <1>6, EntryFacts, Stored, Asked, QueueFacts DEF AlreadyRefreshed, Release
<1>7. ASSUME NEW t \in Tasks, Refreshed(t) PROVE NoTokenSpentTwice'
  BY <1>7, EntryFacts, Stored, Asked, QueueFacts DEF Refreshed, Release, Issue
<1>8. ASSUME NEW t \in Tasks, RefreshFails(t) PROVE NoTokenSpentTwice'
  BY <1>8, EntryFacts, Stored, Asked, QueueFacts DEF RefreshFails, GiveUp
<1>9. ASSUME NEW t \in Tasks, AnswerLost(t) PROVE NoTokenSpentTwice'
  BY <1>9, EntryFacts, Stored, Asked, QueueFacts DEF AnswerLost, GiveUp
<1>10. CASE Reload
  BY <1>10, EntryFacts, Stored, Asked, QueueFacts DEF Reload
<1>11. CASE OptionsEntered
  BY <1>11, EntryFacts, Stored, Asked, QueueFacts DEF OptionsEntered
<1>12. CASE OptionsAbandoned
  BY <1>12, EntryFacts, Stored, Asked, QueueFacts DEF OptionsAbandoned
<1>13. CASE OptionsConfirmed
  BY <1>13, EntryFacts, Stored, Asked, QueueFacts DEF OptionsConfirmed
<1>14. CASE Reauthenticated
  BY <1>14, EntryFacts, Stored, Asked, QueueFacts DEF Reauthenticated, Issue
<1>15. CASE UNCHANGED vars
  BY <1>15 DEF vars
<1> QED
  BY <1>1, <1>2, <1>3, <1>4, <1>5, <1>6, <1>7, <1>8, <1>9, <1>10, <1>11, <1>12, <1>13, <1>14,
     <1>15 DEF Next

(* The entry's token stays good, or harm says why not. *)
LEMMA LiveStep ==
    ASSUME TypeOK, LockInv, EntryTokenIsLive, [Next]_vars
    PROVE  EntryTokenIsLive'
<1> USE DEF TypeOK, Tasks, Tokens, Harms, EntryTokenIsLive, Deadly, tasks, lock, server
<1>1. CASE Revoke
  BY <1>1, EntryFacts, Stored, Asked, QueueFacts DEF Revoke
<1>2. ASSUME NEW r \in Requests, SendRequest(r) PROVE EntryTokenIsLive'
  BY <1>2, EntryFacts, Stored, Asked, QueueFacts DEF SendRequest
<1>3. ASSUME NEW r \in Requests, RequestEnds(r) PROVE EntryTokenIsLive'
  BY <1>3, EntryFacts, Stored, Asked, QueueFacts DEF RequestEnds
<1>4. ASSUME NEW r \in Requests, Unauthorized(r) PROVE EntryTokenIsLive'
  BY <1>4, EntryFacts, Stored, Asked, QueueFacts DEF Unauthorized
<1>5. ASSUME NEW t \in Tasks, Acquire(t) PROVE EntryTokenIsLive'
  BY <1>5, EntryFacts, Stored, Asked, QueueFacts DEF Acquire, ReadEntry
<1>6. CASE AlreadyRefreshed
  BY <1>6, EntryFacts, Stored, Asked, QueueFacts DEF AlreadyRefreshed, Release
<1>7. ASSUME NEW t \in Tasks, Refreshed(t) PROVE EntryTokenIsLive'
  BY <1>7, EntryFacts, Stored, Asked, QueueFacts DEF Refreshed, Release, Issue
<1>8. ASSUME NEW t \in Tasks, RefreshFails(t) PROVE EntryTokenIsLive'
  BY <1>8, EntryFacts, Stored, Asked, QueueFacts DEF RefreshFails, GiveUp
<1>9. ASSUME NEW t \in Tasks, AnswerLost(t) PROVE EntryTokenIsLive'
  BY <1>9, EntryFacts, Stored, Asked, QueueFacts DEF AnswerLost, GiveUp
<1>10. CASE Reload
  BY <1>10, EntryFacts, Stored, Asked, QueueFacts DEF Reload
<1>11. CASE OptionsEntered
  BY <1>11, EntryFacts, Stored, Asked, QueueFacts DEF OptionsEntered
<1>12. CASE OptionsAbandoned
  BY <1>12, EntryFacts, Stored, Asked, QueueFacts DEF OptionsAbandoned
<1>13. CASE OptionsConfirmed
  BY <1>13, EntryFacts, Stored, Asked, QueueFacts DEF OptionsConfirmed
<1>14. CASE Reauthenticated
  BY <1>14, EntryFacts, Stored, Asked, QueueFacts DEF Reauthenticated, Issue
<1>15. CASE UNCHANGED vars
  BY <1>15 DEF vars
<1> QED
  BY <1>1, <1>2, <1>3, <1>4, <1>5, <1>6, <1>7, <1>8, <1>9, <1>10, <1>11, <1>12, <1>13, <1>14,
     <1>15 DEF Next

(* The setting stays the one confirmed. *)
LEMMA SettingStep ==
    ASSUME TypeOK, LockInv, ReadInv, SettingKept, [Next]_vars
    PROVE  SettingKept'
<1> USE DEF TypeOK, Tasks, Tokens, Harms, ReadInv, SettingKept, Deadly, tasks, lock, server
<1>1. CASE Revoke
  BY <1>1, EntryFacts, Stored, Asked, QueueFacts DEF Revoke
<1>2. ASSUME NEW r \in Requests, SendRequest(r) PROVE SettingKept'
  BY <1>2, EntryFacts, Stored, Asked, QueueFacts DEF SendRequest
<1>3. ASSUME NEW r \in Requests, RequestEnds(r) PROVE SettingKept'
  BY <1>3, EntryFacts, Stored, Asked, QueueFacts DEF RequestEnds
<1>4. ASSUME NEW r \in Requests, Unauthorized(r) PROVE SettingKept'
  BY <1>4, EntryFacts, Stored, Asked, QueueFacts DEF Unauthorized
<1>5. ASSUME NEW t \in Tasks, Acquire(t) PROVE SettingKept'
  BY <1>5, EntryFacts, Stored, Asked, QueueFacts DEF Acquire, ReadEntry
<1>6. CASE AlreadyRefreshed
  BY <1>6, EntryFacts, Stored, Asked, QueueFacts DEF AlreadyRefreshed, Release
<1>7. ASSUME NEW t \in Tasks, Refreshed(t) PROVE SettingKept'
  BY <1>7, EntryFacts, Stored, Asked, QueueFacts DEF Refreshed, Release, Issue
<1>8. ASSUME NEW t \in Tasks, RefreshFails(t) PROVE SettingKept'
  BY <1>8, EntryFacts, Stored, Asked, QueueFacts DEF RefreshFails, GiveUp
<1>9. ASSUME NEW t \in Tasks, AnswerLost(t) PROVE SettingKept'
  BY <1>9, EntryFacts, Stored, Asked, QueueFacts DEF AnswerLost, GiveUp
<1>10. CASE Reload
  BY <1>10, EntryFacts, Stored, Asked, QueueFacts DEF Reload
<1>11. CASE OptionsEntered
  BY <1>11, EntryFacts, Stored, Asked, QueueFacts DEF OptionsEntered
<1>12. CASE OptionsAbandoned
  BY <1>12, EntryFacts, Stored, Asked, QueueFacts DEF OptionsAbandoned
<1>13. CASE OptionsConfirmed
  BY <1>13, EntryFacts, Stored, Asked, QueueFacts DEF OptionsConfirmed
<1>14. CASE Reauthenticated
  BY <1>14, EntryFacts, Stored, Asked, QueueFacts DEF Reauthenticated, Issue
<1>15. CASE UNCHANGED vars
  BY <1>15 DEF vars
<1> QED
  BY <1>1, <1>2, <1>3, <1>4, <1>5, <1>6, <1>7, <1>8, <1>9, <1>10, <1>11, <1>12, <1>13, <1>14,
     <1>15 DEF Next

(* The loaded client follows the entry. *)
LEMMA ClientStep ==
    ASSUME TypeOK, LockInv, ClientHasEntryToken, [Next]_vars
    PROVE  ClientHasEntryToken'
<1> USE DEF TypeOK, Tasks, Tokens, Harms, LockInv, Holds, ClientHasEntryToken, Deadly, tasks, lock, server
<1>1. CASE Revoke
  BY <1>1, EntryFacts, Stored, Asked, QueueFacts DEF Revoke
<1>2. ASSUME NEW r \in Requests, SendRequest(r) PROVE ClientHasEntryToken'
  BY <1>2, EntryFacts, Stored, Asked, QueueFacts DEF SendRequest
<1>3. ASSUME NEW r \in Requests, RequestEnds(r) PROVE ClientHasEntryToken'
  BY <1>3, EntryFacts, Stored, Asked, QueueFacts DEF RequestEnds
<1>4. ASSUME NEW r \in Requests, Unauthorized(r) PROVE ClientHasEntryToken'
  BY <1>4, EntryFacts, Stored, Asked, QueueFacts DEF Unauthorized
<1>5. ASSUME NEW t \in Tasks, Acquire(t) PROVE ClientHasEntryToken'
  BY <1>5, EntryFacts, Stored, Asked, QueueFacts DEF Acquire, ReadEntry
<1>6. CASE AlreadyRefreshed
  BY <1>6, EntryFacts, Stored, Asked, QueueFacts DEF AlreadyRefreshed, Release
<1>7. ASSUME NEW t \in Tasks, Refreshed(t) PROVE ClientHasEntryToken'
  BY <1>7, EntryFacts, Stored, Asked, QueueFacts DEF Refreshed, Release, Issue
<1>8. ASSUME NEW t \in Tasks, RefreshFails(t) PROVE ClientHasEntryToken'
  BY <1>8, EntryFacts, Stored, Asked, QueueFacts DEF RefreshFails, GiveUp
<1>9. ASSUME NEW t \in Tasks, AnswerLost(t) PROVE ClientHasEntryToken'
  BY <1>9, EntryFacts, Stored, Asked, QueueFacts DEF AnswerLost, GiveUp
<1>10. CASE Reload
  BY <1>10, EntryFacts, Stored, Asked, QueueFacts DEF Reload
<1>11. CASE OptionsEntered
  BY <1>11, EntryFacts, Stored, Asked, QueueFacts DEF OptionsEntered
<1>12. CASE OptionsAbandoned
  BY <1>12, EntryFacts, Stored, Asked, QueueFacts DEF OptionsAbandoned
<1>13. CASE OptionsConfirmed
  BY <1>13, EntryFacts, Stored, Asked, QueueFacts DEF OptionsConfirmed
<1>14. CASE Reauthenticated
  BY <1>14, EntryFacts, Stored, Asked, QueueFacts DEF Reauthenticated, Issue
<1>15. CASE UNCHANGED vars
  BY <1>15 DEF vars
<1> QED
  BY <1>1, <1>2, <1>3, <1>4, <1>5, <1>6, <1>7, <1>8, <1>9, <1>10, <1>11, <1>12, <1>13, <1>14,
     <1>15 DEF Next

(* The inductive invariant holds of every reachable state. *)
THEOREM Invariant == Spec => []IndInv
<1>1. IndInv /\ [Next]_vars => IndInv'
  BY TypeStep, LockStep, ReadStep, SpentStep, LiveStep, SettingStep, ClientStep DEF IndInv
<1> QED
  BY InitInd, <1>1, PTL DEF Spec

(* Every variable keeps its type. *)
THEOREM TypeCorrect == Spec => []TypeOK
<1>1. IndInv => TypeOK
  BY DEF IndInv
<1> QED
  BY Invariant, <1>1, PTL

(* However many requests are refused at once, each refresh presents a token that is
   still accepted, unless the entry held a worthless one already. *)
THEOREM TokenSpentOnce == Spec => []NoTokenSpentTwice
<1>1. IndInv => NoTokenSpentTwice
  BY DEF IndInv
<1> QED
  BY Invariant, <1>1, PTL

(* The entry keeps a refresh token the server accepts, but for three known causes. *)
THEOREM TokenStaysLive == Spec => []EntryTokenIsLive
<1>1. IndInv => EntryTokenIsLive
  BY DEF IndInv
<1> QED
  BY Invariant, <1>1, PTL

(* The push domain confirmed last is kept, unless it was confirmed during a refresh. *)
THEOREM SettingStays == Spec => []SettingKept
<1>1. IndInv => SettingKept
  BY DEF IndInv
<1> QED
  BY Invariant, <1>1, PTL

(* The loaded client sends the entry's access token, unless a request of an earlier
   client refreshed it. *)
THEOREM ClientFollowsEntry == Spec => []ClientHasEntryToken
<1>1. IndInv => ClientHasEntryToken
  BY DEF IndInv
<1> QED
  BY Invariant, <1>1, PTL

(* The tokens in use are live, with the same exceptions.                       *)
THEOREM TokensStayLive == Spec => []TokensInUseAreLive
<1>1. IndInv => TokensInUseAreLive
  BY DEF IndInv, TokensInUseAreLive
<1> QED
  BY Invariant, <1>1, PTL
=============================================================================
