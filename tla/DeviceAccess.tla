---------------------------- MODULE DeviceAccess ----------------------------
(***************************************************************************)
(* Device signing keys of an account and what they may reach: enrollment   *)
(* by a signed challenge, revocation, grants per project, the account-wide *)
(* mode, and project device sessions (engine-api/src/devices.rs,           *)
(* device_sessions.rs and auth/device.rs).  It extends Logins: management  *)
(* needs a login of the account, and a device token is bound to the        *)
(* account's session generation.                                           *)
(*                                                                         *)
(* A key's id is the id of the challenge it was enrolled with.  Signatures *)
(* and the server's own MAC are taken as sound, so only the holder of a    *)
(* key redeems a challenge for it.  Every transaction that calls           *)
(* account_lock holds the account's row and is one step; the extractor's   *)
(* reads come in a step before it.                                         *)
(***************************************************************************)
EXTENDS Logins

CONSTANTS
  Keys,             \* device keys, enrolled or not
  Projects,
  Scopes,           \* what a device token may be for
  ContentScopes,    \* the scopes of AI agents
  Challenges,       \* project session challenges handed out
  DeviceCalls,      \* device requests in flight
  MAX_ACTIVE,       \* unrevoked keys of an account
  MAX_TOTAL,        \* keys of an account
  MAX_GRANTS,       \* active grants of a key
  HOURLY            \* device sessions of a key in its window

VARIABLES
  enrolling,        \* enrollment challenges not yet answered
  key,              \* enrolled keys: account, class, mode
  revoked,          \* keys in device_key_revocation
  grant,            \* active grants: <<key, project>> to scopes
  member,           \* project membership: <<account, project>>
  session,          \* device_session rows: challenge to its key
  stale,            \* challenges past their lifetime
  dtoken,           \* project device tokens handed out
  dcall,            \* what each device request in flight has read
  issued            \* ghost: how often each challenge became a session

deviceVars == <<enrolling, key, revoked, grant, member, session, stale, dtoken,
                dcall, issued>>

ASSUME DeviceLimits == /\ ContentScopes \subseteq Scopes
                       /\ MAX_ACTIVE <= MAX_TOTAL

DeviceInit ==
  /\ enrolling = {}
  /\ key = [k \in {} |-> 0]
  /\ revoked = {}
  /\ grant = [g \in {} |-> {}]
  /\ member = People \X Projects
  /\ session = [c \in {} |-> 0]
  /\ stale = {}
  /\ dtoken = {}
  /\ dcall = [c \in DeviceCalls |-> Idle]
  /\ issued = [c \in Challenges |-> 0]

-----------------------------------------------------------------------------
(* Enrollment and management, by a login of the account *)

KeysOf(p) == {k \in DOMAIN key : key[k].who = p}

Live(p) == KeysOf(p) \ revoked

\* A login of p that account_lock accepts, after the account's row is locked.
account_lock(p) ==
  \E s \in 0..Len(origin) :
    /\ ensure_bound_session(s)
    /\ s \in LoginsOf(p)

\* POST /devices/challenge: refused with too many keys or pending challenges,
\* or for a public key that is already enrolled.
challenge(p, k) ==
  /\ account_lock(p)
  /\ k \notin DOMAIN key
  /\ k \notin {e[2] : e \in enrolling}
  /\ Cardinality(KeysOf(p)) < MAX_TOTAL
  /\ Cardinality(Live(p)) < MAX_ACTIVE
  /\ enrolling' = enrolling \cup {<<p, k>>}
  /\ UNCHANGED <<key, revoked, grant, member, session, stale, dtoken, dcall, issued>>
  /\ UNCHANGED loginVars

\* A mutant: the limits looked at when the challenge was made are trusted.
register_unlimited(p, k, mode, class) ==
  /\ account_lock(p)
  /\ <<p, k>> \in enrolling
  /\ enrolling' = enrolling \ {<<p, k>>}
  /\ key' = [j \in DOMAIN key \cup {k} |->
               IF j = k THEN [who |-> p, mode |-> mode, class |-> class] ELSE key[j]]
  /\ UNCHANGED <<revoked, grant, member, session, stale, dtoken, dcall, issued>>
  /\ UNCHANGED loginVars

\* POST /devices with the signed challenge.  The challenge is used up, the
\* limits are looked at again, and key, mode and class appear together.  An
\* exact retry finds the active key and changes nothing.
register(p, k, mode, class) ==
  /\ account_lock(p)
  /\ <<p, k>> \in enrolling
  /\ Cardinality(KeysOf(p)) < MAX_TOTAL
  /\ Cardinality(Live(p)) < MAX_ACTIVE
  /\ enrolling' = enrolling \ {<<p, k>>}
  /\ key' = [j \in DOMAIN key \cup {k} |->
               IF j = k THEN [who |-> p, mode |-> mode, class |-> class] ELSE key[j]]
  /\ UNCHANGED <<revoked, grant, member, session, stale, dtoken, dcall, issued>>
  /\ UNCHANGED loginVars

\* The five minutes of an enrollment challenge pass.
enrollment_lapses(e) ==
  /\ e \in enrolling
  /\ enrolling' = enrolling \ {e}
  /\ UNCHANGED <<key, revoked, grant, member, session, stale, dtoken, dcall, issued>>
  /\ UNCHANGED loginVars

\* POST /devices/{id}/revoke: for good.
revoke(p, k) ==
  /\ account_lock(p)
  /\ k \in Live(p)
  /\ revoked' = revoked \cup {k}
  /\ UNCHANGED <<enrolling, key, grant, member, session, stale, dtoken, dcall, issued>>
  /\ UNCHANGED loginVars

Grants(k) == {g \in DOMAIN grant : g[1] = k}

\* PUT /devices/{key}/projects/{project}: an own unrevoked key of the class the
\* scopes belong to, for a project the account is a member of.  The same
\* scopes again change nothing; other scopes replace the active grant.
set_grant(p, k, pr, scopes) ==
  /\ account_lock(p)
  /\ k \in Live(p)
  /\ scopes # {}
  /\ IF key[k].class = "agent" THEN scopes \subseteq ContentScopes
                               ELSE scopes \cap ContentScopes = {}
  /\ <<p, pr>> \in member
  /\ <<k, pr>> \notin DOMAIN grant => Cardinality(Grants(k)) < MAX_GRANTS
  /\ <<k, pr>> \in DOMAIN grant => grant[<<k, pr>>] # scopes
  /\ grant' = [g \in DOMAIN grant \cup {<<k, pr>>} |->
                 IF g = <<k, pr>> THEN scopes ELSE grant[g]]
  /\ UNCHANGED <<enrolling, key, revoked, member, session, stale, dtoken, dcall, issued>>
  /\ UNCHANGED loginVars

\* DELETE /devices/{key}/projects/{project}, for a revoked key as well.
clear_grant(p, k, pr) ==
  /\ account_lock(p)
  /\ k \in KeysOf(p)
  /\ <<k, pr>> \in DOMAIN grant
  /\ grant' = Without(grant, {<<k, pr>>})
  /\ UNCHANGED <<enrolling, key, revoked, member, session, stale, dtoken, dcall, issued>>
  /\ UNCHANGED loginVars

\* PATCH /devices/{key}: between single projects and the whole account.
set_access(p, k, mode) ==
  /\ account_lock(p)
  /\ k \in Live(p)
  /\ key[k].mode # mode
  /\ key' = [key EXCEPT ![k].mode = mode]
  /\ UNCHANGED <<enrolling, revoked, grant, member, session, stale, dtoken, dcall, issued>>
  /\ UNCHANGED loginVars

-----------------------------------------------------------------------------
(* Project device sessions *)

\* May key k use all of the scopes on project pr?  The account-wide mode never
\* covers a content scope.
key_reaches(k, pr, scopes) ==
  \/ key[k].mode = "all" /\ scopes \cap ContentScopes = {}
  \/ <<k, pr>> \in DOMAIN grant /\ scopes \subseteq grant[<<k, pr>>]

\* POST .../device-sessions with a signed challenge: the reads before the
\* transaction refuse a key or a challenge that is already spent.
issue_begin(c, ch, k, pr, scopes) ==
  /\ dcall[c] = Idle
  /\ ch \notin stale
  /\ k \in DOMAIN key \ revoked
  /\ ch \notin DOMAIN session
  /\ dcall' = [dcall EXCEPT ![c] = [at |-> "issue", ch |-> ch, key |-> k,
                                    project |-> pr, scopes |-> scopes]]
  /\ UNCHANGED <<enrolling, key, revoked, grant, member, session, stale, dtoken, issued>>
  /\ UNCHANGED loginVars

\* A mutant: only the look before the transaction asks for the row.
RedeemsAgain(ch) == TRUE

\* The row that says a challenge was redeemed is inserted, or is there already.
Redeems(ch) == ch \notin DOMAIN session

\* What a project device token says: key, project, scopes and the account's
\* generation at the time.
mint_project_device(r, generation) ==
  [key |-> r.key, project |-> r.project, scopes |-> r.scopes,
   generation |-> generation]

\* The transaction: the account, the key, the project role, the key's reach
\* and class are read again, the hourly limit is counted under the key's
\* lock, rows that outlived their challenge are dropped, and the challenge is
\* redeemed by inserting its row.
issue(c) ==
  LET r == dcall[c]
      p == key[r.key].who
      kept == Without(session, {ch \in DOMAIN session : ch \in stale})
  IN
  /\ r.at = "issue"
  /\ Active(p)
  /\ r.key \notin revoked
  /\ <<p, r.project>> \in member
  /\ key_reaches(r.key, r.project, r.scopes)
  /\ (key[r.key].class = "agent") <=> (r.scopes \subseteq ContentScopes)
  /\ Cardinality({ch \in DOMAIN kept : kept[ch] = r.key}) < HOURLY
  /\ Redeems(r.ch)
  /\ session' = [ch \in DOMAIN kept \cup {r.ch} |->
                   IF ch = r.ch THEN r.key ELSE kept[ch]]
  /\ dtoken' = dtoken \cup {mint_project_device(r, identity[p].generation)}
  /\ issued' = [issued EXCEPT ![r.ch] = @ + 1]
  /\ dcall' = [dcall EXCEPT ![c] = Idle]
  /\ UNCHANGED <<enrolling, key, revoked, grant, member, stale>>
  /\ UNCHANGED loginVars

\* A device token is as good as the account, the key and its reach are now.
TokenGood(t, pr, scope) ==
  LET p == key[t.key].who IN
  /\ scope \in t.scopes
  /\ pr = t.project
  /\ Active(p)
  /\ t.key \notin revoked
  /\ identity[p].generation = t.generation
  /\ key_reaches(t.key, pr, {scope})

\* A route that takes ProjectAuth: the extractor reads the token's standing.
device_request(c, t, pr, scope) ==
  /\ dcall[c] = Idle
  /\ TokenGood(t, pr, scope)
  /\ dcall' = [dcall EXCEPT ![c] = [at |-> "write", token |-> t, project |-> pr,
                                    scope |-> scope]]
  /\ UNCHANGED <<enrolling, key, revoked, grant, member, session, stale, dtoken, issued>>
  /\ UNCHANGED loginVars


\* account_lock in the handler's transaction, of a request by a device.
device_lock(r) == TokenGood(r.token, r.project, r.scope)

\* The handler's transaction, with the project role it checks itself.
device_write(c) ==
  /\ dcall[c].at = "write"
  /\ device_lock(dcall[c])
  /\ <<key[dcall[c].token.key].who, dcall[c].project>> \in member
  /\ dcall' = [dcall EXCEPT ![c] = Idle]
  /\ UNCHANGED <<enrolling, key, revoked, grant, member, session, stale, dtoken, issued>>
  /\ UNCHANGED loginVars

\* Any refusal, time-out or restart.
device_gives_up(c) ==
  /\ dcall[c] # Idle
  /\ dcall' = [dcall EXCEPT ![c] = Idle]
  /\ UNCHANGED <<enrolling, key, revoked, grant, member, session, stale, dtoken, issued>>
  /\ UNCHANGED loginVars

\* The short life of a session challenge ends; no request is that old.
challenge_lapses(ch) ==
  /\ ch \notin stale
  /\ \A c \in DeviceCalls : dcall[c].at = "issue" => dcall[c].ch # ch
  /\ stale' = stale \cup {ch}
  /\ UNCHANGED <<enrolling, key, revoked, grant, member, session, dtoken, dcall, issued>>
  /\ UNCHANGED loginVars

\* Someone else changes who is a member of a project.
member_changes(p, pr) ==
  /\ member' = IF <<p, pr>> \in member THEN member \ {<<p, pr>>}
                                       ELSE member \cup {<<p, pr>>}
  /\ UNCHANGED <<enrolling, key, revoked, grant, session, stale, dtoken, dcall, issued>>
  /\ UNCHANGED loginVars

\* "revoke_sessions" of an administrator also revokes every key of the account.
revoke_sessions_and_keys(p) ==
  /\ revoke_sessions(p)
  /\ revoked' = revoked \cup KeysOf(p)
  /\ UNCHANGED <<enrolling, key, grant, member, session, stale, dtoken, dcall, issued>>

ManageKey ==
  \E p \in People, k \in Keys :
    \/ challenge(p, k)
    \/ \E mode \in {"granted", "all"}, class \in {"person", "agent"} :
         register(p, k, mode, class)
    \/ revoke(p, k)
    \/ \E mode \in {"granted", "all"} : set_access(p, k, mode)
    \/ \E pr \in Projects : \/ clear_grant(p, k, pr)
                            \/ \E S \in SUBSET Scopes : set_grant(p, k, pr, S)

DeviceNext ==
  \/ ManageKey
  \/ \E e \in enrolling : enrollment_lapses(e)
  \/ \E ch \in Challenges : challenge_lapses(ch)
  \/ \E p \in People : \/ revoke_sessions_and_keys(p)
                       \/ \E pr \in Projects : member_changes(p, pr)
  \/ \E c \in DeviceCalls :
       \/ issue(c)
       \/ device_write(c)
       \/ device_gives_up(c)
       \/ \E ch \in Challenges, k \in Keys, pr \in Projects, s \in Scopes :
            issue_begin(c, ch, k, pr, {s})
       \/ \E t \in dtoken, pr \in Projects, s \in Scopes :
            device_request(c, t, pr, s)

-----------------------------------------------------------------------------
(* What the code promises *)

\* A signed session challenge becomes at most one device session, however
\* many requests carry it and although old rows are dropped
\* (device_sessions.rs issue).
ChallengeOnce == \A ch \in Challenges : issued[ch] <= 1

\* An account never has more keys, or more unrevoked keys, than its limits,
\* and a key never more grants, although challenges are handed out before the
\* keys exist (devices.rs challenge, register, set_grant).
WithinKeyLimits ==
  /\ \A p \in People : /\ Cardinality(KeysOf(p)) <= MAX_TOTAL
                       /\ Cardinality(Live(p)) <= MAX_ACTIVE
  /\ \A k \in DOMAIN key : Cardinality(Grants(k)) <= MAX_GRANTS


(* Credentials at every moment: one login from each, none that is signed   *)
(* out, one refresh token; one session from a challenge, keys in number.   *)
LoginsAndDevicesSound ==
  /\ OneLoginPerCredential /\ SignedOutStaysOut /\ OneUsableToken
  /\ ChallengeOnce /\ WithinKeyLimits
=============================================================================
