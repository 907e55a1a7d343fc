------------------------------- MODULE Logins -------------------------------
(***************************************************************************)
(* Accounts and the logins made for them: emailed and operator-issued      *)
(* sign-in links, one-time hand-over codes from the browser to an app,     *)
(* rotating refresh tokens, sign-out, and the administrator's controls     *)
(* (engine-api/src/auth and the account half of admin.rs and               *)
(* admin_controls.rs).                                                     *)
(*                                                                         *)
(* A secret is its id: whoever presents a link, a code or a token names    *)
(* it.  The code keeps only hashes and an unknown secret changes nothing.  *)
(* A database transaction that holds the account's row, or a single SQL    *)
(* statement, is one step; what a handler read before its transaction is   *)
(* kept in `calls`.  Expiry is the step `lapse`, by a clock no handler     *)
(* controls.                                                               *)
(***************************************************************************)
EXTENDS Naturals, FiniteSets, Sequences

CONSTANTS
  People,          \* accounts
  Links,           \* sign-in links, of either kind
  Codes,           \* hand-over codes
  LoginCalls,      \* requests in flight
  MaxLogins,       \* logins made in a run
  MaxRotations,    \* refresh tokens of one login
  MaxGeneration,   \* account-wide sign-outs of one account
  MAX_OUTSTANDING  \* unused codes an account may hold

VARIABLES
  identity,        \* per account: its session generation, disabled, erased
  link,            \* the sign-in links that were issued
  code,            \* the hand-over codes that were issued
  token,           \* refresh tokens: <<login, n>> is the n-th of its login
  lapsed,          \* links, codes and tokens past their expiry
  calls,           \* what each request in flight has read so far
  origin,          \* per login, the credential it was made from
  ended            \* logins that were signed out

loginVars == <<identity, link, code, token, lapsed, calls, origin, ended>>

Idle == [at |-> "idle"]

\* A configured administrator is neither disabled nor erased from here.
CONSTANT Administrators

Active(p) == ~identity[p].disabled

Fresh(x) == x \notin lapsed

\* An account nobody has made yet is one at its first generation that holds
\* nothing: making it (upsert_identity) is not a step of its own.
NewAccounts == [p \in People |->
                  [generation |-> 0, disabled |-> FALSE, erased |-> FALSE]]

NewLogin(p) == [who |-> p, generation |-> 0, rotated |-> FALSE, revoked |-> FALSE]

LoginInit ==
  /\ identity = NewAccounts
  /\ link = [l \in {} |-> 0]
  /\ code = [c \in {} |-> 0]
  /\ token = [t \in {} |-> 0]
  /\ lapsed = {}
  /\ calls = [c \in LoginCalls |-> Idle]
  /\ origin = <<>>
  /\ ended = {}

\* The same, where one account still holds a refresh token issued before
\* logins had ids.
LegacyInit(p) ==
  /\ identity = NewAccounts
  /\ link = [l \in {} |-> 0]
  /\ code = [c \in {} |-> 0]
  /\ token = [t \in {<<0, 1>>} |-> NewLogin(p)]
  /\ lapsed = {}
  /\ calls = [c \in LoginCalls |-> Idle]
  /\ origin = <<>>
  /\ ended = {}

-----------------------------------------------------------------------------
(* Logins *)

Usable(t) == ~token[t].rotated /\ ~token[t].revoked /\ Fresh(t)

\* The access token of login s still opens a request: the account is active
\* in the token's generation and the login has a usable refresh token.  A
\* login from before logins had ids (0) is only bound to its generation.
ensure_bound_session(s) ==
  \E t \in DOMAIN token :
    /\ t[1] = s
    /\ Usable(t) \/ s = 0
    /\ Active(token[t].who)
    /\ token[t].generation = identity[token[t].who].generation

Tokens(s) == {t \in DOMAIN token : t[1] = s}

LoginsOf(p) == {t[1] : t \in {u \in DOMAIN token : token[u].who = p}}

\* The first refresh token of a new login, inserted only while the account
\* is active in the generation asked for.
mint_session_with(p, generation, from) ==
  /\ Active(p)
  /\ identity[p].generation = generation
  /\ Len(origin) < MaxLogins
  /\ origin' = Append(origin, from)
  /\ LET new == <<Len(origin) + 1, 1>> IN
     token' = [t \in DOMAIN token \cup {new} |->
                 IF t = new
                   THEN [who |-> p, generation |-> generation,
                         rotated |-> FALSE, revoked |-> FALSE]
                   ELSE token[t]]

\* POST /auth/magic-link: the account exists or is made, unless it is
\* disabled; the link remembers the generation it was issued in.
magic_link_request(p, l) ==
  /\ l \notin DOMAIN link
  /\ Active(p)
  /\ link' = [k \in DOMAIN link \cup {l} |->
                IF k = l THEN [kind |-> "magic", who |-> p, state |-> "live",
                               generation |-> identity[p].generation]
                         ELSE link[k]]
  /\ UNCHANGED <<identity, code, token, lapsed, calls, origin, ended>>

\* A mutant: the update forgets to ask whether the link was consumed.
LinkGoodAgain(l) ==
  /\ link[l].state \in {"live", "used"}
  /\ Fresh(l)
  /\ Active(link[l].who)
  /\ link[l].generation = identity[link[l].who].generation

\* A link that can be used: not consumed, not expired, and of an account that
\* is active in the generation the link was issued in.
LinkGood(l) ==
  /\ link[l].state = "live"
  /\ Fresh(l)
  /\ Active(link[l].who)
  /\ link[l].generation = identity[link[l].who].generation

\* The single statement that uses up an emailed link.
consume_magic_link(l) ==
  /\ link[l].kind = "magic"
  /\ LinkGood(l)
  /\ link' = [link EXCEPT ![l].state = "used"]

\* POST /auth/verify with an emailed link: the link is consumed by one
\* statement; the login is made by later ones, in mint_session.
verify_link(c, l) ==
  /\ calls[c] = Idle
  /\ consume_magic_link(l)
  /\ calls' = [calls EXCEPT ![c] = [at |-> "mint", who |-> link[l].who,
                                    from |-> <<"link", l>>]]
  /\ UNCHANGED <<identity, code, token, lapsed, origin, ended>>

\* POST /auth/exchange: the trusted web server vouches for the person.
exchange(c, p) ==
  /\ calls[c] = Idle
  /\ Active(p)
  /\ calls' = [calls EXCEPT ![c] = [at |-> "mint", who |-> p,
                                    from |-> <<"exchange">>]]
  /\ UNCHANGED <<identity, link, code, token, lapsed, origin, ended>>

\* The generation is read, and then the login inserted in it.
mint_session_read(c) ==
  /\ calls[c].at = "mint"
  /\ Active(calls[c].who)
  /\ calls' = [calls EXCEPT ![c] =
                 [at |-> "insert", who |-> calls[c].who, from |-> calls[c].from,
                  generation |-> identity[calls[c].who].generation]]
  /\ UNCHANGED <<identity, link, code, token, lapsed, origin, ended>>

mint_session(c) ==
  /\ calls[c].at = "insert"
  /\ mint_session_with(calls[c].who, calls[c].generation, calls[c].from)
  /\ calls' = [calls EXCEPT ![c] = Idle]
  /\ UNCHANGED <<identity, link, code, lapsed, ended>>

\* A mutant: the update forgets to ask whether the token was rotated.
RefreshGoodAgain(t) ==
  /\ ~token[t].revoked
  /\ Fresh(t)
  /\ Active(token[t].who)
  /\ token[t].generation = identity[token[t].who].generation

\* A refresh token that can be presented for a successor.
RefreshGood(t) ==
  /\ Usable(t)
  /\ Active(token[t].who)
  /\ token[t].generation = identity[token[t].who].generation

\* POST /auth/refresh, under the account's row: the presented token is marked
\* rotated if it is usable, and its successor is issued in the same login and
\* generation.
rotate_bound_refresh(t) ==
  /\ RefreshGood(t)
  /\ Cardinality(Tokens(t[1])) < MaxRotations
  /\ LET new == <<t[1], Cardinality(Tokens(t[1])) + 1>> IN
     token' = [u \in DOMAIN token \cup {new} |->
                 CASE u = new -> [token[t] EXCEPT !.rotated = FALSE]
                   [] u = t -> [token[t] EXCEPT !.rotated = TRUE]
                   [] OTHER -> token[u]]
  /\ UNCHANGED <<identity, link, code, lapsed, calls, origin, ended>>

\* A mutant: only the presented token is revoked.
LineageSelf(t) == {t}

\* What a sign-out with t ends: the tokens of its login or, for a token
\* without a login id, those of the account's generation.
Lineage(t) ==
  IF t[1] # 0
    THEN Tokens(t[1])
    ELSE {u \in DOMAIN token : /\ token[u].who = token[t].who
                               /\ token[u].generation = token[t].generation}

\* POST /auth/logout with any unexpired token of the login, rotated or not.
\* It revokes every token of the login and burns the unused codes the login
\* asked for; without a login id, it ends the account's generation.
revoke_login(t) ==
  LET p == token[t].who
      bound == t[1] # 0
  IN
  /\ ~token[t].revoked
  /\ Fresh(t)
  /\ token[t].generation = identity[p].generation
  /\ identity[p].generation < MaxGeneration
  /\ token' = [u \in DOMAIN token |->
                 IF u \in Lineage(t) THEN [token[u] EXCEPT !.revoked = TRUE]
                                     ELSE token[u]]
  /\ code' = [c \in DOMAIN code |->
                IF bound /\ code[c].session = t[1] /\ code[c].state = "unused"
                  THEN [code[c] EXCEPT !.state = "burned"]
                  ELSE code[c]]
  /\ identity' = [identity EXCEPT ![p].generation =
                     IF bound THEN @ ELSE @ + 1]
  /\ ended' = ended \cup {u[1] : u \in Lineage(t)}
  /\ UNCHANGED <<link, lapsed, calls, origin>>

\* The routes: a secret of the wrong shape, or none that is known, changes
\* nothing and says so (refresh) or does not (logout).
refresh(t) == rotate_bound_refresh(t)

logout(t) == revoke_login(t)

-----------------------------------------------------------------------------
(* Operator links *)

\* The operator's command line issues a link for an active account, and the
\* account's earlier unexpired operator links end as revoked.
issue_operator_link(p, l) ==
  /\ l \notin DOMAIN link
  /\ Active(p)
  /\ link' = [k \in DOMAIN link \cup {l} |->
       CASE k = l -> [kind |-> "operator", who |-> p, state |-> "live",
                      generation |-> identity[p].generation]
         [] k # l /\ link[k].kind = "operator" /\ link[k].who = p
              /\ link[k].state = "live" /\ Fresh(k)
            -> [link[k] EXCEPT !.state = "revoked"]
         [] OTHER -> link[k]]
  /\ UNCHANGED <<identity, code, token, lapsed, calls, origin, ended>>

\* One live link, named by a prefix of its hash, is revoked.
revoke_operator_link(l) ==
  /\ link[l].kind = "operator"
  /\ link[l].state = "live"
  /\ Fresh(l)
  /\ link' = [link EXCEPT ![l].state = "revoked"]
  /\ UNCHANGED <<identity, code, token, lapsed, calls, origin, ended>>

\* POST /auth/verify with an operator link: used and login in one transaction.
redeem_operator_link(l) ==
  /\ link[l].kind = "operator"
  /\ LinkGood(l)
  /\ mint_session_with(link[l].who, link[l].generation, <<"link", l>>)
  /\ link' = [link EXCEPT ![l].state = "used"]
  /\ UNCHANGED <<identity, code, lapsed, calls, ended>>

\* The maintenance sweep closes operator links past their expiry.
sweep_expired(l) ==
  /\ link[l].kind = "operator"
  /\ link[l].state = "live"
  /\ ~Fresh(l)
  /\ link' = [link EXCEPT ![l].state = "expired"]
  /\ UNCHANGED <<identity, code, token, lapsed, calls, origin, ended>>

-----------------------------------------------------------------------------
(* Hand-over codes *)

\* What the access token minted with refresh token t says of its bearer.
access_token(t) == [at |-> "issue", session |-> t[1], who |-> token[t].who,
                    generation |-> token[t].generation]

\* POST /auth/app-handover: the extractor looks at the login ...
handover_begin(c, s) ==
  /\ calls[c] = Idle
  /\ ensure_bound_session(s)
  /\ \E t \in Tokens(s) : calls' = [calls EXCEPT ![c] = access_token(t)]
  /\ UNCHANGED <<identity, link, code, token, lapsed, origin, ended>>

Outstanding(p) ==
  {d \in DOMAIN code : code[d].who = p /\ code[d].state = "unused" /\ Fresh(d)}

\* ... and the transaction, under the account's row, at its generation.
handover_issue(c, d) ==
  LET p == calls[c].who IN
  /\ calls[c].at = "issue"
  /\ d \notin DOMAIN code
  /\ Active(p)
  /\ identity[p].generation = calls[c].generation
  /\ Cardinality(Outstanding(p)) < MAX_OUTSTANDING
  /\ code' = [e \in DOMAIN code \cup {d} |->
                IF e = d THEN [who |-> p, generation |-> calls[c].generation,
                               session |-> calls[c].session, state |-> "unused"]
                         ELSE code[e]]
  /\ calls' = [calls EXCEPT ![c] = Idle]
  /\ UNCHANGED <<identity, link, token, lapsed, origin, ended>>

CodeGood(d) ==
  /\ code[d].state = "unused"
  /\ Fresh(d)
  /\ Active(code[d].who)
  /\ code[d].generation = identity[code[d].who].generation

\* POST /auth/app-handover/redeem, under the code's row.  `proven` says that
\* verifier, state and platform are those the code was issued for: then the
\* code, if good, becomes a login in the same transaction; otherwise an
\* unused code is burned.
consume(d, proven) ==
  /\ IF proven /\ CodeGood(d)
       THEN /\ mint_session_with(code[d].who, code[d].generation, <<"code", d>>)
            /\ code' = [code EXCEPT ![d].state = "redeemed"]
       ELSE /\ code[d].state = "unused"
            /\ code' = [code EXCEPT ![d].state = "burned"]
            /\ UNCHANGED <<token, origin>>
  /\ UNCHANGED <<identity, link, lapsed, calls, ended>>

\* The route: with too many failures from the same address or for the same
\* code prefix it refuses before it looks; the count follows the refusal.
redeem(d) == \E proven \in BOOLEAN : consume(d, proven)

-----------------------------------------------------------------------------
(* The administrator *)

Removable(p) == p \notin Administrators /\ ~identity[p].erased

\* POST /admin/actions on an account: removal ends its generation and revokes
\* its refresh tokens; restoration only lets the account be used again.
account_removed(p) ==
  /\ Removable(p)
  /\ identity[p].generation < MaxGeneration
  /\ identity' = [identity EXCEPT ![p].disabled = TRUE,
                                  ![p].generation = @ + 1]
  /\ token' = [t \in DOMAIN token |->
                 IF token[t].who = p THEN [token[t] EXCEPT !.revoked = TRUE]
                                     ELSE token[t]]
  /\ ended' = ended \cup LoginsOf(p)
  /\ UNCHANGED <<link, code, lapsed, calls, origin>>

account_restored(p) ==
  /\ ~identity[p].erased
  /\ identity' = [identity EXCEPT ![p].disabled = FALSE]
  /\ UNCHANGED <<link, code, token, lapsed, calls, origin, ended>>

Without(f, S) == [x \in DOMAIN f \ S |-> f[x]]

TokensOf(p) == {t \in DOMAIN token : token[t].who = p}

\* The row goes; the secret it was for is never drawn again.
Deleted(S) == [l \in DOMAIN link |->
                 IF l \in S THEN [link[l] EXCEPT !.state = "deleted"] ELSE link[l]]

LinksOf(p, kinds) == {l \in DOMAIN link : link[l].who = p /\ link[l].kind \in kinds}

\* POST /admin/control "revoke_sessions": a new generation, no refresh token
\* and no emailed link; the account's device keys go too (DeviceAccess).
revoke_sessions(p) ==
  /\ ~identity[p].erased
  /\ identity[p].generation < MaxGeneration
  /\ identity' = [identity EXCEPT ![p].generation = @ + 1]
  /\ token' = Without(token, TokensOf(p))
  /\ link' = Deleted(LinksOf(p, {"magic"}))
  /\ ended' = ended \cup LoginsOf(p)
  /\ UNCHANGED <<code, lapsed, calls, origin>>

\* POST /admin/erase of a disabled account that owns nothing any more.
erase_account(p) ==
  /\ Removable(p)
  /\ identity[p].disabled
  /\ identity[p].generation < MaxGeneration
  /\ identity' = [identity EXCEPT ![p] = [generation |-> @.generation + 1,
                                          disabled |-> TRUE, erased |-> TRUE]]
  /\ token' = Without(token, TokensOf(p))
  /\ link' = Deleted(LinksOf(p, {"magic", "operator"}))
  /\ ended' = ended \cup LoginsOf(p)
  /\ UNCHANGED <<code, lapsed, calls, origin>>

\* A request refused, timed out, or cut off by a restart of the server.
give_up(c) ==
  /\ calls[c] # Idle
  /\ calls' = [calls EXCEPT ![c] = Idle]
  /\ UNCHANGED <<identity, link, code, token, lapsed, origin, ended>>

\* The clock passes the expiry of a link, a code or a refresh token.
lapse(x) ==
  /\ x \notin lapsed
  /\ lapsed' = lapsed \cup {x}
  /\ UNCHANGED <<identity, link, code, token, calls, origin, ended>>

AdminStep ==
  \E p \in People : \/ account_removed(p)
                    \/ account_restored(p)
                    \/ revoke_sessions(p)
                    \/ erase_account(p)

LinkStep ==
  \/ \E p \in People, l \in Links :
       \/ magic_link_request(p, l)
       \/ issue_operator_link(p, l)
  \/ \E l \in DOMAIN link :
       \/ revoke_operator_link(l)
       \/ redeem_operator_link(l)
       \/ sweep_expired(l)
       \/ \E c \in LoginCalls : verify_link(c, l)

HandoverStep ==
  \/ \E c \in LoginCalls, s \in 0..Len(origin) : handover_begin(c, s)
  \/ \E c \in LoginCalls, d \in Codes : handover_issue(c, d)
  \/ \E d \in DOMAIN code : redeem(d)

LoginNext ==
  \/ AdminStep
  \/ LinkStep
  \/ HandoverStep
  \/ \E c \in LoginCalls : \/ mint_session_read(c)
                           \/ mint_session(c)
                           \/ give_up(c)
                           \/ \E p \in People : exchange(c, p)
  \/ \E t \in DOMAIN token : refresh(t) \/ logout(t)
  \/ \E x \in DOMAIN link \cup DOMAIN code \cup DOMAIN token : lapse(x)

-----------------------------------------------------------------------------
(* What the code promises *)

\* A sign-in link or a hand-over code makes at most one login, whatever
\* requests present it, in whatever order, and however often (handover.rs
\* consume, store.rs consume_magic_link, operator.rs redeem).
OneLoginPerCredential ==
  \A i, j \in 1..Len(origin) :
    origin[i] = origin[j] /\ origin[i] # <<"exchange">> => i = j

\* A login that was signed out, by itself or with its whole account, never
\* opens a request again and holds no token a refresh would accept, not even
\* after the account is restored (store.rs rotate_bound_refresh against
\* revoke_login).
SignedOutStaysOut ==
  \A s \in ended :
    /\ ~ensure_bound_session(s)
    /\ \A t \in Tokens(s) : ~(/\ Usable(t)
                               /\ token[t].generation =
                                    identity[token[t].who].generation)

\* However refreshes and retries interleave, a login has one refresh token
\* that can still be used, or none (store.rs rotate_bound_refresh).
OneUsableToken ==
  \A t, u \in DOMAIN token :
    t[1] = u[1] /\ Usable(t) /\ Usable(u) => t = u
=============================================================================
