--------------------------- MODULE BrowserSession ---------------------------
(***************************************************************************)
(* The logins of one browser (gateway/auth, admin/router.py): four kinds   *)
(* of session cookie beside one CSRF cookie, sessions kept in Redis for    *)
(* three of them, and the fourth, an access token of the identity          *)
(* provider, introspected there and the answer kept for a while.  Ages and *)
(* times are ticks; 0 is a cookie, key or entry that is not there.         *)
(***************************************************************************)
EXTENDS Naturals

CONSTANTS TtlEnvs,         \* values of the two TTL variables, [local, breakglass]
          SsoTtl,          \* SAML_SESSION_TTL_S, _OIDC_SESSION_COOKIE_TTL_S
          CsrfMaxAge,      \* CSRF_COOKIE_MAX_AGE_S
          StateTtl,        \* lifetime of an outstanding authorization request
          CacheTtl,        \* IntrospectionCache's ttl_s
          HttpTimeout,     \* longest introspection call
          TokenLife,       \* exp of an access token
          MaxLogins        \* bound: logins

ASSUME BrowserAssumption ==
    /\ TtlEnvs \subseteq [{"local", "breakglass"} -> Nat]
    /\ {SsoTtl, CsrfMaxAge, StateTtl, CacheTtl, HttpTimeout, TokenLife} \subseteq Nat
    /\ SsoTtl <= CsrfMaxAge   \* 8 hours and 7 days

VARIABLES ttlEnv,          \* the environment the process was started with
          cookie,          \* kind -> remaining age of the browser's session cookie
          csrf,            \* remaining age of its CSRF cookie
          stored,          \* kind -> remaining life of the session in Redis
          outstanding,     \* kind -> remaining life of the authorization request
          token,           \* the access token at the provider: [exp, active, gone]
          cached,          \* introspection answer: [active, left], left = 0: none
          asking,          \* introspection call in flight: [active, waited] or NoCall
          logins           \* bound

browserVars ==
    <<ttlEnv, cookie, csrf, stored, outstanding, token, cached, asking, logins>>

RedisKinds == {"breakglass", "saml", "local"}
Kinds == RedisKinds \cup {"oidc"}
NoCall == [active |-> FALSE, waited |-> HttpTimeout + 1]
LongGone == CacheTtl + HttpTimeout + 1
NoAnswer == [active |-> FALSE, left |-> 0]

\* Importing the module raises for a session that outlives the CSRF cookie.
SessionTtlFromEnv(ttl) == ttl <= CsrfMaxAge

Ttl(k) == IF k \in {"saml", "oidc"} THEN SsoTtl ELSE ttlEnv[k]

BrowserInit ==
    /\ ttlEnv \in TtlEnvs /\ \A k \in DOMAIN ttlEnv : SessionTtlFromEnv(ttlEnv[k])
    /\ cookie = [k \in Kinds |-> 0] /\ csrf = 0
    /\ stored = [k \in RedisKinds |-> 0]
    /\ outstanding = [k \in {"oidc", "saml"} |-> 0]
    /\ token = [exp |-> 0, active |-> FALSE, gone |-> LongGone]
    /\ cached = NoAnswer /\ asking = NoCall
    /\ logins = 0

-----------------------------------------------------------------------------
\* As long as the session that this login opens.
CsrfLikeSession(k) == Ttl(k)

\* set_csrf_cookie
CsrfAge(k) == CsrfMaxAge

\* set_session_cookie and set_csrf_cookie in the response of a login.
Cookies(k) ==
    /\ cookie' = [cookie EXCEPT ![k] = Ttl(k)]
    /\ csrf' = CsrfAge(k)
    /\ logins < MaxLogins /\ logins' = logins + 1

\* redis_session.create_session
StoreSession(k) == stored' = [stored EXCEPT ![k] = Ttl(k)]

\* login_local and login_breakglass, once authentication has succeeded.
PasswordLogin(k) ==
    /\ k \in {"local", "breakglass"}
    /\ Cookies(k)
    /\ StoreSession(k)
    /\ UNCHANGED <<ttlEnv, outstanding, token, cached, asking>>

\* oidc_login, saml_login
BeginAuthorization(k) ==
    /\ outstanding[k] = 0 /\ logins < MaxLogins
    /\ outstanding' = [outstanding EXCEPT ![k] = StateTtl]
    /\ UNCHANGED <<ttlEnv, cookie, csrf, stored, token, cached, asking, logins>>

\* SamlRequestTracker.consume, and the DELETE of the OIDC state.
Consume(k) ==
    /\ outstanding[k] > 0
    /\ outstanding' = [outstanding EXCEPT ![k] = 0]

\* saml_acs: the request id is consumed also when the response is refused.
SamlAcs(valid) ==
    /\ Consume("saml")
    /\ IF valid THEN Cookies("saml") /\ StoreSession("saml")
       ELSE UNCHANGED <<cookie, csrf, stored, logins>>
    /\ UNCHANGED <<ttlEnv, token, cached, asking>>

\* oidc_callback: the state is deleted first; the cookie carries a fresh access
\* token, under another cache key than the one before.
OidcCallback(valid) ==
    /\ Consume("oidc")
    /\ IF valid
       THEN /\ Cookies("oidc")
            /\ token' = [exp |-> TokenLife, active |-> TRUE, gone |-> 0]
            /\ cached' = NoAnswer /\ asking' = NoCall
       ELSE UNCHANGED <<cookie, csrf, token, cached, asking, logins>>
    /\ UNCHANGED <<ttlEnv, stored>>

\* redis_session.resolve_session
Resolves(k) == cookie[k] > 0 /\ stored[k] > 0

RedisSession == \E k \in RedisKinds : Resolves(k)

\* authenticate, given the provider's answer.
Admits(active) == active /\ token.exp > 0

\* get_session_context: the sessions in Redis come first, then the token.
Authenticated ==
    \/ RedisSession
    \/ cookie["oidc"] > 0 /\ cached.left > 0 /\ Admits(cached.active)

\* introspect_token, when the cache has no answer; the provider may be down.
AskProvider ==
    /\ ~RedisSession /\ cookie["oidc"] > 0 /\ cached.left = 0 /\ asking = NoCall
    /\ asking' = [active |-> token.active /\ token.exp > 0, waited |-> 0]
    /\ UNCHANGED <<ttlEnv, cookie, csrf, stored, outstanding, token, cached, logins>>

\* Every use of the answer gives it another full life.
KeepOnUse ==
    /\ \/ asking # NoCall
          /\ cached' = [active |-> asking.active, left |-> CacheTtl + 1] /\ asking' = NoCall
       \/ asking = NoCall /\ cached.left > 0 /\ cookie["oidc"] > 0
          /\ cached' = [cached EXCEPT !.left = CacheTtl + 1] /\ UNCHANGED asking
    /\ UNCHANGED <<ttlEnv, cookie, csrf, stored, outstanding, token, logins>>

\* cache.put: the answer of the provider, active or not.
KeepAnswer ==
    /\ asking # NoCall
    /\ cached' = [active |-> asking.active, left |-> CacheTtl + 1] /\ asking' = NoCall
    /\ UNCHANGED <<ttlEnv, cookie, csrf, stored, outstanding, token, logins>>

\* IntrospectionUnavailableError: 401, and nothing is kept.
ProviderFails ==
    /\ asking # NoCall /\ asking' = NoCall
    /\ UNCHANGED <<ttlEnv, cookie, csrf, stored, outstanding, token, cached, logins>>

\* logout needs a session and, a session cookie being there, the CSRF cookie.
Logout ==
    /\ Authenticated /\ csrf > 0
    /\ stored' = [k \in RedisKinds |-> IF cookie[k] > 0 THEN 0 ELSE stored[k]]
    /\ cookie' = [k \in Kinds |-> 0] /\ csrf' = 0
    /\ UNCHANGED <<ttlEnv, outstanding, token, cached, asking, logins>>

\* The provider ends the session: external.
RevokeToken ==
    /\ token.active
    /\ token' = [token EXCEPT !.active = FALSE, !.gone = 0]
    /\ UNCHANGED <<ttlEnv, cookie, csrf, stored, outstanding, cached, asking, logins>>

Less(n) == IF n > 0 THEN n - 1 ELSE 0

BrowserTick ==
    /\ asking # NoCall => asking.waited < HttpTimeout
    /\ cookie' = [k \in Kinds |-> Less(cookie[k])] /\ csrf' = Less(csrf)
    /\ stored' = [k \in RedisKinds |-> Less(stored[k])]
    /\ outstanding' = [k \in DOMAIN outstanding |-> Less(outstanding[k])]
    /\ token' = [token EXCEPT !.exp = Less(@),
                              !.gone = IF ~token.active /\ @ < LongGone THEN @ + 1 ELSE @]
    /\ cached' = IF cached.left > 1 THEN [cached EXCEPT !.left = @ - 1] ELSE NoAnswer
    /\ asking' = IF asking = NoCall THEN NoCall ELSE [asking EXCEPT !.waited = @ + 1]
    /\ UNCHANGED <<ttlEnv, logins>>

BrowserNext ==
    \/ \E k \in Kinds : PasswordLogin(k)
    \/ \E k \in DOMAIN outstanding : BeginAuthorization(k)
    \/ \E valid \in BOOLEAN : SamlAcs(valid) \/ OidcCallback(valid)
    \/ AskProvider \/ KeepAnswer \/ ProviderFails \/ Logout \/ RevokeToken \/ BrowserTick

BrowserSpec == BrowserInit /\ [][BrowserNext]_browserVars

-----------------------------------------------------------------------------
\* As long as the browser sends any session cookie it also has a CSRF cookie
\* to read, whichever login wrote the one CSRF cookie last: no session that
\* can be browsed but whose every write is refused.
CsrfOutlivesSession == (\E k \in Kinds : cookie[k] > 0) => csrf > 0

\* A revoked access token stops working: the kept answer lets it in for no
\* longer than the cache's TTL after the call that fetched it was answered.
RevocationTakesEffect ==
    cached.left > 0 /\ Admits(cached.active) /\ ~token.active
        => token.gone <= CacheTtl + HttpTimeout
=============================================================================
