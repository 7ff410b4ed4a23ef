----------------------------- MODULE AuthSessions -----------------------------
(***************************************************************************)
(* The refresh tokens of one session (AuthService.refresh, logout and      *)
(* logout_all): transactions that lock token rows and the session row in   *)
(* different orders.  A transaction keeps its row locks to its end; two    *)
(* that wait for each other are a deadlock, of which the database ends one.*)
(***************************************************************************)
EXTENDS Integers

CONSTANTS
    Calls,          \* requests that run at the same time
    MaxTokens,      \* bound on the tokens of the family
    MaxCalls        \* bound on the requests

ASSUME AuthBounds == MaxTokens \in Nat \ {0} /\ MaxCalls \in Nat

VARIABLES
    token,          \* refresh_tokens of the family, by age: [state, expired]
    revoked,        \* auth_sessions.revoked_at is set
    call,           \* per request: where it is, the rows it has locked, what it saw
    calls

authVars == <<token, revoked, call, calls>>

Ages == 1..MaxTokens
NoCall == [op |-> "none", token |-> 0, tokens |-> {}, session |-> FALSE, seen |-> {}]

AuthTypeOK ==
    /\ token \in [Ages -> [state : {"none", "live", "rotated", "revoked"}, expired : BOOLEAN]]
    /\ revoked \in BOOLEAN
    /\ call \in [Calls -> [op : {"none", "check", "rotate", "family", "logout", "end"},
                           token : 0..MaxTokens, tokens : SUBSET Ages, session : BOOLEAN,
                           seen : SUBSET Ages]]
    /\ calls \in 0..MaxCalls

AuthInit ==         \* login
    /\ token = [a \in Ages |-> [state |-> IF a = 1 THEN "live" ELSE "none", expired |-> FALSE]]
    /\ revoked = FALSE
    /\ call = [c \in Calls |-> NoCall]
    /\ calls = 0
-----------------------------------------------------------------------------
Live == {a \in Ages : token[a].state = "live"}
\* Mutation: SELECT without FOR UPDATE.
LocksIgnored(c) == {}
LockedByOthers(c) == UNION {call[o].tokens : o \in Calls \ {c}}
SessionFree(c) == \A o \in Calls \ {c} : ~call[o].session

Begins(c) == call[c].op = "none" /\ calls < MaxCalls /\ calls' = calls + 1
Returns(c) == call' = [call EXCEPT ![c] = NoCall]

\* get_by_hash locks the token.  One that was rotated is reused: its family is
\* revoked; one that was revoked is refused.
Refresh(c, a) ==
    /\ Begins(c)
    /\ a \notin LockedByOthers(c) /\ token[a].state \in {"live", "rotated"}
    /\ LET reused == token[a].state = "rotated"
       IN  call' = [call EXCEPT ![c] =
               [NoCall EXCEPT !.op = IF reused THEN "family" ELSE "check", !.token = a,
                              !.tokens = {a}, !.seen = IF reused THEN Live ELSE {}]]
    /\ UNCHANGED <<token, revoked>>

\* The session is read without a lock.  A token that has expired, and every token of
\* an inactive user, is revoked together with the session.
CheckSession(c) ==
    /\ call[c].op = "check"
    /\ IF revoked THEN Returns(c)
       ELSE \/ call' = [call EXCEPT ![c].op = "end", ![c].seen = {call[c].token}]
               /\ token[call[c].token].expired
            \/ call' = [call EXCEPT ![c].op = "rotate"] /\ ~token[call[c].token].expired
            \/ call' = [call EXCEPT ![c].op = "family", ![c].seen = Live]      \* inactive user
               /\ ~token[call[c].token].expired
    /\ UNCHANGED <<token, revoked, calls>>

\* The flush updates the session (last_seen_at), then rotates the token.
Rotate(c) ==
    /\ call[c].op = "rotate" /\ SessionFree(c)
    /\ \E new \in Ages :
           /\ token[new].state = "none" /\ \A a \in 1..new - 1 : token[a].state # "none"
           /\ token' = [token EXCEPT ![call[c].token].state = "rotated", ![new].state = "live"]
    /\ Returns(c)
    /\ UNCHANGED <<revoked, calls>>

\* logout locks the session, then revokes the family.
Logout(c) ==
    /\ Begins(c) /\ SessionFree(c)
    /\ call' = IF revoked THEN call
               ELSE [call EXCEPT ![c] = [NoCall EXCEPT !.op = "family", !.session = TRUE,
                                                       !.seen = Live]]
    /\ UNCHANGED <<token, revoked>>

\* logout_all begins with the tokens.
LogoutAll(c) ==
    /\ Begins(c)
    /\ call' = [call EXCEPT ![c] = [NoCall EXCEPT !.op = "family", !.seen = Live]]
    /\ UNCHANGED <<token, revoked>>

\* UPDATE refresh_tokens: the rows that its snapshot holds, each when its lock is
\* free and if it is still not revoked.
RevokeTokens(c) ==
    /\ call[c].op = "family"
    /\ call[c].seen \cap LockedByOthers(c) = {}
    /\ call' = [call EXCEPT ![c].op = "end", ![c].seen = @ \cap Live,
                            ![c].tokens = @ \cup (call[c].seen \cap Live)]
    /\ UNCHANGED <<token, revoked, calls>>

\* UPDATE auth_sessions, and the commit of both.
RevokeSession(c) ==
    /\ call[c].op = "end" /\ SessionFree(c)
    /\ token' = [a \in Ages |-> IF a \in call[c].seen THEN [token[a] EXCEPT !.state = "revoked"]
                                                     ELSE token[a]]
    /\ revoked' = TRUE
    /\ Returns(c)
    /\ UNCHANGED calls

\* A token expires; the others of the family are younger.
Expire(a) ==
    /\ token[a].state = "live" /\ ~token[a].expired
    /\ token' = [token EXCEPT ![a].expired = TRUE]
    /\ UNCHANGED <<revoked, call, calls>>

\* Waiting for one another: c needs a row that o has locked.
WaitsFor(c, o) ==
    \/ call[c].op \in {"rotate", "end"} /\ call[o].session
    \/ call[c].op = "family" /\ call[c].seen \cap call[o].tokens # {}

Deadlock(c) ==
    /\ \E o \in Calls \ {c} : WaitsFor(c, o) /\ WaitsFor(o, c)
    /\ Returns(c)                          \* the victim is rolled back
    /\ UNCHANGED <<token, revoked, calls>>

AuthNext ==
    \/ \E c \in Calls : \/ \E a \in Ages : Refresh(c, a)
                        \/ CheckSession(c) \/ Rotate(c) \/ Logout(c) \/ LogoutAll(c)
                        \/ RevokeTokens(c) \/ RevokeSession(c) \/ Deadlock(c)
    \/ \E a \in Ages : Expire(a)

AuthSpec == AuthInit /\ [][AuthNext]_authVars
-----------------------------------------------------------------------------
\* A session has at most one token that can be refreshed.
OneLiveToken == ~revoked => \A a, b \in Live : a = b
=============================================================================
