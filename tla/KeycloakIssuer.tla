--------------------------- MODULE KeycloakIssuer ---------------------------
(***************************************************************************)
(* keycloakwif.Issuer: one identity token per dispatch.  Keycloak fixes    *)
(* the subject of a token per client only, so Issue makes a client, takes  *)
(* the realm's scopes off it, asks for its token, checks the claims and    *)
(* deletes the client.  The administrator's token is cached between calls. *)
(*                                                                         *)
(* Time matters: the cached token must outlive the call that uses it.  A   *)
(* request takes any time up to its deadline; Tick cannot pass a deadline. *)
(* Keycloak is external.                                                   *)
(***************************************************************************)
EXTENDS Integers

CONSTANTS
  IssueTimeout,   \* wifTokenIssueTimeout: deadline of Issue, deletion aside
  DeleteTimeout,  \* deleteClientTimeout
  Margin,         \* adminTokenExpiryMargin
  AdminLifetime,  \* expires_in of the administrator's token
  MaxIssues,      \* bound: calls of Issue
  MaxTime         \* bound: length of a behaviour

\* In the code the timeouts are 15 and 10 seconds and the margin is 30.  The
\* lifetime is the realm's; Keycloak's default is 60 seconds.
ASSUME TimesAssumption ==
  /\ {IssueTimeout, DeleteTimeout, Margin, AdminLifetime} \subseteq Nat
  /\ 2 * IssueTimeout <= Margin
  /\ IssueTimeout < AdminLifetime
ASSUME BoundsAssumption == MaxIssues \in Nat /\ MaxTime \in Nat

VARIABLES
  pc,          \* the request that Issue waits for
  now,         \* the time
  start,       \* when Issue was called
  sentAt,      \* when the current request was sent
  cached,      \* the controller has an administrator's token
  adminExpiry, \* adminTokenExpiry
  issues,      \* calls of Issue so far; numbers the clients
  token,       \* the last Issue has a token to return
  \* external
  validUntil,  \* when Keycloak ceases to accept the administrator's token
  clients,     \* the clients bb-run-* in the realm
  \* history
  faulty       \* an answer or a deletion was lost, or the process died

vars == <<pc, now, start, sentAt, cached, adminExpiry, issues, token, validUntil,
          clients, faulty>>

Kinds == {"default", "optional"}

Init ==
  /\ pc = "idle"
  /\ now = 0 /\ start = 0 /\ sentAt = 0
  /\ cached = FALSE
  /\ adminExpiry = 0
  /\ issues = 0
  /\ token = FALSE
  /\ validUntil = 0
  /\ clients = {}
  /\ faulty = FALSE

\* The client of the current Issue.
Mine == {c \in clients : c.id = issues}

\* Send the next request.
Send(request) == pc' = request /\ sentAt' = now

-----------------------------------------------------------------------------
(* adminAccessToken.                                                       *)

\* The cached token is used until its margin before the end.
IssueCached ==
  /\ pc = "idle"
  /\ issues < MaxIssues
  /\ cached /\ now < adminExpiry
  /\ start' = now
  /\ issues' = issues + 1
  /\ token' = FALSE
  /\ Send("create")
  /\ UNCHANGED <<now, cached, adminExpiry, validUntil, clients, faulty>>

IssueLogin ==
  /\ pc = "idle"
  /\ issues < MaxIssues
  /\ ~(cached /\ now < adminExpiry)
  /\ start' = now
  /\ issues' = issues + 1
  /\ token' = FALSE
  /\ Send("login")
  /\ UNCHANGED <<now, cached, adminExpiry, validUntil, clients, faulty>>

\* The margin is counted from when the answer arrives.
ExpiryOfCache_NoMargin == now + AdminLifetime
ExpiryOfCache == now + AdminLifetime - Margin

\* Keycloak made the token at some time since the request was sent.
Login ==
  /\ pc = "login"
  /\ \E made \in sentAt..now : validUntil' = made + AdminLifetime
  /\ cached' = TRUE
  /\ adminExpiry' = ExpiryOfCache
  /\ Send("create")
  /\ UNCHANGED <<now, start, issues, token, clients, faulty>>

\* An error before there is a client: Issue returns it.
LoginFails ==
  /\ pc = "login"
  /\ pc' = "idle"
  /\ UNCHANGED <<now, start, sentAt, cached, adminExpiry, issues, token,
                 validUntil, clients, faulty>>

-----------------------------------------------------------------------------
(* The client of the run.  Its random suffix makes it new in the realm,    *)
(* which gives it its default and optional scopes.                         *)

NewClient == [id |-> issues, scopes |-> Kinds]

CreateClient ==
  /\ pc = "create"
  /\ clients' = clients \cup {NewClient}
  /\ Send("default")
  /\ UNCHANGED <<now, start, cached, adminExpiry, issues, token, validUntil, faulty>>

CreateClientFails ==
  /\ pc = "create"
  /\ pc' = "idle"
  /\ \/ UNCHANGED <<clients, faulty>>
     \/ clients' = clients \cup {NewClient} /\ faulty' = TRUE
  /\ UNCHANGED <<now, start, sentAt, cached, adminExpiry, issues, token, validUntil>>

\* removeClientScopes: list and delete, one kind after the other.
Without(kind) == {IF c \in Mine THEN [c EXCEPT !.scopes = @ \ {kind}] ELSE c : c \in clients}
AfterScopes_DefaultOnly(kind) == "token"
AfterScopes(kind) == IF kind = "default" THEN "optional" ELSE "token"

\* The list, or one deletion, is answered and the next deletion is sent.
NextScope(kind) ==
  /\ pc = kind
  /\ Send(kind)
  /\ UNCHANGED <<now, start, cached, adminExpiry, issues, token, validUntil,
                 clients, faulty>>

\* The last answer about this kind.
RemoveScopes(kind) ==
  /\ pc = kind
  /\ clients' = Without(kind)
  /\ Send(AfterScopes(kind))
  /\ UNCHANGED <<now, start, cached, adminExpiry, issues, token, validUntil, faulty>>

\* Once there is a client, every return deletes it (defer).
AfterError_Returns == "idle"
AfterError_Retry == "retry"
AfterError == "delete"

RemoveScopesFails(kind) ==
  /\ pc = kind
  /\ clients' \in {clients, Without(kind)}
  /\ Send(AfterError)
  /\ UNCHANGED <<now, start, cached, adminExpiry, issues, token, validUntil, faulty>>

\* checkClaims: the scopes of the client add claims that it refuses, and so may
\* the realm, which may also cut the lifetime.
checkClaims(realmAsExpected) == realmAsExpected /\ \A c \in Mine : c.scopes = {}

\* clientCredentialsToken and checkClaims.
RequestToken ==
  /\ pc = "token"
  /\ \E realmAsExpected \in BOOLEAN : token' = checkClaims(realmAsExpected)
  /\ Send("delete")
  /\ UNCHANGED <<now, start, cached, adminExpiry, issues, validUntil, clients, faulty>>

RequestTokenFails ==
  /\ pc = "token"
  /\ Send(AfterError)
  /\ UNCHANGED <<now, start, cached, adminExpiry, issues, token, validUntil,
                 clients, faulty>>

\* deleteClientIgnoringCancel: an error is logged, and the result of Issue does
\* not depend on it.
DeleteClient ==
  /\ pc = "delete"
  /\ pc' = "idle"
  /\ clients' = clients \ Mine
  /\ UNCHANGED <<now, start, sentAt, cached, adminExpiry, issues, token,
                 validUntil, faulty>>

DeleteClientFails ==
  /\ pc = "delete"
  /\ pc' = "idle"
  /\ faulty' = TRUE
  /\ clients' \in {clients, clients \ Mine}
  /\ UNCHANGED <<now, start, sentAt, cached, adminExpiry, issues, token, validUntil>>

-----------------------------------------------------------------------------
\* The controller dies: the cache is lost, a client stays.
Crash ==
  /\ pc' = "idle"
  /\ cached' = FALSE
  /\ token' = FALSE
  /\ faulty' = TRUE
  /\ UNCHANGED <<now, start, sentAt, adminExpiry, issues, validUntil, clients>>

\* The deadline of the context ends every request but the deletion, which has a
\* deadline of its own.
Deadline == IF pc = "delete" THEN sentAt + DeleteTimeout ELSE start + IssueTimeout

Tick ==
  /\ now < MaxTime
  /\ pc # "idle" => now < Deadline
  /\ now' = now + 1
  /\ UNCHANGED <<pc, start, sentAt, cached, adminExpiry, issues, token, validUntil,
                 clients, faulty>>

Next ==
  \/ IssueCached \/ IssueLogin \/ Login \/ LoginFails
  \/ CreateClient \/ CreateClientFails
  \/ \E kind \in Kinds : NextScope(kind) \/ RemoveScopes(kind) \/ RemoveScopesFails(kind)
  \/ RequestToken \/ RequestTokenFails \/ DeleteClient \/ DeleteClientFails
  \/ Crash \/ Tick

Spec == Init /\ [][Next]_vars

-----------------------------------------------------------------------------
(* Properties.                                                             *)

AdminRequests == {"create", "default", "optional", "delete"}

\* Type invariant.
TypeOK ==
  /\ pc \in AdminRequests \cup {"idle", "login", "token"}
  /\ now \in Nat /\ start \in Nat /\ sentAt \in Nat
  /\ cached \in BOOLEAN
  /\ adminExpiry \in Int
  /\ issues \in Nat
  /\ token \in BOOLEAN
  /\ validUntil \in Nat
  /\ clients \subseteq [id: Nat, scopes: SUBSET Kinds]
  /\ faulty \in BOOLEAN

\* No request of the administrator is sent with a token that Keycloak no longer
\* accepts, however slow the login that filled the cache and the requests of
\* the call have been: else the run would start without its token, or the
\* client would stay in the realm (issuer.go: adminTokenExpiryMargin).
SentWhileValid == pc \in AdminRequests => sentAt < validUntil

\* If no answer is lost and the process does not die, no client, and so no
\* credential of a run, is left in the realm when Issue has returned, also when
\* it returns an error after the client was made (issuer.go: defer).
NoClientLeft == pc = "idle" /\ ~faulty => clients = {}

\* A token is requested only once both kinds of scopes are off its client: else
\* checkClaims would refuse every token of this realm (issuer.go,
\* removeClientScopes), and no run would ever get one.
ScopesRemoved == pc = "token" => \A c \in Mine : c.scopes = {}

\* The inductive form of SentWhileValid: the cached token outlives any call that
\* starts before adminExpiry, and the current call has sent its requests within
\* IssueTimeout of its start.
ValidInv ==
  /\ cached => adminExpiry + Margin <= validUntil + IssueTimeout
  /\ pc # "idle" => start <= sentAt /\ sentAt <= now /\ sentAt <= start + IssueTimeout
  /\ pc \notin {"idle", "delete"} => now <= start + IssueTimeout
  /\ pc = "login" => sentAt = start
  /\ pc \in AdminRequests \cup {"token"} => start + IssueTimeout < validUntil

\* The client of a run is what it should be over its whole life: without scopes
\* when its token is fetched, and gone when Issue has returned (Issue,
\* removeClientScopes, deleteClientIgnoringCancel).
ClientsSound == NoClientLeft /\ ScopesRemoved
=============================================================================
