------------------------ MODULE KeycloakIssuerProofs ------------------------
(***************************************************************************)
(* SentWhileValid for every choice of the timeouts and of the realm's      *)
(* lifetime that TimesAssumption admits.  SentWhileValid is not inductive: *)
(* it needs to know how long the call has been going on and how much of    *)
(* the token's life its start left, which is ValidInv.  ClientsSound needs *)
(* to know whose the clients in the realm are: ClientInv.                  *)
(***************************************************************************)
EXTENDS KeycloakIssuer, TLAPS

Times == /\ IssueTimeout \in Nat /\ DeleteTimeout \in Nat
         /\ Margin \in Nat /\ AdminLifetime \in Nat
         /\ 2 * IssueTimeout <= Margin
         /\ IssueTimeout < AdminLifetime

LEMMA TimesLemma == Times
  BY TimesAssumption DEF Times

\* The part of the type invariant that is about time.
ClockInv ==
  /\ now \in Nat /\ start \in Nat /\ sentAt \in Nat
  /\ cached \in BOOLEAN /\ adminExpiry \in Int /\ validUntil \in Nat
  /\ pc \in AdminRequests \cup {"idle", "login", "token"}

\* The type invariant (issuer.go: the fields of Issuer and the steps of Issue).
THEOREM TypeCorrect == Spec => []TypeOK
<1> USE TimesLemma DEF Times
<1>1. Init => TypeOK
  <2>1. Init => cached \in BOOLEAN /\ token \in BOOLEAN /\ faulty \in BOOLEAN
    BY Zenon DEF Init
  <2> QED
    BY <2>1 DEF Init, TypeOK, AdminRequests
<1>2. TypeOK /\ [Next]_vars => TypeOK'
  <2> SUFFICES ASSUME TypeOK, [Next]_vars PROVE TypeOK'
    OBVIOUS
  <2> USE DEF TypeOK, Send, AdminRequests, Kinds
  <2>1. CASE IssueCached
    <3>1. /\ pc' \in AdminRequests \cup {"login"}
          /\ start' = now /\ sentAt' = now /\ issues' = issues + 1 /\ token' \in BOOLEAN
          /\ UNCHANGED <<now, cached, adminExpiry, validUntil, clients, faulty>>
      BY <2>1, Zenon DEF IssueCached
    <3> QED
      BY <3>1
  <2>2. CASE IssueLogin
    <3>1. /\ pc' \in AdminRequests \cup {"login"}
          /\ start' = now /\ sentAt' = now /\ issues' = issues + 1 /\ token' \in BOOLEAN
          /\ UNCHANGED <<now, cached, adminExpiry, validUntil, clients, faulty>>
      BY <2>2, Zenon DEF IssueLogin
    <3> QED
      BY <3>1
  <2>3. CASE Login
    BY <2>3 DEF Login, ExpiryOfCache
  <2>4. CASE LoginFails
    BY <2>4 DEF LoginFails
  <2>5. NewClient \in [id: Nat, scopes: SUBSET Kinds]
    BY DEF NewClient
  <2>6. CASE CreateClient
    BY <2>5, <2>6 DEF CreateClient
  <2>7. CASE CreateClientFails
    BY <2>5, <2>7 DEF CreateClientFails
  <2>8. ASSUME NEW kind \in Kinds
        PROVE  Without(kind) \subseteq [id: Nat, scopes: SUBSET Kinds]
    BY <2>8 DEF Without, Mine
  <2>9. ASSUME NEW kind \in Kinds,
               NextScope(kind) \/ RemoveScopes(kind) \/ RemoveScopesFails(kind)
        PROVE  TypeOK'
    BY <2>8, <2>9 DEF NextScope, RemoveScopes, RemoveScopesFails, AfterScopes, AfterError
  <2>10. CASE RequestToken
    <3>1. \A b \in BOOLEAN : checkClaims(b) \in BOOLEAN
      BY DEF checkClaims
    <3> QED
      BY <2>10, <3>1 DEF RequestToken
  <2>11. CASE RequestTokenFails
    BY <2>11 DEF RequestTokenFails, AfterError
  <2>12. CASE DeleteClient \/ DeleteClientFails
    BY <2>12 DEF DeleteClient, DeleteClientFails, Mine
  <2>13. CASE Crash
    BY <2>13 DEF Crash
  <2>14. CASE Tick
    BY <2>14 DEF Tick
  <2>15. CASE UNCHANGED vars
    BY <2>15 DEF vars
  <2> QED
    BY <2>1, <2>2, <2>3, <2>4, <2>6, <2>7, <2>9, <2>10, <2>11, <2>12, <2>13,
       <2>14, <2>15 DEF Next
<1> QED
  BY <1>1, <1>2, PTL DEF Spec

\* Every step keeps the clocks of the call within the life of its token.
LEMMA ValidStep == TypeOK /\ ValidInv /\ [Next]_vars => ValidInv'
<1> SUFFICES ASSUME TypeOK, ValidInv, [Next]_vars PROVE ValidInv'
  OBVIOUS
<1> ClockInv
  BY DEF TypeOK, ClockInv
<1> USE TimesLemma DEF Times, ClockInv, ValidInv, AdminRequests
<1>1. CASE IssueCached
  BY <1>1 DEF IssueCached, Send
<1>2. CASE IssueLogin
  BY <1>2 DEF IssueLogin, Send
<1>3. CASE Login
  <2> PICK made \in sentAt..now : validUntil' = made + AdminLifetime
    BY <1>3 DEF Login
  <2> QED
    BY <1>3 DEF Login, Send, ExpiryOfCache
<1>4. CASE LoginFails
  BY <1>4 DEF LoginFails
<1>5. CASE CreateClient
  BY <1>5 DEF CreateClient, Send
<1>6. CASE CreateClientFails
  BY <1>6 DEF CreateClientFails
<1>7. ASSUME NEW kind \in Kinds,
             NextScope(kind) \/ RemoveScopes(kind) \/ RemoveScopesFails(kind)
      PROVE  ValidInv'
  BY <1>7 DEF NextScope, RemoveScopes, RemoveScopesFails, AfterScopes, AfterError,
              Kinds, Send
<1>8. CASE RequestToken
  BY <1>8 DEF RequestToken, Send
<1>9. CASE RequestTokenFails
  BY <1>9 DEF RequestTokenFails, AfterError, Send
<1>10. CASE DeleteClient \/ DeleteClientFails
  BY <1>10 DEF DeleteClient, DeleteClientFails
<1>11. CASE Crash
  BY <1>11 DEF Crash
<1>12. CASE Tick
  BY <1>12 DEF Tick, Deadline
<1>13. CASE UNCHANGED vars
  BY <1>13 DEF vars
<1> QED
  BY <1>1, <1>2, <1>3, <1>4, <1>5, <1>6, <1>7, <1>8, <1>9, <1>10, <1>11, <1>12,
     <1>13 DEF Next

\* Every request of the administrator is sent while Keycloak accepts its token,
\* for every length of the timeouts, the margin and the lifetime that
\* TimesAssumption admits (issuer.go: adminTokenExpiryMargin).
THEOREM SentWhileValidTheorem == Spec => []SentWhileValid
<1>1. Init => ValidInv
  BY TimesLemma DEF Init, ValidInv, AdminRequests, Times
<1>2. TypeOK /\ ValidInv => SentWhileValid
  BY TimesLemma DEF TypeOK, ValidInv, SentWhileValid, AdminRequests, Times
<1> QED
  BY <1>1, <1>2, ValidStep, TypeCorrect, PTL DEF Spec

-----------------------------------------------------------------------------
(* The clients.                                                            *)

\* Of the calls' clients only that of the current call is there, unless something
\* was lost; it is there from its creation to its deletion, and has lost the
\* scopes that were taken off it.  A new call's number is not in use.
ClientInv ==
  /\ \A c \in clients : c.id <= issues
  /\ pc \in {"login", "create"} => \A c \in clients : c.id # issues
  /\ ~faulty => \A c \in clients : c.id = issues
  /\ pc \in {"idle", "login", "create"} /\ ~faulty => clients = {}
  /\ pc = "optional" => \A c \in Mine : c.scopes \subseteq {"optional"}
  /\ pc = "token" => \A c \in Mine : c.scopes = {}

\* Taking scopes off the client of the call leaves the others as they are.
LEMMA WithoutFacts ==
  ASSUME TypeOK, NEW kind \in Kinds
  PROVE  /\ \A d \in Without(kind) : \E c \in clients :
              d.id = c.id /\ (c.id = issues => d.scopes = c.scopes \ {kind})
         /\ clients = {} => Without(kind) = {}
<1> SUFFICES ASSUME NEW c \in clients
             PROVE  LET d == IF c \in Mine THEN [c EXCEPT !.scopes = @ \ {kind}] ELSE c
                    IN  d.id = c.id /\ (c.id = issues => d.scopes = c.scopes \ {kind})
  BY DEF Without
<1>1. c \in [id: Nat, scopes: SUBSET Kinds]
  BY DEF TypeOK
<1>2. CASE c \in Mine
  BY <1>1, <1>2
<1>3. CASE c \notin Mine
  BY <1>3 DEF Mine
<1> QED BY <1>2, <1>3

\* Every step keeps ClientInv.
LEMMA ClientStep == TypeOK /\ ClientInv /\ [Next]_vars => ClientInv'
<1> SUFFICES ASSUME TypeOK, ClientInv, [Next]_vars PROVE ClientInv'
  OBVIOUS
<1> USE DEF Mine, Send
<1>1. issues \in Nat /\ \A c \in clients : c.id \in Nat
  BY DEF TypeOK
<1>2. CASE IssueCached \/ IssueLogin
  <2>1. /\ pc = "idle" /\ issues' = issues + 1 /\ pc' \in {"create", "login"}
        /\ UNCHANGED <<clients, faulty>>
    BY <1>2 DEF IssueCached, IssueLogin
  <2>2. \A c \in clients : c.id <= issues
    BY DEF ClientInv
  <2>3. \A c \in clients' : c.id <= issues' /\ c.id # issues'
    BY <1>1, <2>1, <2>2
  <2> QED BY <2>1, <2>3 DEF ClientInv
<1>3. CASE Login \/ LoginFails
  BY <1>3 DEF Login, LoginFails, ClientInv
<1>4. NewClient.id = issues /\ NewClient.scopes = Kinds
  BY DEF NewClient
<1>5. CASE CreateClient
  BY <1>1, <1>4, <1>5 DEF CreateClient, ClientInv
<1>6. CASE CreateClientFails
  <2>1. CASE UNCHANGED <<clients, faulty>>
    BY <1>6, <2>1 DEF CreateClientFails, ClientInv
  <2>2. CASE clients' = clients \cup {NewClient} /\ faulty' = TRUE
    BY <1>1, <1>4, <1>6, <2>2 DEF CreateClientFails, ClientInv
  <2> QED BY <1>6, <2>1, <2>2 DEF CreateClientFails
<1>7. ASSUME NEW kind \in Kinds, NextScope(kind)
      PROVE  ClientInv'
  BY <1>7 DEF NextScope, ClientInv, Kinds
<1>8. ASSUME NEW kind \in Kinds, RemoveScopes(kind)
      PROVE  ClientInv'
  <2>1. CASE kind = "default"
    <3>1. /\ pc' = "optional" /\ clients' = Without(kind) /\ UNCHANGED <<issues, faulty>>
      BY <1>8, <2>1 DEF RemoveScopes, AfterScopes
    <3>2. \A c \in clients : c.scopes \subseteq {"default", "optional"}
      BY DEF TypeOK, Kinds
    <3> QED BY <2>1, <3>1, <3>2, WithoutFacts DEF ClientInv
  <2>2. CASE kind = "optional"
    <3>1. /\ pc = "optional" /\ pc' = "token" /\ clients' = Without(kind)
          /\ UNCHANGED <<issues, faulty>>
      BY <1>8, <2>2 DEF RemoveScopes, AfterScopes
    <3>2. \A c \in clients : c.id = issues => c.scopes \subseteq {"optional"}
      BY <3>1 DEF ClientInv
    <3>3. \A c \in clients' : c.id = issues => c.scopes = {}
      BY <2>2, <3>1, <3>2, WithoutFacts
    <3> QED BY <3>1, <3>3, WithoutFacts DEF ClientInv
  <2> QED BY <2>1, <2>2 DEF Kinds
<1>9. ASSUME NEW kind \in Kinds, RemoveScopesFails(kind)
      PROVE  ClientInv'
  <2>1. /\ pc' = "delete" /\ clients' \in {clients, Without(kind)}
        /\ UNCHANGED <<issues, faulty>>
    BY <1>9 DEF RemoveScopesFails, AfterError
  <2> QED BY <2>1, WithoutFacts DEF ClientInv
<1>10. CASE RequestToken \/ RequestTokenFails
  <2>1. pc' = "delete" /\ UNCHANGED <<issues, clients, faulty>>
    BY <1>10 DEF RequestToken, RequestTokenFails, AfterError
  <2> QED BY <2>1 DEF ClientInv
<1>11. CASE DeleteClient
  BY <1>11 DEF DeleteClient, ClientInv
<1>12. CASE DeleteClientFails
  BY <1>12 DEF DeleteClientFails, ClientInv
<1>13. CASE Crash
  BY <1>13 DEF Crash, ClientInv
<1>14. CASE Tick
  BY <1>14 DEF Tick, ClientInv
<1>15. CASE UNCHANGED vars
  BY <1>15 DEF vars, ClientInv
<1> QED
  BY <1>2, <1>3, <1>5, <1>6, <1>7, <1>8, <1>9, <1>10, <1>11, <1>12, <1>13, <1>14, <1>15
     DEF Next

\* No client outlives its call unless an answer is lost or the process dies, and
\* no token is asked for while its client has scopes, over any number of calls
\* (Issue, removeClientScopes, deleteClientIgnoringCancel).
THEOREM ClientsTheorem == Spec => []ClientsSound
<1>1. Init => ClientInv
  BY DEF Init, ClientInv, Mine
<1>2. ClientInv => ClientsSound
  BY DEF ClientInv, ClientsSound, NoClientLeft, ScopesRemoved
<1> QED
  BY <1>1, <1>2, ClientStep, TypeCorrect, PTL DEF Spec
=============================================================================
