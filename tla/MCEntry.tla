-------------------------------- MODULE MCEntry --------------------------------
(***************************************************************************)
(* Model checking of Routing, UserSessions, TwoFactor, Gateway, Limits and  *)
(* Tenants, what a request meets before its handler, one at a time: part    *)
(* says which, and the others keep still.                                   *)
(*                                                                         *)
(* The workers are interchangeable, and so are the proofs of Gateway and    *)
(* the threads of Tenants, the same two values.  The unit of the clocks of  *)
(* TwoFactor and Gateway is half a minute.  Limits has an address and the   *)
(* clients of Tor, on two tenants.  Tenants has the root and one more       *)
(* tenant: in use, or signed up and waiting.  Routing has the root and a    *)
(* tenant with and without names, onion services, a root domain and HTTPS,  *)
(* and redirects that lead to one another, the root's around.               *)
(***************************************************************************)
EXTENDS UserSessions, TLC

CONSTANTS Proofs, Clients, MaxAge, MaxFuture, TokenLife, MaxProofs, MaxTokens, Mints, Horizon,
          Tids, Addresses, Tor, Classes, Burst, MaxBuckets, Days,
          CodeLife, Hours, MaxTimers, None, Root,
          Names, Threads, Seeds, MaxChanges,
          Hosted, Configs, Visits, MaxHops

VARIABLES part,
          now, jti, gwtokens, minted, proofs, session, proved, accepted,
          day, class, cache, charged, dropped,
          clock, used, last, forgotten,
          db, memory, answers, writing, refresh, fresh, changes, outdated, unsettled,
          config, map, asked, url, overtor, hops, answer

Symmetry == Permutations(Workers) \cup Permutations(Proofs)

MCLimit(kind) == CASE kind \in {"tenant_ip", "second", "ip_minute"} -> 1
                   [] kind \in {"ip", "minute", "tenant"} -> 2
                   [] OTHER -> 3
MCPeriod(kind) == CASE kind = "second" -> 1 [] kind = "hour" -> 3 [] OTHER -> 2

Gate == INSTANCE Gateway WITH tokens <- gwtokens
Limited == INSTANCE Limits WITH
    Tenants <- {1, 2}, Limit <- MCLimit, Period <- MCPeriod, Horizon <- Days, now <- day
Second == INSTANCE TwoFactor WITH now <- clock, Horizon <- Hours
Serving == INSTANCE Tenants WITH MaxOps <- MaxChanges, ops <- changes, busy <- writing
Routed == INSTANCE Routing WITH Tids <- Hosted, tor <- overtor

ASSUME EntryAssumption ==
    /\ Gate!GatewayAssumption /\ Limited!LimitsAssumption
    /\ Second!CodesAssumption /\ Serving!TenantsAssumption /\ Routed!RoutingAssumption

Absent == [active |-> FALSE, sub |-> "none", host |-> "none", done |-> 0, signup |-> "none",
           token |-> FALSE, version |-> 0]
With(two) == [t \in Tids |-> IF t = 1 THEN [Absent EXCEPT !.active = TRUE, !.done = 1]
                             ELSE IF t = 2 THEN two ELSE Absent]
MCSeeds == {With([Absent EXCEPT !.active = TRUE, !.sub = "a", !.host = "a", !.done = 1]),
            With([Absent EXCEPT !.sub = "a", !.signup = "a", !.token = TRUE])}

Named(host, web, onion) ==
    [active |-> TRUE, host |-> host, web |-> web, onion |-> onion,
     redirects |-> [p \in {<<"a">>, <<"b">>} |->
                      IF p = <<"a">> THEN <<"b">> ELSE IF host[2] = Root THEN <<"a">> ELSE <<"c">>]]

MCConfigs ==
    {[wizard |-> FALSE, https |-> FALSE, rootdomain |-> FALSE,
      tenants |-> [t \in Hosted |-> [Named(<<"none", 0>>, TRUE, FALSE) EXCEPT !.active = (t = Root)]]]}
    \cup
    {[wizard |-> TRUE, https |-> https, rootdomain |-> domain,
      tenants |-> [t \in Hosted |-> IF t = Root THEN Named(name, ~https \/ domain \/ own, onion)
                                    ELSE Named(host, host # <<"www", 2>> \/ onion, own)]] :
       https, domain, onion, own \in BOOLEAN, name \in {<<"none", 0>>, <<"name", 1>>},
       host \in {<<"none", 0>>, <<"name", 2>>, <<"www", 2>>}}

MCVisits ==
    LET at(scheme, host, prefix, path) ==
            [scheme |-> scheme, host |-> host, prefix |-> prefix, path |-> path]
        web == {<<"name", 1>>, <<"name", 2>>, <<"www", 2>>, <<"sub", 2>>,
                <<"ip", 0>>, <<"loopback", 0>>, <<"other", 0>>}
        onions == {<<"onion", 1>>, <<"onion", 2>>, <<"subonion", 2>>}
        some == {<<"index.html">>, <<"a">>, <<"acme-challenge", "token">>}
        deep == {<<"reports">>, <<"reports", "id1">>, <<"reports", "id1", "comments">>,
                 <<"reports", "insertion">>, <<"reports", "insertion", "attachment">>,
                 <<"reports", "insertion", "x">>, <<"questionnaires", "duplicate">>,
                 <<"questionnaires", "default">>, <<"s">>, <<"s", "x", "y">>, <<"x", "reports">>}
    IN ({at(s, h, p, w) : s \in {"http", "https"}, h \in web, p \in Hosted \cup {0}, w \in some} \X BOOLEAN)
       \cup ({at("http", h, p, w) : h \in onions, p \in Hosted \cup {0}, w \in some} \X {TRUE})
       \cup ({at("https", <<"localhost", 0>>, 0, w) : w \in deep} \X {FALSE})

gate == <<now, jti, gwtokens, minted, proofs, session, proved, accepted>>
limited == <<day, class, cache, charged, dropped>>
second == <<clock, used, last, forgotten>>
serving == <<db, memory, answers, writing, refresh, fresh, changes, outdated, unsettled>>
routed == <<config, map, asked, url, overtor, hops, answer>>
allVars == <<part, vars, gate, limited, second, serving, routed>>

MCInit ==
    /\ part \in {"sessions", "gate", "limits", "codes", "tenants", "routing"}
    /\ Init /\ Gate!Init /\ Limited!Init /\ Second!Init /\ Serving!Init /\ Routed!Init
    /\ part # "limits" => class = "login"
    /\ part # "tenants" => db = CHOOSE d \in Seeds : TRUE
    /\ part # "routing" => ~config.wizard

MCNext ==
    \/ part = "sessions" /\ Next /\ UNCHANGED <<part, gate, limited, second, serving, routed>>
    \/ part = "gate" /\ Gate!Next /\ UNCHANGED <<part, vars, limited, second, serving, routed>>
    \/ part = "limits" /\ Limited!Next /\ UNCHANGED <<part, vars, gate, second, serving, routed>>
    \/ part = "codes" /\ Second!Next /\ UNCHANGED <<part, vars, gate, limited, serving, routed>>
    \/ part = "tenants" /\ Serving!Next /\ UNCHANGED <<part, vars, gate, limited, second, routed>>
    \/ part = "routing" /\ Routed!Next /\ UNCHANGED <<part, vars, gate, limited, second, serving>>

MCSpec == MCInit /\ [][MCNext]_allVars

\* Gateway: a proof is accepted once, and what a stolen token is good for ends.
ProofsHold == [](part = "gate" => Gate!ProofOnce) /\ Gate!TokenEnds

\* Limits: requests over a narrower limit use up no wider one.
OwnShare == part = "limits" => Limited!OwnShare

\* TwoFactor: the code accepted last is not accepted again, unless it was forgotten.
CodeNotRepeated == Second!CodeNotRepeated

\* Tenants: requests are routed to the owner of the name, and the answers that are
\* kept are up to date.
TenantsServed == part = "tenants" => Serving!RoutedToOwner /\ Serving!AnswersUpToDate

\* Tenants: a link of activation initialises no tenant twice.
InitialisedOnce == part = "tenants" => Serving!InitialisedOnce

\* Routing: an address is answered by the tenant it is of.
AnsweredByTenant == part = "routing" => Routed!AnsweredByTenant

=============================================================================
