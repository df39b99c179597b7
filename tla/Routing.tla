------------------------------- MODULE Routing --------------------------------
(***************************************************************************)
(* From the address a browser is given to the tenant and the handler that   *)
(* answer: APIResourceWrapper.render finds the tenant by the name of the    *)
(* host or a prefix of the path, and answers or redirects; the browser      *)
(* follows.                                                                *)
(*                                                                         *)
(* A host is its kind and the tenant whose configuration may name it: its   *)
(* own name with or without www, its subdomain under the root domain, its   *)
(* onion service, its subdomain under the onion service of the root.  A     *)
(* path is a sequence of words.  Onion services have no HTTPS and are       *)
(* reached through Tor.  Left out: ports, queries, which every redirect     *)
(* drops, methods, the roles of the handlers, redirects to other sites or   *)
(* tenants, and changes of the configuration while the browser follows      *)
(* (Tenants).                                                               *)
(***************************************************************************)
EXTENDS Naturals, Sequences, SequencesExt

CONSTANTS Tids, Root, \* the tenants and the root
          Configs,    \* the configurations of the platform
          Visits,     \* the addresses browsers are given, and whether they use Tor
          MaxHops     \* redirects of the platform that are enough for every address

VARIABLES
    config, \* what the copies of the tenants hold
    map,    \* tenant_hostname_id_map
    asked,  \* the address given
    url,    \* where the browser is
    tor,    \* whether it uses Tor
    hops,   \* redirects of the platform that were followed
    answer  \* who answered, and by which handler

vars == <<config, map, asked, url, tor, hops, answer>>

Host(kind, t) == <<kind, t>>
NoHost == Host("none", 0)
NoUrl == [scheme |-> "none", host |-> NoHost, prefix |-> 0, path |-> <<>>]
NoAnswer == [tid |-> 0, by |-> "none"]
Refused == [tid |-> 0, by |-> "400"]

IsIP(host) == host[1] \in {"ip", "loopback"}
IsOnion(host) == host[1] \in {"onion", "subonion"}

\* index.html is the root of the site.
Plain(path) == IF path = <<"index.html">> THEN <<>> ELSE path

\* A tenant's name is its own, and so are its redirects, which may lead to one another
\* or around.  Before the wizard there is the root alone.
RoutingAssumption ==
    /\ Root \in Tids /\ 0 \notin Tids
    /\ MaxHops \in Nat /\ MaxHops >= 2
    /\ \A c \in Configs :
         /\ {c.wizard, c.https, c.rootdomain} \subseteq BOOLEAN
         /\ \A t \in Tids :
              /\ {c.tenants[t].active, c.tenants[t].web, c.tenants[t].onion} \subseteq BOOLEAN
              /\ c.tenants[t].host \in {NoHost, Host("name", t), Host("www", t)}
              /\ \A path \in DOMAIN c.tenants[t].redirects :
                   c.tenants[t].redirects[path] \in Seq(STRING)
         /\ c.tenants[Root].active
         /\ ~c.wizard => \A t \in Tids \ {Root} : ~c.tenants[t].active
    /\ \A visit \in Visits :
         /\ visit[1] \in [scheme : {"http", "https"}, host : STRING \X (Tids \cup {0}),
                         prefix : Tids \cup {0}, path : Seq(STRING)]
         /\ visit[2] \in BOOLEAN

\* the same name with or without its www
Www(host) ==
    CASE host[1] = "name" -> Host("www", host[2])
      [] host[1] = "www" -> Host("name", host[2])
      [] OTHER -> NoHost

TypeOK ==
    /\ config \in Configs
    /\ tor \in BOOLEAN /\ hops \in Nat
    /\ <<asked, tor>> \in Visits \cup {<<NoUrl, FALSE>>}
    /\ url.scheme \in {"http", "https", "none"} /\ url.prefix \in Tids \cup {0}
    /\ answer.tid \in Tids \cup {0}

-----------------------------------------------------------------------------
(* The names of the tenants, as the refresh of the copies leaves them.      *)

Row(t) == config.tenants[t]
Active == {t \in Tids : Row(t).active}

Hostnames(t) ==
    IF ~Row(t).active \/ ~Row(t).web THEN {}
    ELSE (IF Row(t).host # NoHost THEN {Row(t).host} ELSE {})
         \cup (IF t # Root /\ config.rootdomain THEN {Host("sub", t)} ELSE {})

Onionnames(t) ==
    IF ~Row(t).active THEN <<>>
    ELSE (IF Row(t).onion THEN <<Host("onion", t)>> ELSE <<>>)
         \o (IF t # Root /\ Row(Root).onion THEN <<Host("subonion", t)>> ELSE <<>>)

NamesOf(t) == Hostnames(t) \cup ToSet(Onionnames(t))

\* tenant_hostname_id_map: names that two tenants share are left to Tenants
Map == [host \in UNION {NamesOf(t) : t \in Tids} |-> CHOOSE t \in Tids : host \in NamesOf(t)]

Mapped(host) == IF host \in DOMAIN map THEN map[host] ELSE 0

-----------------------------------------------------------------------------
(* The handlers: a pattern begins with the words of the prefix it is         *)
(* registered under; then come words, "id" for an identifier, "key" for one  *)
(* or a word, "any" for everything that follows.                             *)

Route(prefix, pattern, handler) == [prefix |-> prefix, pattern |-> pattern, handler |-> handler]

\* One route of each shape of api_spec
Routes == <<
    Route(<<"reports">>, <<"reports">>, "list"),
    Route(<<"reports">>, <<"reports", "id">>, "report"),
    Route(<<"reports">>, <<"reports", "id", "comments">>, "comments"),
    Route(<<"reports", "insertion">>, <<"reports", "insertion">>, "insertion"),
    Route(<<"reports", "insertion", "attachment">>, <<"reports", "insertion", "attachment">>,
          "attachment"),
    Route(<<"questionnaires">>, <<"questionnaires", "key">>, "questionnaire"),
    Route(<<"questionnaires", "duplicate">>, <<"questionnaires", "duplicate">>, "duplicate"),
    Route(<<"s">>, <<"s", "any">>, "file"),
    Route(<<"acme-challenge">>, <<"acme-challenge", "id">>, "challenge") >>

Identifiers == {"id1", "token"}

Matches(pattern, path) ==
    LET n == Len(pattern) IN
    IF n > 0 /\ pattern[n] = "any"
    THEN Len(path) >= n /\ SubSeq(path, 1, n - 1) = SubSeq(pattern, 1, n - 1)
    ELSE /\ Len(path) = n
         /\ \A i \in 1 .. n : \/ pattern[i] = path[i]
                              \/ pattern[i] \in {"id", "key"} /\ path[i] \in Identifiers
                              \/ pattern[i] = "key" /\ path[i] # ""

\* Trie.insert: the nodes, each named by the words that lead to it
Nodes == UNION {Prefixes(Routes[i].prefix) : i \in DOMAIN Routes}

\* Trie.search: as far as the words of the path lead
Reached(path) == CHOOSE node \in Nodes :
    /\ IsPrefix(node, path)
    /\ \A other \in Nodes : IsPrefix(other, path) => Len(other) <= Len(node)

Found(path) == {i \in DOMAIN Routes : Routes[i].prefix = Reached(path) /\ Matches(Routes[i].pattern, path)}

\* resolve_handler: the routes without variable parts first, then the trie, then
\* the files of the client
Resolved(path) ==
    IF \E i \in DOMAIN Routes : Routes[i].pattern = Routes[i].prefix /\ Routes[i].prefix = path
    THEN Routes[CHOOSE i \in DOMAIN Routes : Routes[i].pattern = path].handler
    ELSE IF Found(path) # {} THEN Routes[CHOOSE i \in Found(path) : \A j \in Found(path) : i <= j].handler
    ELSE "static"

-----------------------------------------------------------------------------
(* APIResourceWrapper.render                                                *)

\* The tenant of the host alone
ByHost ==
    IF \/ ~config.wizard
       \/ url.host[1] \in {"loopback", "localhost"}
       \/ Row(Root).host = NoHost /\ IsIP(url.host)
    THEN Root ELSE Mapped(url.host)

\* A prefix is understood under the names of the root, and taken off the path.
Prefixed == ByHost = Root /\ url.prefix \in Active

Tid == IF Prefixed THEN url.prefix ELSE ByHost

Path == Plain(url.path)

To(scheme, host) ==
    [scheme |-> scheme, host |-> host, prefix |-> IF Prefixed THEN 0 ELSE url.prefix, path |-> Path]

\* Mutant: the one name a tenant prefers is not looked at.
MutTorRedirected == tor /\ Onionnames(Tid) # <<>>

\* should_redirect_tor
TorRedirected == tor /\ Onionnames(Tid) # <<>> /\ url.host # Onionnames(Tid)[1]

\* should_redirect_https, whether or not HTTPS is enabled
HttpsRedirected == url.scheme = "http" /\ ~IsOnion(url.host) /\ "acme-challenge" \notin ToSet(Path)

\* a path that begins with a prefix nobody took off is one of the client's
Elsewhere == url.prefix # 0 /\ ~Prefixed

AdminRedirected == ~Elsewhere /\ Path \in DOMAIN Row(Tid).redirects

Waiting == url # NoUrl /\ answer = NoAnswer

GoTo(next) == url' = next /\ UNCHANGED <<config, map, asked, tor, answer>>

Follow(next) == GoTo(next) /\ hops' = hops + 1

Answered(by) == answer' = [tid |-> Tid, by |-> by] /\ UNCHANGED <<config, map, asked, url, tor, hops>>

\* The name is nobody's, but it would be somebody's with or without www.
CorrectWww ==
    /\ Waiting /\ Tid = 0 /\ Mapped(Www(url.host)) # 0
    /\ Follow([scheme |-> "https", host |-> Www(url.host), prefix |-> 0, path |-> <<>>])

Settled == ~(Tid = 0 /\ Mapped(Www(url.host)) # 0)

\* An address is left for the name of the root, once it has HTTPS, on the web or not.
Secured == Row(Root).host # NoHost /\ config.https

ByAddress == IsIP(url.host) /\ Secured

LeaveAddress == Waiting /\ Settled /\ ByAddress /\ Follow(To("https", Row(Root).host))

Routed == Waiting /\ Settled /\ ~ByAddress

Refuse ==
    /\ Routed /\ Tid = 0
    /\ answer' = Refused /\ UNCHANGED <<config, map, asked, url, tor, hops>>

RedirectToTor == Routed /\ Tid # 0 /\ TorRedirected /\ Follow(To("http", Onionnames(Tid)[1]))

RedirectToHttps == Routed /\ Tid # 0 /\ ~TorRedirected /\ HttpsRedirected /\ Follow(To("https", url.host))

\* The tenant's own redirects: the browser stays where it is but for the path.  There
\* may be any number of them on the way, so they are not counted.
RedirectPath ==
    /\ Routed /\ Tid # 0 /\ ~TorRedirected /\ ~HttpsRedirected /\ AdminRedirected
    /\ GoTo([scheme |-> url.scheme, host |-> url.host, prefix |-> 0,
             path |-> Row(Tid).redirects[Path]])
    /\ UNCHANGED hops

Handle ==
    /\ Routed /\ Tid # 0 /\ ~TorRedirected /\ ~HttpsRedirected /\ ~AdminRedirected
    /\ Answered(IF Elsewhere THEN "static" ELSE Resolved(Path))

Init ==
    /\ config \in Configs /\ map = Map
    /\ asked = NoUrl /\ url = NoUrl /\ tor = FALSE /\ hops = 0 /\ answer = NoAnswer

Visit ==
    /\ url = NoUrl
    /\ \E visit \in Visits : asked' = visit[1] /\ url' = visit[1] /\ tor' = visit[2]
    /\ UNCHANGED <<config, map, hops, answer>>

Next ==
    \/ Visit \/ CorrectWww \/ LeaveAddress \/ Refuse
    \/ RedirectToTor \/ RedirectToHttps \/ RedirectPath \/ Handle

Spec == Init /\ [][Next]_vars

-----------------------------------------------------------------------------
(* What the address means, whatever the way to the answer                   *)

\* The tenant that is called so, or would be but for the www.  An address is the root's
\* as long as the root is not called otherwise, or is found under the name it has.
Owner(host) ==
    IF ~config.wizard \/ host[1] = "localhost" THEN {Root}
    ELSE IF IsIP(host)
    THEN {t \in {Root} : IF Secured THEN Row(t).web ELSE host[1] = "loopback" \/ Row(t).host = NoHost}
    ELSE LET called == {t \in Tids : host \in NamesOf(t)}
         IN IF called # {} THEN called ELSE {t \in Tids : Www(host) \in NamesOf(t)}

Meant == IF Owner(asked.host) = {Root} /\ asked.prefix \in Active THEN {asked.prefix} ELSE Owner(asked.host)

\* The tenants under the name of the root lose their prefix when the host stays and
\* the scheme or the path changes, and the correction of www drops the whole path.
Lost ==
    /\ asked.prefix # 0
    /\ \/ asked.scheme = "http" \/ asked.host[1] = "loopback"
       \/ \E t \in Meant : Plain(asked.path) \in DOMAIN Row(t).redirects
       \/ Mapped(asked.host) = 0 /\ Mapped(Www(asked.host)) # 0

\* What a path is for: the route of just these words, or else one it matches
Handlers(path) ==
    LET exact == {i \in DOMAIN Routes : Routes[i].pattern = path}
        fits == {i \in DOMAIN Routes : Matches(Routes[i].pattern, path)}
    IN {Routes[i].handler : i \in IF exact # {} THEN exact ELSE fits}

\* If the browser is answered, it is by the tenant it asked for, and by the handler its
\* path is for, and it is refused if there is none, after a few redirects of the
\* platform and any number of the tenant's own.  A tenant under the root's name that
\* loses its prefix is answered for by the root
(* (APIResourceWrapper.render, Trie.search). *)
AnsweredByTenant ==
    /\ hops <= MaxHops
    /\ answer # NoAnswer =>
         /\ Meant = {} => answer = Refused
         /\ Meant # {} => answer.tid \in Meant \cup (IF Lost THEN {Root} ELSE {})
         /\ answer.tid # 0 /\ url.prefix = 0 /\ Handlers(Path) # {} => answer.by \in Handlers(Path)
         /\ answer.tid # 0 /\ Handlers(Path) = {} => answer.by = "static"

=============================================================================
