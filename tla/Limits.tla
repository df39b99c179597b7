-------------------------------- MODULE Limits --------------------------------
(***************************************************************************)
(* The limits on how often the interface is used: for most requests a       *)
(* bucket for each address on a tenant, for each address, for each tenant   *)
(* and for the system, kept in a cache that drops the bucket used least     *)
(* recently.                                                                *)
(*                                                                         *)
(* A bucket starts with its limit, refills at its limit for each period up  *)
(* to a burst that is the same for all of them, and is worked out from the  *)
(* moment it was last looked at.  Tokens are counted in parts, a period to  *)
(* a token.  Whether a refused request is rejected or delayed changes       *)
(* nothing of the buckets.  The requests of two classes use no bucket in    *)
(* common: one class is followed at a time.                                 *)
(***************************************************************************)
EXTENDS Naturals, FiniteSets, Sequences, SequencesExt, FiniteSetsExt

CONSTANTS Tenants, Addresses,
          Tor,          \* the address shared by the clients of Tor
          Classes,      \* the kinds of requests that are looked at
          Limit(_),     \* the thresholds, by kind of bucket
          Period(_),    \* how long each kind of bucket takes to refill
          Burst,
          MaxBuckets,   \* the size of the cache
          Horizon       \* bounds the clock

\* The kinds of buckets
Kinds == {"tenant_ip", "ip", "ip_minute", "tenant", "system", "second", "minute", "hour"}

LimitsAssumption ==
    /\ Burst \in Nat
    /\ \A kind \in Kinds : Limit(kind) \in Nat /\ Period(kind) \in Nat

VARIABLES now,
          class,        \* the class of the requests
          cache,        \* the buckets, each with how many were used since it was
          charged,      \* what each address took of each bucket
          dropped       \* whether a bucket was dropped

vars == <<now, class, cache, charged, dropped>>

Callers == Addresses \X Tenants

\* The keys, each with the kind of its limit.
Own(a, t) == <<"tenant_ip", a, t>>
OfAddress(a) == <<"ip", a, 0>>
AtOnce(a) == <<"ip_minute", a, 0>>
OfTenant(t) == <<"tenant", 0, t>>
System == <<"system", 0, 0>>
OfReport(r) == <<<<"second", r, 0>>, <<"minute", r, 0>>, <<"hour", r, 0>>>>

\* Mutant: the limits of the system and of the tenant are looked at first.
MutOrder(c, a, t) ==
    CASE c = "operation" -> OfReport(a)
      [] c = "csp" -> <<System, OfAddress(a)>>
      [] c = "signup" -> <<System, AtOnce(a), OfAddress(a)>>
      [] OTHER -> <<System, OfTenant(t), OfAddress(a), Own(a, t)>>

\* The limits a request meets, in their order: logins, requests for support and
\* reports; sign-ups; reports of the browsers; and the other requests of a report's
\* own session, for which a stands for the report.
Order(c, a, t) ==
    CASE c = "operation" -> OfReport(a)
      [] c = "csp" -> IF a = Tor THEN <<System>> ELSE <<OfAddress(a), System>>
      [] c = "signup" -> IF a = Tor THEN <<System>> ELSE <<AtOnce(a), OfAddress(a), System>>
      [] OTHER -> IF a = Tor THEN <<OfTenant(t), System>>
                  ELSE <<Own(a, t), OfAddress(a), OfTenant(t), System>>

\* The keys that the requests of the class can meet.
Keys == UNION {Range(Order(class, c[1], c[2])) : c \in Callers}

Known(k) == k \in DOMAIN cache
Bucket(k) == IF Known(k) THEN cache[k] ELSE [parts |-> Limit(k[1]) * Period(k[1]), at |-> now]

\* TokenBucket.update: what there is now, before one is taken.
Parts(k) == LET b == Bucket(k) IN Min({Burst * Period(k[1]), b.parts + (now - b.at) * Limit(k[1])})
Free(k) == Parts(k) >= Period(k[1])

\* The limits that are looked at: up to the first that refuses.
Asked(a, t) ==
    LET o == Order(class, a, t)
        refuse == {i \in DOMAIN o : ~Free(o[i])}
    IN  SubSeq(o, 1, IF refuse = {} THEN Len(o) ELSE Min(refuse))

Looked(k) == [parts |-> IF Free(k) THEN Parts(k) - Period(k[1]) ELSE Parts(k), at |-> now]

\* How many buckets were used since k was, once those asked are, in their order
Age(asked, k) ==
    IF k \in Range(asked) THEN Len(asked) - (CHOOSE i \in DOMAIN asked : asked[i] = k)
    ELSE Len(asked) + Cardinality({o \in DOMAIN cache \ Range(asked) : cache[o].age < cache[k].age})

\* The buckets that were looked at are used last; those used longest ago go if there
\* are too many.
After(asked) ==
    [k \in {o \in DOMAIN cache \cup Range(asked) : Age(asked, o) < MaxBuckets} |->
        LET b == IF k \in Range(asked) THEN Looked(k) ELSE cache[k]
        IN [parts |-> b.parts, at |-> b.at, age |-> Age(asked, k)]]

Init ==
    /\ now = 0
    /\ class \in Classes
    /\ cache = << >>
    /\ charged = [k \in Keys |-> [a \in Addresses |-> 0]]
    /\ dropped = FALSE

\* decorator_rate_limit: refused or not, the buckets are charged.
Request(a, t) ==
    LET asked == Asked(a, t) IN
    /\ cache' = After(asked)
    /\ charged' = [k \in DOMAIN charged |->
          IF k \notin Range(asked) \/ ~Free(k) THEN charged[k]
          ELSE [charged[k] EXCEPT ![a] = @ + 1]]
    /\ dropped' = (dropped \/ ~(DOMAIN cache \cup Range(asked) \subseteq DOMAIN cache'))
    /\ UNCHANGED <<now, class>>

Tick ==
    /\ now < Horizon
    /\ now' = now + 1
    /\ UNCHANGED <<class, cache, charged, dropped>>

Next == Tick \/ \E c \in Callers : ~dropped /\ Request(c[1], c[2])

Spec == Init /\ [][Next]_vars

-----------------------------------------------------------------------------
\* n is a limit of the address a alone that everything it takes of w has to pass.
Narrower(n, w, a) ==
    \/ n = OfAddress(a) /\ w = System
    \/ n = AtOnce(a) /\ w \in {OfAddress(a), System} /\ class = "signup"
    \/ class \notin {"csp", "signup", "operation"}
       /\ \E t \in Tenants : n = Own(a, t) /\ w = OfTenant(t)
    \/ \E i, j \in 1..3 : i < j /\ n = OfReport(a)[i] /\ w = OfReport(a)[j]

\* What one address takes of a limit it shares with others is bounded by its own, however
\* often it is refused and whatever the others take, and so is what one report takes in
\* an hour by what it may take in a second: requests over a narrower limit use up no
\* wider one.  (While no bucket was dropped; clients of Tor have no limit of their own.)
OwnShare ==
    dropped \/ \A a \in Addresses \ {Tor} : \A n, w \in DOMAIN charged :
        Narrower(n, w, a) =>
            charged[w][a] * Period(n[1]) <= Limit(n[1]) * (Period(n[1]) + now)
=============================================================================
