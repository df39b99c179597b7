------------------------------- MODULE Gateway -------------------------------
(***************************************************************************)
(* What a request shows once before its handler runs: the proof that its   *)
(* client holds the key of the session (DPoP), and the token with the      *)
(* proof of work, which may stand for a session.  That each is used once   *)
(* is remembered in stores whose entries expire.                           *)
(*                                                                         *)
(* Time is counted in ticks, two to a unit; proofs are dated in whole      *)
(* units, as the code dates them in whole seconds.                         *)
(***************************************************************************)
EXTENDS TempStore, Integers, FiniteSetsExt

CONSTANTS Proofs, Clients,
          MaxAge, MaxFuture,     \* PROOF_MAX_AGE, PROOF_MAX_FUTURE, in units
          TokenLife,             \* the timeout of State.tokens
          MaxProofs, MaxTokens,  \* the sizes of the stores
          Mints,                 \* bounds the tokens
          Horizon                \* bounds the clock, in ticks

NoClient == "none"

GatewayAssumption ==
    /\ {MaxAge, MaxFuture, TokenLife, MaxProofs, MaxTokens} \subseteq Nat
    /\ NoClient \notin Clients

VARIABLES
    now,
    jti,        \* State.dpop_jti
    tokens,     \* State.tokens: the client whose session a token stands for, or NoClient
    minted,     \* tokens made
    proofs,     \* the date of each proof that was signed
    session,    \* the clients that have a session
    proved,     \* when the client last showed a proof for its session
    accepted    \* what was accepted: once or more often, each proof

vars == <<now, jti, tokens, minted, proofs, session, proved, accepted>>

Unsigned == -1
Unit(t) == t \div 2
Ticks(u) == 2 * u

Init ==
    /\ now = 0
    /\ jti = Empty /\ tokens = Empty
    /\ minted = 0
    /\ proofs = [p \in Proofs |-> Unsigned]
    /\ session = {}
    /\ proved = [c \in Clients |-> 0]
    /\ accepted = [times |-> [p \in Proofs |-> 0], spared |-> {}]

\* A proof is signed by a clock that may be ahead or behind.
Sign(p) ==
    /\ proofs[p] = Unsigned
    /\ \E date \in 0 .. Unit(now) + MaxFuture : proofs' = [proofs EXCEPT ![p] = date]
    /\ UNCHANGED <<now, jti, tokens, minted, session, proved, accepted>>

Fresh(date) == date >= Unit(now) - MaxAge /\ date <= Unit(now) + MaxFuture

\* Mutant: a proof is remembered as long as one signed now is fresh.
MutRemembered == MaxAge

Remembered == MaxAge + MaxFuture

\* verify_dpop_proof.  Spared are the proofs dated as far ahead as is accepted,
\* and those dropped to make room.
Verified(p) ==
    /\ proofs[p] # Unsigned /\ Fresh(proofs[p])
    /\ p \notin KeysOf(jti)
    /\ jti' = Put(jti, p, NoClient, now + Ticks(Remembered), MaxProofs)
    /\ accepted' = [accepted EXCEPT !.times[p] = IF @ = 0 THEN 1 ELSE 2,
          !.spared = @ \cup (IF proofs[p] = Unit(now) + MaxFuture THEN {p} ELSE {})
                       \cup (IF Full(jti, p, MaxProofs) THEN {Head(jti.entry).key} ELSE {})]

\* A request with a proof: a login opens the session.
Login(c, p) ==
    /\ Verified(p)
    /\ session' = session \cup {c}
    /\ proved' = [proved EXCEPT ![c] = now]
    /\ UNCHANGED <<now, tokens, minted, proofs>>

\* del Sessions: logout, revocation, expiry.
Close(c) ==
    /\ c \in session
    /\ session' = session \ {c}
    /\ UNCHANGED <<now, jti, tokens, minted, proofs, proved, accepted>>

\* TokenHandler.post, on a session that has proved its key or without one.
Mint(c, p) ==
    /\ minted < Mints
    /\ \/ /\ c \in session /\ Verified(p)
          /\ tokens' = Put(tokens, minted + 1, c, now + Ticks(TokenLife), MaxTokens)
          /\ proved' = [proved EXCEPT ![c] = now]
       \/ /\ tokens' = Put(tokens, minted + 1, NoClient, now + Ticks(TokenLife), MaxTokens)
          /\ UNCHANGED <<jti, proved, accepted>>
    /\ minted' = minted + 1
    /\ UNCHANGED <<now, proofs, session>>

\* get_session: a token stands for its session while that is there; nothing is
\* asked of the key.
StandsFor(t) == IF Value(tokens, t) \in session THEN Value(tokens, t) ELSE NoClient

Exchanged(t) == NoClient

\* TokenHandler.post, on a token.
Exchange(t) ==
    /\ t \in KeysOf(tokens) /\ minted < Mints
    /\ tokens' = Put(Without(tokens, t), minted + 1, Exchanged(t), now + Ticks(TokenLife), MaxTokens)
    /\ minted' = minted + 1
    /\ UNCHANGED <<now, jti, proofs, session, proved, accepted>>

\* Any other request with a token, whatever its answer is worth.
Redeem(t) ==
    /\ t \in KeysOf(tokens)
    /\ tokens' = Without(tokens, t)
    /\ UNCHANGED <<now, jti, minted, proofs, session, proved, accepted>>

Fire ==
    /\ \/ \E t \in Due(jti, now) : jti' = Fired(jti, t) /\ UNCHANGED <<tokens>>
       \/ \E t \in Due(tokens, now) : tokens' = Fired(tokens, t) /\ UNCHANGED jti
    /\ UNCHANGED <<now, minted, proofs, session, proved, accepted>>

\* A timer fires within the tick it is due.
Tick ==
    /\ now < Horizon
    /\ Due(jti, now) = {} /\ Due(tokens, now) = {}
    /\ now' = now + 1
    /\ UNCHANGED <<jti, tokens, minted, proofs, session, proved, accepted>>

Next ==
    \/ \E p \in Proofs : Sign(p) \/ \E c \in Clients : Login(c, p) \/ Mint(c, p)
    \/ \E c \in Clients : Close(c)
    \/ \E t \in 1 .. Mints : Exchange(t) \/ Redeem(t)
    \/ Fire \/ Tick

Spec == Init /\ [][Next]_vars

-----------------------------------------------------------------------------
\* A proof is accepted once, however often it is sent while it is fresh, unless it
\* was dropped to make room or was dated the furthest ahead that is accepted: the
\* clock is cut to whole units and the memory is not, and such a proof is forgotten
\* just before it is stale.
ProofOnce == \A p \in Proofs \ accepted.spared : accepted.times[p] <= 1

\* What a token that was seen on its way is good for ends with the session it stands
\* for, and in any case a token's life after the client last showed its proof: no
\* chain of tokens lasts longer.
TokenEnds ==
    [][\A t \in KeysOf(tokens) :
         Redeem(t) /\ StandsFor(t) # NoClient => now <= proved[StandsFor(t)] + Ticks(TokenLife)]_vars
=============================================================================
