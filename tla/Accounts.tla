------------------------------ MODULE Accounts ------------------------------
(***************************************************************************)
(* The keys of the users of a platform and their escrow.                   *)
(*                                                                         *)
(* Every user has a key; the platform keeps it encrypted with the user's   *)
(* password and, when key escrow is on, sealed to the escrow key of the    *)
(* root tenant and to that of the user's tenant, so that an administrator  *)
(* who holds an escrow key can give the user a new password.  A            *)
(* transaction reads its rows before it holds the write lock: here it is   *)
(* begun by one step, which reads, and ended by another, which writes.     *)
(*                                                                         *)
(* A ciphertext is a record of what it is sealed to and what it holds;     *)
(* opening it with another key fails, and with it the transaction.         *)
(***************************************************************************)
EXTENDS Naturals, FiniteSets

CONSTANTS Users, Home, Admins, UserKeys, EscrowKeys, Passwords, Workers, None,
          Root, First,       \* the root tenant, and its first administrator
          MaxOps

Opt(S) == S \cup {None}
Session == [cc : Opt(UserKeys), ek : BOOLEAN, reset : SUBSET Opt(UserKeys)]

\* None is no key, no password and no session.
ASSUME AccountsAssumption ==
    /\ MaxOps \in Nat
    /\ First \in Admins \cap Users /\ Home[First] = Root
    /\ None \notin UserKeys \cup EscrowKeys \cup Passwords \cup Session

Sites == {Home[u] : u \in Users} \cup {Root}

VARIABLES
    rows,     \* the users there are: the columns of User that hold keys
    enc,      \* the tenants with encryption
    pubE,     \* Config crypto_escrow_pub_key of each tenant
    prvE,     \* Config crypto_escrow_prv_key, sealed to the root's escrow key
    sess,     \* the session of each user: cc, ek, the reset token it stems from
    tokens,   \* what the reset tokens of each user hold: the user's key, or nothing
    busy,     \* the transaction each worker is in
    ops,      \* transactions begun so far (bounds the model)
    raced     \* users whose first key was made while another transaction knew of none

vars == <<rows, enc, pubE, prvE, sess, tokens, busy, ops, raced>>

Sealed(K, S) == [to : K, key : S]
Row == [pw : Passwords, needed : BOOLEAN, pub : Opt(UserKeys),
        prv : Opt(Sealed(Passwords, UserKeys)),
        rec : Opt(UserKeys),
        bkp1 : Opt(Sealed(EscrowKeys, UserKeys)),
        bkp2 : Opt(Sealed(EscrowKeys, UserKeys)), esc : Opt(EscrowKeys)]

Seal(to, key) == IF to = None THEN None ELSE [to |-> to, key |-> key]

\* The escrow keys and the user keys that a new one must differ from.
KeysOf(row) == {row.pub, row.rec} \cup {c.key : c \in {row.prv, row.bkp1, row.bkp2} \ {None}}
InUse == UNION {KeysOf(rows[u]) : u \in DOMAIN rows}
         \cup {s.cc : s \in {sess[u] : u \in Users} \ {None}}
         \cup UNION {{b.s.cc, b.key} : b \in {busy[w] : w \in Workers} \ {None}}
         \cup UNION {tokens[u] : u \in Users}
EscrowOf(row) == {row.esc} \cup {c.to : c \in {row.bkp1, row.bkp2} \ {None}}
EscrowInUse == UNION {EscrowOf(rows[u]) : u \in DOMAIN rows}
               \cup {pubE[t] : t \in Sites}
               \cup {b.key : b \in {busy[w] : w \in Workers} \ {None}}
Least(k, S) == k \in S /\ \A j \in S : k <= j
FreshKey(k) == Least(k, UserKeys \ InUse)
FreshEscrow(e) == Least(e, EscrowKeys \ EscrowInUse)

\* A new user of tenant t: with a key only if there is an escrow to keep it.
NewRow(t, k, p, e1, en) ==
    [pw |-> p, needed |-> FALSE, pub |-> k, rec |-> k, esc |-> None,
     prv |-> Seal(IF k = None THEN None ELSE p, k),
     bkp1 |-> Seal(e1, k), bkp2 |-> Seal(IF t = Root THEN None ELSE en, k)]

\* The platform after its wizard, which the first administrator may have
\* answered so as to have escrow.  A platform of before encryption has none.
Init ==
    /\ \E b \in BOOLEAN, escrow \in Opt(EscrowKeys), k \in UserKeys, p \in Passwords :
         /\ escrow # None => b
         /\ enc = [t \in {Root} |-> b]
         /\ pubE = [t \in Sites |-> IF t = Root THEN escrow ELSE None]
         /\ rows = [u \in {First} |->
              [NewRow(Root, IF escrow = None THEN None ELSE k, p, escrow, None)
                 EXCEPT !.esc = escrow]]
    /\ prvE = [t \in Sites |-> None]
    /\ sess = [u \in Users |-> None]
    /\ tokens = [u \in Users |-> {}]
    /\ busy = [w \in Workers |-> None]
    /\ ops = 0
    /\ raced = {}

-----------------------------------------------------------------------------
\* Operators of a session: an administrator of the tenant or of the root one.
Operates(o, t) == o \in Admins \cap DOMAIN rows /\ sess[o] # None /\ Home[o] \in {Root, t}

NoSession == [cc |-> None, ek |-> FALSE, reset |-> {}]

\* What a transaction keeps of what it read of user u, before it has the lock:
\* whether u had a key (had), was asked for a password (needed), held an escrow
\* key (ek); with are the values it was called with or has computed.
Nothing == [pw |-> None, key |-> None, reset |-> {}, at |-> Root, s |-> NoSession]

Begin(w, op, o, u, with) ==
    /\ busy[w] = None
    /\ busy' = [busy EXCEPT ![w] =
         [op |-> op, by |-> o, on |-> u, s |-> with.s, had |-> rows[u].pub # None,
          needed |-> rows[u].needed, ek |-> rows[u].esc # None,
          pw |-> with.pw, key |-> with.key, reset |-> with.reset, at |-> with.at]]
    /\ ops < MaxOps /\ ops' = ops + 1
    /\ UNCHANGED <<rows, enc, pubE, prvE, sess, tokens, raced>>

Running(w, op) == busy[w] # None /\ busy[w].op = op
End(w) == busy' = [busy EXCEPT ![w] = None]

\* Rolled back: an exception, or the row of the user is gone.
Abort(w) ==
    /\ busy[w] # None
    /\ End(w)
    /\ UNCHANGED <<rows, enc, pubE, prvE, sess, tokens, ops, raced>>

\* A login opens the user's key with the password; the recovery of an account
\* opens it with the key of the token or, failing that, with the recovery key.
LoginBegin(w, u) ==
    /\ u \in DOMAIN rows
    /\ rows[u].prv # None => rows[u].prv.to = rows[u].pw
    /\ Begin(w, "login", u, u,
         [Nothing EXCEPT !.key = IF rows[u].prv = None THEN None ELSE rows[u].prv.key])

ResetBegin(w, u, c) ==
    /\ u \in DOMAIN rows /\ c \in tokens[u]
    /\ Begin(w, "login", u, u,
         [Nothing EXCEPT !.reset = {c}, !.key = IF rows[u].prv = None THEN None
                                               ELSE IF c # None THEN c ELSE rows[u].rec])

\* A user without a key is given one, which the first change of password
\* stores; two such keys may meet.
Meets(u) == rows[u].pub # None
            \/ \E w \in Workers : Running(w, "change") /\ busy[w].on = u /\ ~busy[w].had

LoginEnd(w) ==
    /\ Running(w, "login")
    /\ LET b == busy[w]
           u == b.on
           new == b.key = None /\ (b.reset # {} \/ enc[Home[u]])
       IN \E k \in IF new THEN {x \in UserKeys : FreshKey(x)} ELSE {b.key} :
            /\ sess' = [sess EXCEPT ![u] = [cc |-> k, ek |-> b.ek, reset |-> b.reset]]
            /\ rows' = [rows EXCEPT ![u].needed = @ \/ new \/ b.reset # {}]
            /\ raced' = IF new /\ Meets(u) THEN raced \cup {u} ELSE raced
    /\ End(w)
    /\ UNCHANGED <<enc, pubE, prvE, tokens, ops>>

\* The end of a session: logout, or its expiry.
Logout(u) ==
    /\ sess[u] # None
    /\ sess' = [sess EXCEPT ![u] = None]
    /\ UNCHANGED <<rows, enc, pubE, prvE, tokens, busy, ops, raced>>

-----------------------------------------------------------------------------
\* A user changes the own password.
ChangeBegin(w, u, p) ==
    /\ u \in DOMAIN rows /\ sess[u] # None
    /\ p # rows[u].pw
    /\ Begin(w, "change", u, u, [Nothing EXCEPT !.pw = p, !.s = sess[u]])

\* The escrow keys are read once the write lock is held.
ChangedRow(b, row) ==
    LET c == b.s.cc
        t == Home[b.on]
        settled == IF b.needed THEN FALSE ELSE row.needed
    IN IF ~enc[t] THEN [row EXCEPT !.pw = b.pw, !.needed = settled]
       ELSE [row EXCEPT !.pw = b.pw, !.needed = settled,
               !.pub = IF b.had THEN @ ELSE c,
               !.rec = IF b.had THEN @ ELSE c,
               !.prv = [to |-> b.pw, key |-> c],
               !.bkp1 = IF pubE[Root] = None THEN @ ELSE Seal(pubE[Root], c),
               !.bkp2 = IF t = Root \/ pubE[t] = None THEN @
                        ELSE Seal(pubE[t], c)]

ChangeEnd(w) ==
    /\ Running(w, "change")
    /\ LET b == busy[w]
           u == b.on
       IN /\ enc[Home[u]] => b.s.cc # None
          /\ rows' = [rows EXCEPT ![u] = ChangedRow(b, @)]
          /\ \E gone \in {{}, b.s.reset} : tokens' = [tokens EXCEPT ![u] = @ \ gone]
          /\ sess' = IF sess[u] = b.s THEN [sess EXCEPT ![u].reset = {}] ELSE sess
    /\ End(w)
    /\ UNCHANGED <<enc, pubE, prvE, ops, raced>>

-----------------------------------------------------------------------------
\* The key of a user as an escrow key opens it: None when it does not.
Recovered(row, o, mine) ==
    LET c == IF Home[o] = Root THEN row.bkp1 ELSE row.bkp2
    IN IF c # None /\ mine # None /\ c.to = mine THEN c.key ELSE None

\* An administrator sets the password of a user.
SetBegin(w, o, u, p) ==
    /\ u \in DOMAIN rows \ {o} /\ Operates(o, Home[u])
    /\ rows[u].pub # None => sess[o].ek
    /\ Begin(w, "set", o, u,
             [Nothing EXCEPT !.pw = p, !.key = Recovered(rows[u], o, rows[o].esc)])

\* Mutant: the key is not encrypted again with the new password.
HashOnly(b, row) == [row EXCEPT !.pw = b.pw, !.needed = TRUE]

SetRow(b, row) ==
    [row EXCEPT !.pw = b.pw, !.needed = TRUE,
                !.prv = IF b.had THEN [to |-> b.pw, key |-> b.key] ELSE @]

SetEnd(w) ==
    /\ Running(w, "set")
    /\ LET b == busy[w] IN
       /\ b.had => b.key # None
       /\ rows' = [rows EXCEPT ![b.on] = SetRow(b, @)]
       /\ sess' = [sess EXCEPT ![b.on] = None]
       /\ raced' = IF ~b.had /\ rows[b.on].pub # None THEN raced \cup {b.on} ELSE raced
    /\ End(w)
    /\ UNCHANGED <<enc, pubE, prvE, tokens, ops>>

\* A reset token: asked for by the user, or by an administrator, who seals the
\* user's key into it if the escrow allows; the mail leaves in either case.
AskReset(u) ==
    /\ ops < MaxOps /\ ops' = ops + 1
    /\ u \in DOMAIN rows
    /\ tokens' = [tokens EXCEPT ![u] = @ \cup {None}]
    /\ UNCHANGED <<rows, enc, pubE, prvE, sess, busy, raced>>

SendReset(o, u) ==
    /\ ops < MaxOps /\ ops' = ops + 1
    /\ u \in DOMAIN rows \ {o} /\ Operates(o, Home[u])
    /\ LET key == IF rows[u].pub # None /\ sess[o].ek
                  THEN Recovered(rows[u], o, rows[o].esc) ELSE None
       IN tokens' = [tokens EXCEPT ![u] = @ \cup {key}]
    /\ UNCHANGED <<rows, enc, pubE, prvE, sess, busy, raced>>

\* The periodic cleaning of the ramdisk.
ExpireToken(u) ==
    /\ \E c \in tokens[u] : tokens' = [tokens EXCEPT ![u] = @ \ {c}]
    /\ UNCHANGED <<rows, enc, pubE, prvE, sess, busy, ops, raced>>

-----------------------------------------------------------------------------
\* An administrator turns the escrow of a tenant on, with a new escrow key, or
\* off.  Whoever else has a backup to make is asked for a new password.
ToggleBegin(w, o, t) ==
    /\ t \in DOMAIN enc /\ enc[t] /\ Operates(o, t)
    /\ Begin(w, IF pubE[t] = None THEN "enable" ELSE "disable", o, o,
             [Nothing EXCEPT !.at = t, !.s = sess[o]])

Asked(o, t) == {u \in DOMAIN rows : u # o /\ (t = Root \/ Home[u] = t)}

Enable(b, e) ==
    LET o == b.on
        t == b.at
        row == [rows[o] EXCEPT !.esc = IF Home[o] = t THEN e ELSE @,
                               !.bkp1 = IF t = Root THEN Seal(e, b.s.cc) ELSE @,
                               !.bkp2 = IF t # Root THEN Seal(e, b.s.cc) ELSE @]
    IN /\ pubE' = [pubE EXCEPT ![t] = e]
       /\ prvE' = IF t = Root \/ pubE[Root] = None THEN prvE
                  ELSE [prvE EXCEPT ![t] = Seal(pubE[Root], e)]
       /\ rows' = [u \in DOMAIN rows |->
            IF u = o THEN row
            ELSE [rows[u] EXCEPT !.needed = @ \/ u \in Asked(o, t)]]

EnableEnd(w) ==
    /\ Running(w, "enable")
    /\ LET b == busy[w] IN
       /\ Home[b.on] = b.at => b.had
       /\ b.s.cc # None
       /\ \E e \in EscrowKeys : FreshEscrow(e) /\ Enable(b, e)
       /\ sess' = IF sess[b.on] = b.s /\ Home[b.on] = b.at
                  THEN [sess EXCEPT ![b.on].ek = TRUE] ELSE sess
    /\ End(w)
    /\ UNCHANGED <<enc, tokens, ops, raced>>

Cleared(u, t) ==
    [rows[u] EXCEPT !.bkp1 = IF t = Root THEN None ELSE @,
                    !.bkp2 = IF t # Root /\ Home[u] = t THEN None ELSE @,
                    !.esc = IF Home[u] = t THEN None ELSE @]

DisableEnd(w) ==
    /\ Running(w, "disable")
    /\ LET t == busy[w].at IN
       /\ rows' = [u \in DOMAIN rows |-> Cleared(u, t)]
       /\ pubE' = [pubE EXCEPT ![t] = None]
       /\ prvE' = [prvE EXCEPT ![t] = None]
    /\ End(w)
    /\ UNCHANGED <<enc, sess, tokens, ops, raced>>

\* An administrator gives the escrow key of the tenant to another, or takes it.
Shared(o, u) ==
    IF rows[u].esc # None \/ Home[o] # Root \/ Home[u] = Root THEN rows[o].esc
    ELSE IF prvE[Home[u]] # None /\ prvE[Home[u]].to = rows[o].esc
         THEN prvE[Home[u]].key ELSE None

ShareBegin(w, o, u) ==
    /\ u \in DOMAIN rows \ {o} /\ Operates(o, Home[u])
    /\ sess[o].ek /\ rows[u].pub # None
    /\ rows[u].esc = None => Shared(o, u) # None
    /\ Begin(w, "share", o, u, [Nothing EXCEPT !.key = Shared(o, u)])

ShareEnd(w) ==
    /\ Running(w, "share")
    /\ LET b == busy[w] IN
       rows' = [rows EXCEPT ![b.on].esc = IF b.ek THEN None ELSE b.key]
    /\ End(w)
    /\ UNCHANGED <<enc, pubE, prvE, sess, tokens, ops, raced>>

-----------------------------------------------------------------------------
\* The wizard of a secondary tenant: escrow there as on the root tenant, and an
\* administrator who holds its key and has a password to change.
Wizard(t, a) ==
    /\ ops < MaxOps /\ ops' = ops + 1
    /\ t \notin DOMAIN enc /\ Home[a] = t /\ a \in Admins
    /\ enc' = [x \in DOMAIN enc \cup {t} |-> IF x = t THEN enc[Root] ELSE enc[x]]
    /\ \E e \in Opt(EscrowKeys), k \in Opt(UserKeys), p \in Passwords :
         /\ IF pubE[Root] # None /\ enc[Root]
            THEN FreshEscrow(e) /\ FreshKey(k) ELSE e = None /\ k = None
         /\ pubE' = [pubE EXCEPT ![t] = e]
         /\ prvE' = [prvE EXCEPT ![t] = Seal(IF e = None THEN None ELSE pubE[Root], e)]
         /\ rows' = [u \in DOMAIN rows \cup {a} |->
              IF u # a THEN rows[u]
              ELSE [NewRow(t, k, p, pubE[Root], e) EXCEPT !.esc = e, !.needed = TRUE]]
    /\ UNCHANGED <<sess, tokens, busy, raced>>

\* A new user.  With escrow on the root tenant alone and no encryption on this
\* one the code has no key to seal, and fails.
CreateUser(o, u) ==
    /\ ops < MaxOps /\ ops' = ops + 1
    /\ Home[u] \in DOMAIN enc /\ u \notin DOMAIN rows /\ Operates(o, Home[u])
    /\ LET t == Home[u]
           keyed == (enc[t] /\ pubE[Root] # None) \/ pubE[t] # None
       IN /\ pubE[Root] # None => keyed
          /\ \E k \in Opt(UserKeys), p \in Passwords :
               /\ IF keyed THEN FreshKey(k) ELSE k = None
               /\ rows' = [x \in DOMAIN rows \cup {u} |->
                    IF x = u THEN NewRow(t, k, p, pubE[Root], pubE[t]) ELSE rows[x]]
               /\ \E link \in {{}, {k}} : tokens' = [tokens EXCEPT ![u] = link]
    /\ UNCHANGED <<enc, pubE, prvE, sess, busy, raced>>

\* What was begun for a user who is deleted is rolled back, and the tokens of
\* the user are worth nothing.
DeleteUser(o, u) ==
    /\ ops < MaxOps /\ ops' = ops + 1
    /\ u \in DOMAIN rows \ {o} /\ Operates(o, Home[u])
    /\ rows[u].esc # None => sess[o].ek
    /\ rows' = [x \in DOMAIN rows \ {u} |-> rows[x]]
    /\ sess' = [sess EXCEPT ![u] = None]
    /\ tokens' = [tokens EXCEPT ![u] = {}]
    /\ busy' = [w \in Workers |->
         IF busy[w] # None /\ busy[w].on = u /\ busy[w].op # "disable" THEN None ELSE busy[w]]
    /\ raced' = raced \ {u}
    /\ UNCHANGED <<enc, pubE, prvE>>

EnableEncryption(o, t) ==
    /\ ops < MaxOps /\ ops' = ops + 1
    /\ t \in DOMAIN enc /\ ~enc[t] /\ Operates(o, t)
    /\ t # Root => enc[Root]
    /\ enc' = [enc EXCEPT ![t] = TRUE]
    /\ sess' = [sess EXCEPT ![o] = None]
    /\ UNCHANGED <<rows, pubE, prvE, tokens, busy, raced>>

Next ==
    \/ \E u \in Users : Logout(u) \/ AskReset(u) \/ ExpireToken(u)
    \/ \E o, u \in Users : SendReset(o, u) \/ CreateUser(o, u) \/ DeleteUser(o, u)
    \/ \E t \in Sites, u \in Users : Wizard(t, u) \/ EnableEncryption(u, t)
    \/ \E w \in Workers :
         \/ Abort(w) \/ LoginEnd(w) \/ ChangeEnd(w) \/ SetEnd(w)
         \/ EnableEnd(w) \/ DisableEnd(w) \/ ShareEnd(w)
         \/ \E u \in Users :
              \/ LoginBegin(w, u)
              \/ \E c \in Opt(UserKeys) : ResetBegin(w, u, c)
              \/ \E p \in Passwords : ChangeBegin(w, u, p)
              \/ \E t \in Sites : ToggleBegin(w, u, t)
         \/ \E o, u \in Users :
              \/ ShareBegin(w, o, u)
              \/ \E p \in Passwords : SetBegin(w, o, u, p)

Spec == Init /\ [][Next]_vars

-----------------------------------------------------------------------------
(* Properties *)

\* The password of a user opens the user's key, and that key is the one reports
\* are sealed to, whatever order changes of password, escrow and recovery come
\* in.  The exception is a user whose first key was made by one transaction
\* while another, that had read the row before, knew of none.
KeysFit ==
    \A u \in DOMAIN rows \ raced : rows[u].prv # None =>
        /\ rows[u].prv.to = rows[u].pw
        /\ rows[u].prv.key = rows[u].pub

\* While escrow is on, the key of every user who is not asked for a new
\* password can be recovered: it is sealed to the escrow key in force.
EscrowRecovers ==
    \A u \in DOMAIN rows \ raced : rows[u].pub # None /\ ~rows[u].needed =>
        /\ rows[u].bkp1 = Seal(pubE[Root], rows[u].pub)
        /\ Home[u] # Root => rows[u].bkp2 = Seal(pubE[Home[u]], rows[u].pub)

\* Once escrow is off, no key of a user is left in escrow.
NothingInEscrow ==
    \A u \in DOMAIN rows :
        /\ pubE[Root] = None => rows[u].bkp1 = None
        /\ Home[u] # Root /\ pubE[Home[u]] = None => rows[u].bkp2 = None

\* The password of a user keeps opening the user's key, and escrow holds the keys
\* it should, and no other.
KeysSound == KeysFit /\ EscrowRecovers /\ NothingInEscrow
=============================================================================
