------------------------ MODULE Administration_proofs ------------------------
(***************************************************************************)
(* Proofs about Accounts and Forms, for any users, tenants, keys, passwords, *)
(* questionnaires and workers, and any number of transactions at once.       *)
(*                                                                           *)
(* Accounts: the key of a user whose first key was made by one transaction   *)
(* alone never changes once it is stored, so that what a transaction has     *)
(* read of it, and what sessions and reset tokens hold of it, is still the   *)
(* key when it is written again: that is the invariant.  Escrow is right     *)
(* because a transaction reads the escrow keys after it has the write lock,  *)
(* and who turns escrow on asks everyone else for a new password in the same *)
(* write.                                                                    *)
(*                                                                           *)
(* Forms: the rows are linked as the foreign keys say and only within a      *)
(* tenant or to the root's templates, also where a transaction read them     *)
(* before it wrote (LinksInv).  Groups nest because each field can be given  *)
(* a level, one below its group's (Nests): what a deletion, a cascade, a     *)
(* move or a copy does to the levels is said by a lemma each.  The           *)
(* serialization and the walks up and down the groups are recursive          *)
(* functions and folds: Recursion and FlattenIn say what they return.        *)
(***************************************************************************)
EXTENDS MCAdministration, TLAPS, FiniteSetTheorems, SequenceTheorems, WellFoundedInduction

-----------------------------------------------------------------------------
(* Accounts *)

Ops == {"login", "change", "set", "enable", "disable", "share"}
Tx == [op : Ops, by : Users, on : Users, s : Session,
       had : BOOLEAN, needed : BOOLEAN, ek : BOOLEAN,
       pw : Opt(Passwords), key : Opt(UserKeys \cup EscrowKeys),
       reset : SUBSET Opt(UserKeys), at : Sites]

\* A transaction has the values its kind works with.
Fits(b) ==
    /\ b.key \in IF b.op = "share" THEN Opt(EscrowKeys) ELSE Opt(UserKeys)
    /\ b.op \in {"change", "set"} => b.pw \in Passwords

TypeOK ==
    /\ DOMAIN rows \subseteq Users /\ rows \in [DOMAIN rows -> Row]
    /\ DOMAIN enc \subseteq Sites /\ Root \in DOMAIN enc /\ enc \in [DOMAIN enc -> BOOLEAN]
    /\ pubE \in [Sites -> Opt(EscrowKeys)]
    /\ prvE \in [Sites -> Opt(Sealed(EscrowKeys, EscrowKeys))]
    /\ sess \in [Users -> Opt(Session)]
    /\ tokens \in [Users -> SUBSET Opt(UserKeys)]
    /\ busy \in [Workers -> Opt(Tx)]
    /\ ops \in 0..MaxOps
    /\ raced \subseteq Users
    /\ \A w \in Workers : busy[w] # None => Fits(busy[w])

\* Of a user who is not there, or was deleted, there is nothing left.
NothingOfAbsent ==
    /\ raced \subseteq DOMAIN rows
    /\ \A u \in Users \ DOMAIN rows :
          /\ sess[u] = None /\ tokens[u] = {}
          /\ \A w \in Workers : busy[w] # None /\ busy[w].on = u => busy[w].op = "disable"

\* Keys and escrow are only where there is encryption.
OnlyEncrypted ==
    /\ \A u \in DOMAIN rows : Home[u] \in DOMAIN enc /\ (rows[u].pub # None => enc[Home[u]])
    /\ \A t \in Sites : pubE[t] # None => t \in DOMAIN enc /\ enc[t]
    /\ \A w \in Workers : Running(w, "enable") =>
          /\ busy[w].at \in DOMAIN enc /\ enc[busy[w].at]
          /\ Home[busy[w].on] \in {Root, busy[w].at}

\* What is stored of the key of a user, and where, holds that key.
Holds(c, row) == c # None => row.pub # None /\ c.key = row.pub

Stored(row, t) ==
    /\ Holds(row.prv, row) /\ (row.prv # None => row.prv.to = row.pw)
    /\ row.rec = row.pub
    /\ Holds(row.bkp1, row) /\ (t # Root => Holds(row.bkp2, row))

StoredKeys ==
    \A u \in DOMAIN rows \ raced :
        Stored(rows[u], Home[u]) /\ tokens[u] \subseteq {None, rows[u].pub}

\* A session has the key of its user or none.
SessionKeys ==
    \A u \in DOMAIN rows \ raced :
        sess[u] # None /\ rows[u].pub # None => sess[u].cc \in {None, rows[u].pub}

\* What a transaction read of the key of a user is still so.
StillSo(b, pub) ==
    /\ b.had /\ b.op # "disable" => pub # None
    /\ b.op = "login" => b.key \in {None, pub}
    /\ b.op = "set" /\ b.had => b.key \in {None, pub}
    /\ b.op \in {"change", "enable"} /\ b.had => b.s.cc \in {None, pub}

ReadKeys ==
    \A w \in Workers : busy[w] # None /\ busy[w].on \in DOMAIN rows \ raced =>
        StillSo(busy[w], rows[busy[w].on].pub)

\* The first key of a user is made once: the transactions about to store one agree
\* with each other, with the session and with what is stored.
FirstChange(b) == b # None /\ b.op = "change" /\ ~b.had

FirstKeys ==
    \A w \in Workers : FirstChange(busy[w]) /\ busy[w].s.cc # None /\ busy[w].on \in DOMAIN rows \ raced =>
        LET u == busy[w].on
            cc == busy[w].s.cc
        IN  /\ rows[u].pub \in {None, cc}
            /\ sess[u] # None => sess[u].cc \in {None, cc}
            /\ \A v \in Workers : FirstChange(busy[v]) /\ busy[v].on = u => busy[v].s.cc \in {None, cc}

IInv ==
    /\ TypeOK /\ NothingOfAbsent /\ OnlyEncrypted
    /\ StoredKeys /\ SessionKeys /\ ReadKeys /\ FirstKeys
    /\ EscrowRecovers /\ NothingInEscrow

-----------------------------------------------------------------------------
(* Rows and what a transaction finds when it ends *)

LEMMA HomeIsSite == Root \in Sites /\ \A u \in Users : Home[u] \in Sites
  BY DEF Sites

\* A new user has a key only where there is one to keep it.
LEMMA NewRowTyped ==
    ASSUME NEW t, NEW k \in Opt(UserKeys), NEW p \in Passwords,
           NEW e1 \in Opt(EscrowKeys), NEW en \in Opt(EscrowKeys),
           k = None => e1 = None /\ (t # Root => en = None)
    PROVE  NewRow(t, k, p, e1, en) \in Row
  BY DEF NewRow, Row, Seal, Opt, Sealed

LEMMA NewRowStored ==
    ASSUME NEW t, NEW k \in Opt(UserKeys), NEW p \in Passwords,
           NEW e1 \in Opt(EscrowKeys), NEW en \in Opt(EscrowKeys),
           k = None => e1 = None /\ (t # Root => en = None),
           NEW row, row = NewRow(t, k, p, e1, en)
    PROVE  /\ Stored(row, t) /\ row.pub = k
           /\ row.bkp1 = Seal(e1, k) /\ (t # Root => row.bkp2 = Seal(en, k))
           /\ e1 = None => row.bkp1 = None
           /\ t # Root /\ en = None => row.bkp2 = None
  BY AccountsAssumption DEF NewRow, Stored, Holds, Seal, Opt

\* Initially there is the first administrator, idle.
LEMMA Initially == Init => IInv
<1> SUFFICES ASSUME Init PROVE IInv
  OBVIOUS
<1> USE AccountsAssumption, HomeIsSite
<1>1. PICK b \in BOOLEAN, escrow \in Opt(EscrowKeys), k \in UserKeys, p \in Passwords :
         /\ escrow # None => b
         /\ enc = [t \in {Root} |-> b]
         /\ pubE = [t \in Sites |-> IF t = Root THEN escrow ELSE None]
         /\ rows = [u \in {First} |->
              [NewRow(Root, IF escrow = None THEN None ELSE k, p, escrow, None)
                 EXCEPT !.esc = escrow]]
  BY DEF Init
<1>2. PICK kk : kk = IF escrow = None THEN None ELSE k
  OBVIOUS
<1>3. PICK row : row = NewRow(Root, kk, p, escrow, None)
  OBVIOUS
<1>4. kk \in Opt(UserKeys) /\ None \in Opt(EscrowKeys) /\ (kk = None => escrow = None)
  BY <1>2 DEF Opt
<1>5. row \in Row
  BY <1>3, <1>4, NewRowTyped
<1>6. /\ Stored(row, Root) /\ row.pub = kk
      /\ row.bkp1 = Seal(escrow, kk) /\ (escrow = None => row.bkp1 = None)
  BY <1>3, <1>4, NewRowStored
<1>7. /\ DOMAIN rows = {First} /\ rows[First] = [row EXCEPT !.esc = escrow]
      /\ rows[First] \in Row /\ Stored(rows[First], Root)
      /\ rows[First].pub = row.pub /\ rows[First].bkp1 = row.bkp1
  BY <1>1, <1>2, <1>3, <1>5, <1>6 DEF Row, Stored, Holds
<1>8. TypeOK
  BY <1>1, <1>7 DEF Init, TypeOK, Opt
<1>9. NothingOfAbsent /\ ReadKeys /\ FirstKeys
  BY <1>7 DEF Init, NothingOfAbsent, ReadKeys, FirstKeys, FirstChange
<1>10. OnlyEncrypted
  BY <1>1, <1>2, <1>6, <1>7 DEF Init, OnlyEncrypted, Running
<1>11. StoredKeys /\ SessionKeys
  BY <1>1, <1>7 DEF Init, StoredKeys, SessionKeys
<1>12. EscrowRecovers /\ NothingInEscrow
  BY <1>1, <1>6, <1>7 DEF Init, EscrowRecovers, NothingInEscrow
<1> QED
  BY <1>8, <1>9, <1>10, <1>11, <1>12 DEF IInv

-----------------------------------------------------------------------------
(* Sessions, reset tokens and rollbacks *)

\* A row, and what an administrator who may act on its user recovers from it.
LEMMA RecoveredKey ==
    ASSUME IInv, NEW u \in DOMAIN rows, NEW o \in Users, Home[o] \in {Root, Home[u]}, NEW mine
    PROVE  /\ Recovered(rows[u], o, mine) \in Opt(UserKeys)
           /\ u \notin raced => Recovered(rows[u], o, mine) \in {None, rows[u].pub}
<1>1. rows[u] \in Row
  BY DEF IInv, TypeOK
<1>2. u \notin raced => Stored(rows[u], Home[u])
  BY DEF IInv, StoredKeys
<1>3. Home[o] # Root => Home[u] # Root
  OBVIOUS
<1> QED
  BY <1>1, <1>2, <1>3 DEF Recovered, Stored, Holds, Row, Opt, Sealed

\* One transaction more, which stays within the bound.
LEMMA OneMore ==
    ASSUME TypeOK, ops < MaxOps, ops' = ops + 1 PROVE ops' \in 0..MaxOps
  BY AccountsAssumption DEF TypeOK

\* Who operates has a session and a row.
LEMMA Operator ==
    ASSUME IInv, NEW o \in Users, NEW t, Operates(o, t)
    PROVE  o \in DOMAIN rows /\ rows[o] \in Row /\ sess[o] \in Session /\ Home[o] \in {Root, t}
  BY DEF IInv, TypeOK, Operates, Opt

LEMMA LogoutSafe == ASSUME IInv, NEW u \in Users, Logout(u) PROVE IInv'
<1> USE DEF IInv, Logout
<1>1. TypeOK'
  BY DEF TypeOK, Opt
<1>2. NothingOfAbsent'
  BY DEF TypeOK, NothingOfAbsent
<1>3. OnlyEncrypted' /\ StoredKeys' /\ ReadKeys' /\ EscrowRecovers' /\ NothingInEscrow'
  BY DEF OnlyEncrypted, Running, StoredKeys, ReadKeys, EscrowRecovers, NothingInEscrow
<1>4. SessionKeys' /\ FirstKeys'
  BY DEF TypeOK, NothingOfAbsent, SessionKeys, FirstKeys
<1> QED
  BY <1>1, <1>2, <1>3, <1>4

\* Reset tokens: others may come, for the user's key or for none, and some may go.
LEMMA TokensSafe ==
    ASSUME IInv, NEW u \in Users, NEW set \in SUBSET Opt(UserKeys),
           tokens' = [tokens EXCEPT ![u] = set],
           u \notin DOMAIN rows => set = {},
           u \in DOMAIN rows \ raced => set \subseteq {None, rows[u].pub},
           ops' \in 0..MaxOps, UNCHANGED <<rows, enc, pubE, prvE, sess, busy, raced>>
    PROVE  IInv'
<1> USE DEF IInv
<1>1. TypeOK'
  BY DEF TypeOK
<1>2. NothingOfAbsent'
  BY DEF TypeOK, NothingOfAbsent
<1>3. OnlyEncrypted' /\ SessionKeys' /\ ReadKeys' /\ FirstKeys' /\ EscrowRecovers' /\ NothingInEscrow'
  BY DEF OnlyEncrypted, Running, SessionKeys, ReadKeys, FirstKeys, EscrowRecovers, NothingInEscrow
<1>4. StoredKeys'
  BY DEF TypeOK, StoredKeys
<1> QED
  BY <1>1, <1>2, <1>3, <1>4

LEMMA AskResetSafe == ASSUME IInv, NEW u \in Users, AskReset(u) PROVE IInv'
<1>1. ops' \in 0..MaxOps
  BY OneMore DEF IInv, AskReset
<1>2. PICK set : set = tokens[u] \cup {None}
  OBVIOUS
<1>3. set \in SUBSET Opt(UserKeys) /\ (u \in DOMAIN rows \ raced => set \subseteq {None, rows[u].pub})
  BY <1>2 DEF IInv, TypeOK, StoredKeys, Opt
<1> QED
  BY <1>1, <1>2, <1>3, TokensSafe DEF AskReset

LEMMA SendResetSafe == ASSUME IInv, NEW o \in Users, NEW u \in Users, SendReset(o, u) PROVE IInv'
<1>1. ops' \in 0..MaxOps
  BY OneMore DEF IInv, SendReset
<1>2. PICK key : /\ key \in {None, Recovered(rows[u], o, rows[o].esc)}
                 /\ tokens' = [tokens EXCEPT ![u] = @ \cup {key}]
  BY DEF SendReset
<1>3. Home[o] \in {Root, Home[u]} /\ u \in DOMAIN rows
  BY Operator DEF SendReset
<1>4. key \in Opt(UserKeys) /\ (u \in DOMAIN rows \ raced => key \in {None, rows[u].pub})
  BY <1>2, <1>3, RecoveredKey DEF Opt
<1>5. PICK set : set = tokens[u] \cup {key}
  OBVIOUS
<1>6. set \in SUBSET Opt(UserKeys) /\ (u \in DOMAIN rows \ raced => set \subseteq {None, rows[u].pub})
  BY <1>4, <1>5 DEF IInv, TypeOK, StoredKeys
<1> QED
  BY <1>1, <1>2, <1>3, <1>5, <1>6, TokensSafe DEF SendReset

LEMMA ExpireTokenSafe == ASSUME IInv, NEW u \in Users, ExpireToken(u) PROVE IInv'
<1>1. PICK c \in tokens[u] : tokens' = [tokens EXCEPT ![u] = @ \ {c}]
  BY DEF ExpireToken
<1>2. PICK set : set = tokens[u] \ {c}
  OBVIOUS
<1>3. /\ set \in SUBSET Opt(UserKeys) /\ ops' \in 0..MaxOps
      /\ u \notin DOMAIN rows => set = {}
      /\ u \in DOMAIN rows \ raced => set \subseteq {None, rows[u].pub}
  BY <1>2 DEF IInv, TypeOK, NothingOfAbsent, StoredKeys, ExpireToken
<1> QED
  BY <1>1, <1>2, <1>3, TokensSafe DEF ExpireToken

\* A worker done: what the others read is still so.
LEMMA Ended ==
    ASSUME NEW w \in Workers, End(w), TypeOK
    PROVE  /\ busy' \in [Workers -> Opt(Tx)]
           /\ \A v \in Workers : busy'[v] \in {None, busy[v]}
           /\ \A v \in Workers : busy'[v] # None => Fits(busy'[v])
  BY DEF End, TypeOK, Opt

LEMMA AbortSafe == ASSUME IInv, NEW w \in Workers, Abort(w) PROVE IInv'
<1> USE DEF IInv, Abort
<1>1. TypeOK'
  BY Ended DEF TypeOK
<1>2. NothingOfAbsent' /\ OnlyEncrypted' /\ ReadKeys' /\ FirstKeys'
  BY Ended DEF NothingOfAbsent, OnlyEncrypted, Running, ReadKeys, FirstKeys, FirstChange
<1>3. StoredKeys' /\ SessionKeys' /\ EscrowRecovers' /\ NothingInEscrow'
  BY DEF StoredKeys, SessionKeys, EscrowRecovers, NothingInEscrow
<1> QED
  BY <1>1, <1>2, <1>3

-----------------------------------------------------------------------------
(* Transactions begin: they read, and write nothing *)

LEMMA BegunSafe ==
    ASSUME IInv, NEW w \in Workers, NEW b \in Tx, Fits(b),
           busy' = [busy EXCEPT ![w] = b],
           b.on \in DOMAIN rows, b.had = (rows[b.on].pub # None),
           b.on \notin raced => StillSo(b, rows[b.on].pub),
           b.op = "change" => b.s = sess[b.on] /\ sess[b.on] # None,
           b.op = "enable" => /\ b.at \in DOMAIN enc /\ enc[b.at]
                              /\ Home[b.on] \in {Root, b.at},
           ops < MaxOps, ops' = ops + 1, UNCHANGED <<rows, enc, pubE, prvE, sess, tokens, raced>>
    PROVE  IInv'
<1> USE DEF IInv
<1>1. ops' \in 0..MaxOps
  BY OneMore
<1>2. busy' \in [Workers -> Opt(Tx)] /\ busy'[w] = b /\ \A v \in Workers \ {w} : busy'[v] = busy[v]
  BY DEF TypeOK, Opt
<1>3. TypeOK'
  BY <1>1, <1>2 DEF TypeOK
<1>4. NothingOfAbsent'
  BY <1>2 DEF NothingOfAbsent
<1>5. OnlyEncrypted'
  BY <1>2 DEF OnlyEncrypted, Running
<1>6. ReadKeys'
  BY <1>2 DEF ReadKeys
<1>7. FirstKeys'
  <2> SUFFICES ASSUME NEW v \in Workers, FirstChange(busy'[v]), busy'[v].s.cc # None,
                      busy'[v].on \in DOMAIN rows \ raced
               PROVE  LET u == busy'[v].on
                          cc == busy'[v].s.cc
                      IN  /\ rows[u].pub \in {None, cc}
                          /\ sess[u] # None => sess[u].cc \in {None, cc}
                          /\ \A x \in Workers : FirstChange(busy'[x]) /\ busy'[x].on = u
                                => busy'[x].s.cc \in {None, cc}
    BY DEF FirstKeys
  <2>1. CASE v = w
    <3>1. b.op = "change" /\ ~b.had /\ b.s = sess[b.on] /\ rows[b.on].pub = None
      BY <1>2, <2>1 DEF FirstChange
    <3>2. ASSUME NEW x \in Workers, FirstChange(busy'[x]), busy'[x].on = b.on, x # w
          PROVE  busy'[x].s.cc \in {None, b.s.cc}
      BY <1>2, <2>1, <3>1, <3>2 DEF FirstKeys
    <3> QED
      BY <1>2, <2>1, <3>1, <3>2
  <2>2. CASE v # w
    <3>1. /\ rows[busy[v].on].pub \in {None, busy[v].s.cc}
          /\ sess[busy[v].on] # None => sess[busy[v].on].cc \in {None, busy[v].s.cc}
          /\ \A x \in Workers : FirstChange(busy[x]) /\ busy[x].on = busy[v].on
                => busy[x].s.cc \in {None, busy[v].s.cc}
      BY <1>2, <2>2 DEF FirstKeys
    <3> QED
      BY <1>2, <2>2, <3>1 DEF FirstChange
  <2> QED
    BY <2>1, <2>2
<1>8. StoredKeys' /\ SessionKeys' /\ EscrowRecovers' /\ NothingInEscrow'
  BY DEF StoredKeys, SessionKeys, EscrowRecovers, NothingInEscrow
<1> QED
  BY <1>3, <1>4, <1>5, <1>6, <1>7, <1>8

\* What a transaction is begun with.
With == [pw : Opt(Passwords), key : Opt(UserKeys \cup EscrowKeys), reset : SUBSET Opt(UserKeys),
         at : Sites, s : Session]

LEMMA BeginSafe ==
    ASSUME IInv, NEW w \in Workers, NEW op \in Ops, NEW o \in Users, NEW u \in DOMAIN rows,
           NEW with \in With, Begin(w, op, o, u, with),
           with.key \in IF op = "share" THEN Opt(EscrowKeys) ELSE Opt(UserKeys),
           op \in {"change", "set"} => with.pw \in Passwords,
           op \in {"login", "set"} /\ u \notin raced => with.key \in {None, rows[u].pub},
           op \in {"change", "enable"} => with.s = sess[u] /\ sess[u] # None,
           op = "enable" => /\ with.at \in DOMAIN enc /\ enc[with.at]
                            /\ Home[u] \in {Root, with.at}
    PROVE  IInv'
<1>1. rows[u] \in Row /\ u \in Users
  BY DEF IInv, TypeOK
<1>2. PICK b : b = [op |-> op, by |-> o, on |-> u, s |-> with.s, had |-> rows[u].pub # None,
                    needed |-> rows[u].needed, ek |-> rows[u].esc # None,
                    pw |-> with.pw, key |-> with.key, reset |-> with.reset, at |-> with.at]
  OBVIOUS
<1>3. b \in Tx
  BY <1>1, <1>2 DEF Tx, Row, With
<1>4. busy' = [busy EXCEPT ![w] = b] /\ b.on = u /\ b.had = (rows[u].pub # None)
  BY <1>2 DEF Begin
<1>5. Fits(b)
  BY <1>2 DEF Fits
<1>6. b.had /\ u \notin raced /\ sess[u] # None => sess[u].cc \in {None, rows[u].pub}
  BY <1>4 DEF IInv, SessionKeys
<1>7. u \notin raced => StillSo(b, rows[u].pub)
  BY <1>2, <1>4, <1>6 DEF StillSo
<1>8. /\ b.op = "change" => b.s = sess[u] /\ sess[u] # None
      /\ b.op = "enable" => /\ b.at \in DOMAIN enc /\ enc[b.at]
                            /\ Home[u] \in {Root, b.at}
  BY <1>2
<1>9. ops < MaxOps /\ ops' = ops + 1 /\ UNCHANGED <<rows, enc, pubE, prvE, sess, tokens, raced>>
  BY DEF Begin
<1> QED
  BY <1>3, <1>4, <1>5, <1>7, <1>8, <1>9, BegunSafe

\* What one starts with, of the own row and session.
LEMMA Own ==
    ASSUME IInv, NEW u \in DOMAIN rows
    PROVE  /\ u \in Users /\ rows[u] \in Row
           /\ u \notin raced => Stored(rows[u], Home[u]) /\ tokens[u] \subseteq {None, rows[u].pub}
           /\ sess[u] # None => sess[u] \in Session
  BY DEF IInv, TypeOK, StoredKeys, Opt

LEMMA NothingFits == Nothing \in With
  BY HomeIsSite DEF Nothing, NoSession, Session, With, Opt

LEMMA LoginBeginSafe == ASSUME IInv, NEW w \in Workers, NEW u \in Users, LoginBegin(w, u) PROVE IInv'
<1>1. u \in DOMAIN rows
  BY DEF LoginBegin
<1>2. PICK key : key = IF rows[u].prv = None THEN None ELSE rows[u].prv.key
  OBVIOUS
<1>3. key \in Opt(UserKeys) /\ (u \notin raced => key \in {None, rows[u].pub})
  BY <1>1, <1>2, Own DEF Row, Stored, Holds, Opt, Sealed
<1>4. PICK with : with = [Nothing EXCEPT !.key = key]
  OBVIOUS
<1>5. with \in With /\ with.key = key
  BY <1>3, <1>4, NothingFits DEF With, Opt
<1>6. Begin(w, "login", u, u, with)
  BY <1>2, <1>4 DEF LoginBegin
<1> QED
  BY <1>1, <1>3, <1>5, <1>6, BeginSafe DEF Ops

LEMMA ResetBeginSafe ==
    ASSUME IInv, NEW w \in Workers, NEW u \in Users, NEW c \in Opt(UserKeys), ResetBegin(w, u, c)
    PROVE  IInv'
<1>1. u \in DOMAIN rows /\ c \in tokens[u]
  BY DEF ResetBegin
<1>2. PICK key : key = IF rows[u].prv = None THEN None ELSE IF c # None THEN c ELSE rows[u].rec
  OBVIOUS
<1>3. key \in Opt(UserKeys) /\ (u \notin raced => key \in {None, rows[u].pub})
  BY <1>1, <1>2, Own DEF Row, Stored, Opt
<1>4. PICK with : with = [Nothing EXCEPT !.reset = {c}, !.key = key]
  OBVIOUS
<1>5. with \in With /\ with.key = key
  BY <1>3, <1>4, NothingFits DEF With, Opt
<1>6. Begin(w, "login", u, u, with)
  BY <1>2, <1>4 DEF ResetBegin
<1> QED
  BY <1>1, <1>3, <1>5, <1>6, BeginSafe DEF Ops

LEMMA ChangeBeginSafe ==
    ASSUME IInv, NEW w \in Workers, NEW u \in Users, NEW p \in Passwords, ChangeBegin(w, u, p)
    PROVE  IInv'
<1>1. u \in DOMAIN rows /\ sess[u] # None /\ sess[u] \in Session
  BY Own DEF ChangeBegin
<1>2. PICK with : with = [Nothing EXCEPT !.pw = p, !.s = sess[u]]
  OBVIOUS
<1>3. with \in With /\ with.pw = p /\ with.s = sess[u] /\ with.key = None
  BY <1>1, <1>2, NothingFits DEF With, Nothing, Opt
<1>4. Begin(w, "change", u, u, with)
  BY <1>2 DEF ChangeBegin
<1> QED
  BY <1>1, <1>3, <1>4, BeginSafe DEF Ops, Opt

LEMMA SetBeginSafe ==
    ASSUME IInv, NEW w \in Workers, NEW o \in Users, NEW u \in Users, NEW p \in Passwords,
           SetBegin(w, o, u, p)
    PROVE  IInv'
<1>1. u \in DOMAIN rows /\ Home[o] \in {Root, Home[u]}
  BY Operator DEF SetBegin
<1>2. PICK key : key = Recovered(rows[u], o, rows[o].esc)
  OBVIOUS
<1>3. key \in Opt(UserKeys) /\ (u \notin raced => key \in {None, rows[u].pub})
  BY <1>1, <1>2, RecoveredKey
<1>4. PICK with : with = [Nothing EXCEPT !.pw = p, !.key = key]
  OBVIOUS
<1>5. with \in With /\ with.key = key /\ with.pw = p
  BY <1>3, <1>4, NothingFits DEF With, Opt
<1>6. Begin(w, "set", o, u, with)
  BY <1>2, <1>4 DEF SetBegin
<1> QED
  BY <1>1, <1>3, <1>5, <1>6, BeginSafe DEF Ops

LEMMA ToggleBeginSafe ==
    ASSUME IInv, NEW w \in Workers, NEW o \in Users, NEW t \in Sites, ToggleBegin(w, o, t)
    PROVE  IInv'
<1>1. /\ o \in DOMAIN rows /\ sess[o] # None /\ sess[o] \in Session /\ Home[o] \in {Root, t}
      /\ t \in DOMAIN enc /\ enc[t]
  BY Operator DEF ToggleBegin, Operates
<1>2. PICK with : with = [Nothing EXCEPT !.at = t, !.s = sess[o]]
  OBVIOUS
<1>3. with \in With /\ with.at = t /\ with.s = sess[o] /\ with.key = None
  BY <1>1, <1>2, NothingFits DEF With, Nothing
<1>4. PICK op \in {"enable", "disable"} : Begin(w, op, o, o, with)
  BY <1>2 DEF ToggleBegin
<1> QED
  BY <1>1, <1>3, <1>4, BeginSafe DEF Ops, Opt

LEMMA SharedKey ==
    ASSUME IInv, NEW o \in DOMAIN rows, NEW u \in DOMAIN rows
    PROVE  Shared(o, u) \in Opt(EscrowKeys)
<1>1. rows[o] \in Row /\ rows[u] \in Row /\ Home[u] \in Sites
  BY HomeIsSite DEF IInv, TypeOK
<1>2. prvE[Home[u]] \in Opt(Sealed(EscrowKeys, EscrowKeys))
  BY <1>1 DEF IInv, TypeOK
<1> QED
  BY <1>1, <1>2 DEF Shared, Row, Opt, Sealed

LEMMA ShareBeginSafe ==
    ASSUME IInv, NEW w \in Workers, NEW o \in Users, NEW u \in Users, ShareBegin(w, o, u)
    PROVE  IInv'
<1>1. u \in DOMAIN rows /\ o \in DOMAIN rows
  BY Operator DEF ShareBegin
<1>2. PICK key : key = Shared(o, u)
  OBVIOUS
<1>3. key \in Opt(EscrowKeys)
  BY <1>1, <1>2, SharedKey
<1>4. PICK with : with = [Nothing EXCEPT !.key = key]
  OBVIOUS
<1>5. with \in With /\ with.key = key
  BY <1>3, <1>4, NothingFits DEF With, Opt
<1>6. Begin(w, "share", o, u, with)
  BY <1>2, <1>4 DEF ShareBegin
<1> QED
  BY <1>1, <1>3, <1>5, <1>6, BeginSafe DEF Ops

-----------------------------------------------------------------------------
(* Transactions end: they write *)

\* What a transaction whose user is there finds.
LEMMA Doing ==
    ASSUME IInv, NEW w \in Workers, NEW b, b = busy[w], b # None, b.op # "disable"
    PROVE  /\ b \in Tx /\ Fits(b) /\ b.on \in Users /\ b.on \in DOMAIN rows /\ rows[b.on] \in Row
           /\ Home[b.on] \in Sites /\ Home[b.on] \in DOMAIN enc
           /\ b.on \notin raced => StillSo(b, rows[b.on].pub) /\ Stored(rows[b.on], Home[b.on])
<1>1. b \in Tx /\ Fits(b) /\ b.on \in Users
  BY DEF IInv, TypeOK, Opt, Tx
<1>2. b.on \in DOMAIN rows
  BY <1>1 DEF IInv, NothingOfAbsent
<1> QED
  BY <1>1, <1>2, HomeIsSite DEF IInv, TypeOK, OnlyEncrypted, ReadKeys, StoredKeys

LEMMA LoginEndSafe == ASSUME IInv, NEW w \in Workers, LoginEnd(w) PROVE IInv'
<1>1. PICK b : b = busy[w]
  OBVIOUS
<1>2. PICK u : u = b.on
  OBVIOUS
<1>3. b # None /\ b.op = "login"
  BY <1>1 DEF LoginEnd, Running
<1>4. /\ b \in Tx /\ Fits(b) /\ u \in Users /\ u \in DOMAIN rows /\ rows[u] \in Row
      /\ u \notin raced => StillSo(b, rows[u].pub) /\ Stored(rows[u], Home[u])
  BY <1>1, <1>2, <1>3, Doing
<1>5. PICK new \in BOOLEAN : new = (b.key = None /\ (b.reset # {} \/ enc[Home[u]]))
  OBVIOUS
<1>6. PICK k : /\ IF new THEN k \in UserKeys ELSE k = b.key
               /\ sess' = [sess EXCEPT ![u] = [cc |-> k, ek |-> b.ek, reset |-> b.reset]]
               /\ rows' = [rows EXCEPT ![u].needed = @ \/ new \/ b.reset # {}]
               /\ raced' = IF new /\ Meets(u) THEN raced \cup {u} ELSE raced
  BY <1>1, <1>2, <1>5 DEF LoginEnd
<1>7. End(w) /\ UNCHANGED <<enc, pubE, prvE, tokens, ops>>
  BY DEF LoginEnd
<1>8. k \in Opt(UserKeys)
  BY <1>3, <1>4, <1>6 DEF Fits, Opt
<1>9. /\ rows' \in [DOMAIN rows -> Row] /\ DOMAIN rows' = DOMAIN rows
      /\ \A x \in DOMAIN rows :
            /\ rows'[x].pub = rows[x].pub /\ rows'[x].prv = rows[x].prv /\ rows'[x].pw = rows[x].pw
            /\ rows'[x].rec = rows[x].rec /\ rows'[x].bkp1 = rows[x].bkp1
            /\ rows'[x].bkp2 = rows[x].bkp2 /\ (rows[x].needed => rows'[x].needed)
  <2>1. PICK needed \in BOOLEAN : needed = (rows[u].needed \/ new \/ b.reset # {})
    OBVIOUS
  <2>2. rows' = [rows EXCEPT ![u] = [rows[u] EXCEPT !.needed = needed]]
    BY <1>6, <2>1
  <2>3. [rows[u] EXCEPT !.needed = needed] \in Row
    BY <1>4 DEF Row
  <2> QED
    BY <1>4, <2>1, <2>2, <2>3 DEF IInv, TypeOK, Row
<1>10. /\ sess' \in [Users -> Opt(Session)] /\ sess'[u].cc = k
       /\ \A x \in Users \ {u} : sess'[x] = sess[x]
  <2>1. [cc |-> k, ek |-> b.ek, reset |-> b.reset] \in Session
    BY <1>4, <1>8 DEF Tx, Session
  <2> QED
    BY <1>4, <1>6, <2>1 DEF IInv, TypeOK, Opt
<1>11. /\ raced \subseteq raced' /\ raced' \subseteq raced \cup {u}
       /\ new /\ u \notin raced' => ~Meets(u)
  BY <1>6
<1>12. u \notin raced' => (k \in {None, rows[u].pub} \/ (new /\ ~Meets(u)))
  BY <1>3, <1>4, <1>6, <1>11 DEF StillSo
<1>13. TypeOK'
  BY <1>4, <1>7, <1>9, <1>10, <1>11, Ended DEF IInv, TypeOK
<1>14. NothingOfAbsent'
  BY <1>4, <1>7, <1>9, <1>10, <1>11, Ended DEF IInv, NothingOfAbsent
<1>15. OnlyEncrypted'
  BY <1>7, <1>9, Ended DEF IInv, OnlyEncrypted, Running
<1>16. StoredKeys'
  BY <1>7, <1>9, <1>11 DEF IInv, StoredKeys, Stored, Holds
<1>17. SessionKeys'
  BY <1>9, <1>10, <1>11, <1>12 DEF IInv, TypeOK, SessionKeys, Meets
<1>18. ReadKeys'
  BY <1>7, <1>9, <1>11, Ended DEF IInv, ReadKeys
<1>19. FirstKeys'
  <2> SUFFICES ASSUME NEW v \in Workers, FirstChange(busy'[v]), busy'[v].s.cc # None,
                      busy'[v].on \in DOMAIN rows \ raced'
               PROVE  LET x == busy'[v].on
                          cc == busy'[v].s.cc
                      IN  /\ rows'[x].pub \in {None, cc}
                          /\ sess'[x] # None => sess'[x].cc \in {None, cc}
                          /\ \A y \in Workers : FirstChange(busy'[y]) /\ busy'[y].on = x
                                => busy'[y].s.cc \in {None, cc}
    BY <1>9 DEF FirstKeys
  <2>1. busy'[v] = busy[v] /\ \A y \in Workers : busy'[y] # None => busy'[y] = busy[y]
    BY <1>7, Ended DEF FirstChange, IInv
  <2>2. LET x == busy[v].on
            cc == busy[v].s.cc
        IN  /\ rows[x].pub \in {None, cc}
            /\ sess[x] # None => sess[x].cc \in {None, cc}
            /\ \A y \in Workers : FirstChange(busy[y]) /\ busy[y].on = x
                   => busy[y].s.cc \in {None, cc}
    BY <1>11, <2>1 DEF IInv, FirstKeys
  <2>3. CASE busy[v].on = u
    <3>1. Meets(u)
      BY <2>1, <2>3 DEF Meets, Running, FirstChange
    <3>2. k \in {None, rows[u].pub}
      BY <1>12, <2>1, <2>3, <3>1
    <3> QED
      BY <1>9, <1>10, <2>1, <2>2, <2>3, <3>2 DEF FirstChange
  <2>4. CASE busy[v].on # u
    <3>1. busy[v].on \in Users
      BY <2>1 DEF IInv, TypeOK
    <3> QED
      BY <1>9, <1>10, <2>1, <2>2, <2>4, <3>1 DEF FirstChange
  <2> QED
    BY <2>3, <2>4
<1>20. EscrowRecovers' /\ NothingInEscrow'
  BY <1>7, <1>9, <1>11 DEF IInv, EscrowRecovers, NothingInEscrow
<1> QED
  BY <1>13, <1>14, <1>15, <1>16, <1>17, <1>18, <1>19, <1>20 DEF IInv

\* The row a change of password leaves: with the key it had, or the first one.
LEMMA ChangedRowSound ==
    ASSUME IInv, NEW w \in Workers, NEW b, b = busy[w], b # None, b.op = "change",
           NEW u, u = b.on, enc[Home[u]] => b.s.cc # None,
           NEW row, row = ChangedRow(b, rows[u])
    PROVE  /\ row \in Row
           /\ row.pub # None => rows[u].pub # None \/ enc[Home[u]]
           /\ u \notin raced =>
                /\ Stored(row, Home[u]) /\ row.pub \in {rows[u].pub, b.s.cc}
                /\ rows[u].pub # None => row.pub = rows[u].pub
                /\ enc[Home[u]] => row.pub = b.s.cc
                /\ row.pub # None => enc[Home[u]]
           /\ pubE[Root] = None => row.bkp1 = None
           /\ Home[u] # Root /\ pubE[Home[u]] = None => row.bkp2 = None
           /\ enc[Home[u]] /\ pubE[Root] # None => row.bkp1 = Seal(pubE[Root], b.s.cc)
           /\ enc[Home[u]] /\ Home[u] # Root /\ pubE[Home[u]] # None
                 => row.bkp2 = Seal(pubE[Home[u]], b.s.cc)
<1>1. /\ b \in Tx /\ b.pw \in Passwords /\ u \in Users /\ u \in DOMAIN rows /\ rows[u] \in Row
      /\ u \notin raced => StillSo(b, rows[u].pub) /\ Stored(rows[u], Home[u])
      /\ Home[u] \in Sites /\ Home[u] \in DOMAIN enc
  BY Doing DEF Fits
<1>2. PICK c : c = b.s.cc
  OBVIOUS
<1>3. c \in Opt(UserKeys) /\ (u \notin raced => c = None \/ rows[u].pub \in {None, c})
  <2>1. c \in Opt(UserKeys)
    BY <1>1, <1>2 DEF Tx, Session
  <2>2. ~b.had /\ c # None /\ u \notin raced => rows[u].pub \in {None, c}
    BY <1>1, <1>2 DEF IInv, FirstKeys, FirstChange
  <2>3. b.had /\ c # None /\ u \notin raced => rows[u].pub \in {None, c}
    BY <1>1, <1>2 DEF StillSo
  <2> QED
    BY <2>1, <2>2, <2>3
<1>4. /\ rows[u].pub # None => enc[Home[u]]
      /\ pubE[Root] = None => rows[u].bkp1 = None
      /\ Home[u] # Root /\ pubE[Home[u]] = None => rows[u].bkp2 = None
      /\ pubE[Root] \in Opt(EscrowKeys) /\ pubE[Home[u]] \in Opt(EscrowKeys)
  BY <1>1, HomeIsSite DEF IInv, TypeOK, OnlyEncrypted, NothingInEscrow
<1>5. PICK settled \in BOOLEAN : settled = IF b.needed THEN FALSE ELSE rows[u].needed
  BY <1>1 DEF Row
<1>6. CASE ~enc[Home[u]]
  <2>1. row = [rows[u] EXCEPT !.pw = b.pw, !.needed = settled] /\ rows[u].pub = None
    BY <1>1, <1>4, <1>5, <1>6 DEF ChangedRow
  <2>2. row \in Row
    BY <1>1, <2>1 DEF Row
  <2>3. u \notin raced => Stored(row, Home[u])
    BY <1>1, <2>1 DEF Stored, Holds, Row
  <2> QED
    BY <1>1, <1>4, <1>6, <2>1, <2>2, <2>3 DEF Row
<1>7. CASE enc[Home[u]]
  <2>1. c \in UserKeys /\ c # None
    BY <1>2, <1>3, <1>7, AccountsAssumption DEF Opt
  <2>2. PICK prv, bkp1, bkp2 :
          /\ prv = [to |-> b.pw, key |-> c]
          /\ bkp1 = IF pubE[Root] = None THEN rows[u].bkp1 ELSE Seal(pubE[Root], c)
          /\ bkp2 = IF Home[u] = Root \/ pubE[Home[u]] = None THEN rows[u].bkp2
                    ELSE Seal(pubE[Home[u]], c)
    OBVIOUS
  <2>3. PICK pub, rec : /\ pub = IF b.had THEN rows[u].pub ELSE c
                        /\ rec = IF b.had THEN rows[u].rec ELSE c
    OBVIOUS
  <2>4. row = [rows[u] EXCEPT !.pw = b.pw, !.needed = settled, !.pub = pub, !.rec = rec,
                              !.prv = prv, !.bkp1 = bkp1, !.bkp2 = bkp2]
    BY <1>1, <1>2, <1>5, <1>7, <2>2, <2>3 DEF ChangedRow
  <2>5. /\ prv \in Opt(Sealed(Passwords, UserKeys)) /\ bkp1 \in Opt(Sealed(EscrowKeys, UserKeys))
        /\ bkp2 \in Opt(Sealed(EscrowKeys, UserKeys)) /\ pub \in Opt(UserKeys) /\ rec \in Opt(UserKeys)
    BY <1>1, <1>4, <2>1, <2>2, <2>3 DEF Row, Opt, Sealed, Seal
  <2>6. row \in Row /\ row.pw = b.pw /\ row.pub = pub /\ row.rec = rec /\ row.prv = prv
        /\ row.bkp1 = bkp1 /\ row.bkp2 = bkp2
    <3>1. rows[u] \in Row /\ b.pw \in Passwords /\ settled \in BOOLEAN
      BY <1>1, <1>5
    <3>2. rows[u].esc \in Opt(EscrowKeys)
      BY <3>1 DEF Row
    <3>3. row = [pw |-> b.pw, needed |-> settled, pub |-> pub, prv |-> prv, rec |-> rec,
                 bkp1 |-> bkp1, bkp2 |-> bkp2, esc |-> rows[u].esc]
      BY <2>4, <3>1 DEF Row
    <3>4. QED BY <2>5, <3>1, <3>2, <3>3 DEF Row
  <2>7. u \notin raced => /\ pub = c /\ rec = c /\ rows[u].pub \in {None, c}
                          /\ (rows[u].bkp1 # None => rows[u].bkp1.key = c)
                          /\ (Home[u] # Root /\ rows[u].bkp2 # None => rows[u].bkp2.key = c)
    BY <1>1, <1>3, <2>1, <2>3 DEF StillSo, Stored, Holds
  <2>8. u \notin raced => Stored(row, Home[u])
    <3>1. u \notin raced => Holds(row.prv, row) /\ row.prv.to = row.pw
      BY <2>1, <2>2, <2>6, <2>7 DEF Holds
    <3>2. u \notin raced => Holds(row.bkp1, row)
      BY <2>1, <2>2, <2>6, <2>7 DEF Holds, Seal
    <3>3. u \notin raced => (Home[u] # Root => Holds(row.bkp2, row))
      BY <2>1, <2>2, <2>6, <2>7 DEF Holds, Seal
    <3> QED
      BY <2>6, <2>7, <3>1, <3>2, <3>3 DEF Stored
  <2>9. /\ pubE[Root] = None => row.bkp1 = None
        /\ Home[u] # Root /\ pubE[Home[u]] = None => row.bkp2 = None
        /\ pubE[Root] # None => row.bkp1 = Seal(pubE[Root], c)
        /\ Home[u] # Root /\ pubE[Home[u]] # None => row.bkp2 = Seal(pubE[Home[u]], c)
    BY <1>4, <2>2, <2>6
  <2> QED
    BY <1>2, <1>7, <2>1, <2>6, <2>7, <2>8, <2>9
<1> QED
  BY <1>6, <1>7

LEMMA ChangeEndSafe == ASSUME IInv, NEW w \in Workers, ChangeEnd(w) PROVE IInv'
<1>1. PICK b : b = busy[w]
  OBVIOUS
<1>2. PICK u : u = b.on
  OBVIOUS
<1>3. b # None /\ b.op = "change" /\ (enc[Home[u]] => b.s.cc # None)
  BY <1>1, <1>2 DEF ChangeEnd, Running
<1>4. /\ b \in Tx /\ u \in Users /\ u \in DOMAIN rows /\ Home[u] \in DOMAIN enc
      /\ u \notin raced => StillSo(b, rows[u].pub)
  BY <1>1, <1>2, <1>3, Doing
<1>5. PICK row : row = ChangedRow(b, rows[u])
  OBVIOUS
<1>6. PICK gone : tokens' = [tokens EXCEPT ![u] = @ \ gone]
  BY <1>1, <1>2 DEF ChangeEnd
<1>7. /\ rows' = [rows EXCEPT ![u] = row]
      /\ sess' = IF sess[u] = b.s THEN [sess EXCEPT ![u].reset = {}] ELSE sess
      /\ End(w) /\ UNCHANGED <<enc, pubE, prvE, ops, raced>>
  BY <1>1, <1>2, <1>5 DEF ChangeEnd
<1>8. /\ row \in Row /\ (row.pub # None => rows[u].pub # None \/ enc[Home[u]])
      /\ u \notin raced =>
           /\ Stored(row, Home[u]) /\ row.pub \in {rows[u].pub, b.s.cc}
           /\ rows[u].pub # None => row.pub = rows[u].pub
           /\ enc[Home[u]] => row.pub = b.s.cc
           /\ row.pub # None => enc[Home[u]]
      /\ pubE[Root] = None => row.bkp1 = None
      /\ Home[u] # Root /\ pubE[Home[u]] = None => row.bkp2 = None
      /\ enc[Home[u]] /\ pubE[Root] # None => row.bkp1 = Seal(pubE[Root], b.s.cc)
      /\ enc[Home[u]] /\ Home[u] # Root /\ pubE[Home[u]] # None
            => row.bkp2 = Seal(pubE[Home[u]], b.s.cc)
  BY <1>1, <1>2, <1>3, <1>5, ChangedRowSound
<1>9. /\ rows' \in [DOMAIN rows -> Row] /\ DOMAIN rows' = DOMAIN rows
      /\ rows'[u] = row /\ \A x \in DOMAIN rows \ {u} : rows'[x] = rows[x]
  BY <1>4, <1>7, <1>8 DEF IInv, TypeOK
<1>10. /\ sess' \in [Users -> Opt(Session)]
       /\ \A x \in Users : /\ sess[x] = None => sess'[x] = None
                           /\ sess'[x] # None => sess[x] # None /\ sess'[x].cc = sess[x].cc
  <2>1. CASE sess[u] = b.s
    <3>1. sess[u] \in Session
      BY <1>4, <2>1 DEF Tx
    <3>2. [sess[u] EXCEPT !.reset = {}] \in Session /\ [sess[u] EXCEPT !.reset = {}].cc = sess[u].cc
      BY <3>1 DEF Session
    <3>3. sess[u] # None
      BY <3>1, AccountsAssumption
    <3> QED
      BY <1>4, <1>7, <2>1, <3>2, <3>3 DEF IInv, TypeOK, Opt
  <2>2. CASE sess[u] # b.s
    BY <1>7, <2>2 DEF IInv, TypeOK
  <2> QED
    BY <2>1, <2>2
<1>11. /\ tokens' \in [Users -> SUBSET Opt(UserKeys)]
       /\ \A x \in Users : tokens'[x] \subseteq tokens[x]
  BY <1>4, <1>6 DEF IInv, TypeOK
<1>12. TypeOK'
  BY <1>4, <1>7, <1>9, <1>10, <1>11, Ended DEF IInv, TypeOK
<1>13. NothingOfAbsent'
  BY <1>4, <1>7, <1>9, <1>10, <1>11, Ended DEF IInv, NothingOfAbsent
<1>14. OnlyEncrypted'
  BY <1>4, <1>7, <1>8, <1>9, Ended DEF IInv, OnlyEncrypted, Running
<1>15. StoredKeys'
  BY <1>4, <1>7, <1>8, <1>9, <1>11 DEF IInv, TypeOK, StoredKeys
<1>16. SessionKeys'
  <2> SUFFICES ASSUME NEW x \in DOMAIN rows \ raced, sess'[x] # None, rows'[x].pub # None
               PROVE  sess'[x].cc \in {None, rows'[x].pub}
    BY <1>7, <1>9 DEF SessionKeys
  <2>1. x \in Users /\ sess[x] # None /\ sess'[x].cc = sess[x].cc
    BY <1>10 DEF IInv, TypeOK
  <2>2. CASE x = u
    <3>1. CASE rows[u].pub # None
      BY <1>8, <1>9, <2>1, <2>2, <3>1 DEF IInv, SessionKeys
    <3>2. CASE rows[u].pub = None
      <4>1. rows'[u].pub = b.s.cc /\ b.s.cc # None /\ ~b.had
        BY <1>3, <1>4, <1>8, <1>9, <2>2, <3>2 DEF StillSo
      <4>2. sess[u].cc \in {None, b.s.cc}
        BY <1>1, <1>2, <1>3, <1>4, <2>1, <2>2, <4>1 DEF IInv, FirstKeys, FirstChange
      <4> QED
        BY <2>1, <2>2, <4>1, <4>2
    <3> QED
      BY <3>1, <3>2
  <2>3. CASE x # u
    BY <1>9, <2>1, <2>3 DEF IInv, SessionKeys
  <2> QED
    BY <2>2, <2>3
<1>17. ReadKeys'
  <2> SUFFICES ASSUME NEW v \in Workers, busy'[v] # None, busy'[v].on \in DOMAIN rows \ raced
               PROVE  StillSo(busy'[v], rows'[busy'[v].on].pub)
    BY <1>7, <1>9 DEF ReadKeys
  <2>1. busy'[v] = busy[v] /\ StillSo(busy[v], rows[busy[v].on].pub)
    BY <1>7, Ended DEF IInv, ReadKeys
  <2>2. CASE busy[v].on = u
    <3>1. rows[u].pub # None => rows'[u].pub = rows[u].pub
      BY <1>8, <1>9, <2>1, <2>2
    <3> QED
      BY <2>1, <2>2, <3>1 DEF StillSo
  <2>3. CASE busy[v].on # u
    BY <1>9, <2>1, <2>3
  <2> QED
    BY <2>2, <2>3
<1>18. FirstKeys'
  <2> SUFFICES ASSUME NEW v \in Workers, FirstChange(busy'[v]), busy'[v].s.cc # None,
                      busy'[v].on \in DOMAIN rows \ raced
               PROVE  LET x == busy'[v].on
                          cc == busy'[v].s.cc
                      IN  /\ rows'[x].pub \in {None, cc}
                          /\ sess'[x] # None => sess'[x].cc \in {None, cc}
                          /\ \A y \in Workers : FirstChange(busy'[y]) /\ busy'[y].on = x
                                => busy'[y].s.cc \in {None, cc}
    BY <1>7, <1>9 DEF FirstKeys
  <2>1. busy'[v] = busy[v] /\ \A y \in Workers : busy'[y] # None => busy'[y] = busy[y]
    BY <1>7, Ended DEF FirstChange, IInv
  <2>2. LET x == busy[v].on
            cc == busy[v].s.cc
        IN  /\ rows[x].pub \in {None, cc}
            /\ sess[x] # None => sess[x].cc \in {None, cc}
            /\ \A y \in Workers : FirstChange(busy[y]) /\ busy[y].on = x
                   => busy[y].s.cc \in {None, cc}
    BY <2>1 DEF IInv, FirstKeys
  <2>3. busy[v].on = u => rows'[u].pub \in {None, busy[v].s.cc}
    <3> SUFFICES ASSUME busy[v].on = u PROVE rows'[u].pub \in {None, busy[v].s.cc}
      OBVIOUS
    <3>1. CASE b.had
      BY <1>3, <1>4, <1>8, <1>9, <2>1, <2>2, <3>1 DEF StillSo
    <3>2. CASE ~b.had
      <4>1. b.s.cc \in {None, busy[v].s.cc}
        BY <1>1, <1>2, <1>3, <2>2, <3>2 DEF FirstChange
      <4> QED
        BY <1>8, <1>9, <2>1, <2>2, <4>1
    <3> QED
      BY <3>1, <3>2
  <2>4. busy[v].on \in Users
    BY <2>1 DEF IInv, TypeOK
  <2>5. rows'[busy[v].on].pub \in {None, busy[v].s.cc}
    BY <1>9, <2>1, <2>2, <2>3
  <2> QED
    BY <1>10, <2>1, <2>2, <2>4, <2>5 DEF FirstChange
<1>19. EscrowRecovers' /\ NothingInEscrow'
  <2>1. u \notin raced /\ row.pub # None =>
          /\ row.pub = b.s.cc
          /\ row.bkp1 = Seal(pubE[Root], row.pub)
          /\ Home[u] # Root => row.bkp2 = Seal(pubE[Home[u]], row.pub)
    BY <1>8 DEF Seal
  <2> QED
    BY <1>4, <1>7, <1>8, <1>9, <2>1 DEF IInv, EscrowRecovers, NothingInEscrow
<1> QED
  BY <1>12, <1>13, <1>14, <1>15, <1>16, <1>17, <1>18, <1>19 DEF IInv

\* Where no key changes, what was read of the keys is still so.
LEMMA KeysKept ==
    ASSUME IInv, DOMAIN rows' = DOMAIN rows, \A x \in DOMAIN rows : rows'[x].pub = rows[x].pub,
           raced \subseteq raced',
           \A x \in Users : sess'[x] # None => sess[x] # None /\ sess'[x].cc = sess[x].cc,
           \A v \in Workers : busy'[v] \in {None, busy[v]}
    PROVE  SessionKeys' /\ ReadKeys' /\ FirstKeys'
<1>1. DOMAIN rows \subseteq Users /\ \A v \in Workers : busy[v] # None => busy[v].on \in Users
  BY DEF IInv, TypeOK, Tx, Opt
<1>2. SessionKeys' /\ ReadKeys'
  BY <1>1 DEF IInv, SessionKeys, ReadKeys
<1>3. FirstKeys'
  BY <1>1 DEF IInv, FirstKeys, FirstChange
<1> QED
  BY <1>2, <1>3

LEMMA SetEndSafe == ASSUME IInv, NEW w \in Workers, SetEnd(w) PROVE IInv'
<1>1. PICK b : b = busy[w]
  OBVIOUS
<1>2. PICK u : u = b.on
  OBVIOUS
<1>3. b # None /\ b.op = "set" /\ (b.had => b.key # None)
  BY <1>1 DEF SetEnd, Running
<1>4. /\ b \in Tx /\ Fits(b) /\ u \in Users /\ u \in DOMAIN rows /\ rows[u] \in Row
      /\ u \notin raced => StillSo(b, rows[u].pub) /\ Stored(rows[u], Home[u])
  BY <1>1, <1>2, <1>3, Doing
<1>5. /\ rows' = [rows EXCEPT ![u] = SetRow(b, @)]
      /\ sess' = [sess EXCEPT ![u] = None]
      /\ raced' = IF ~b.had /\ rows[u].pub # None THEN raced \cup {u} ELSE raced
      /\ End(w) /\ UNCHANGED <<enc, pubE, prvE, tokens, ops>>
  BY <1>1, <1>2 DEF SetEnd
<1>6. PICK prv : prv = IF b.had THEN [to |-> b.pw, key |-> b.key] ELSE rows[u].prv
  OBVIOUS
<1>7. PICK row : row = [rows[u] EXCEPT !.pw = b.pw, !.needed = TRUE, !.prv = prv]
  OBVIOUS
<1>8. row = SetRow(b, rows[u])
  BY <1>4, <1>6, <1>7 DEF SetRow, Row
<1>9. /\ row \in Row /\ row.pub = rows[u].pub /\ row.rec = rows[u].rec /\ row.bkp1 = rows[u].bkp1
      /\ row.bkp2 = rows[u].bkp2 /\ row.needed /\ row.prv = prv /\ row.pw = b.pw
  <2>1. b.pw \in Passwords /\ prv \in Opt(Sealed(Passwords, UserKeys))
    BY <1>3, <1>4, <1>6 DEF Fits, Row, Sealed, Opt
  <2> QED
    BY <1>4, <1>7, <2>1 DEF Row
<1>10. u \notin raced' => Stored(row, Home[u])
  <2>1. u \notin raced' => u \notin raced /\ (b.had \/ rows[u].pub = None)
    BY <1>5
  <2>2. u \notin raced' /\ b.had => prv = [to |-> b.pw, key |-> rows[u].pub] /\ rows[u].pub # None
    BY <1>3, <1>4, <1>6, <2>1 DEF StillSo
  <2>3. u \notin raced' /\ ~b.had => prv = None
    BY <1>4, <1>6, <2>1 DEF Stored, Holds
  <2> QED
    BY <1>4, <1>9, <2>1, <2>2, <2>3 DEF Stored, Holds
<1>11. /\ rows' \in [DOMAIN rows -> Row] /\ DOMAIN rows' = DOMAIN rows
       /\ rows'[u] = row /\ \A x \in DOMAIN rows \ {u} : rows'[x] = rows[x]
  BY <1>4, <1>5, <1>8, <1>9 DEF IInv, TypeOK
<1>12. /\ sess' \in [Users -> Opt(Session)] /\ \A x \in Users : sess'[x] \in {None, sess[x]}
       /\ raced \subseteq raced' /\ raced' \subseteq raced \cup {u}
  BY <1>4, <1>5 DEF IInv, TypeOK, Opt
<1>13. TypeOK'
  BY <1>4, <1>5, <1>11, <1>12, Ended DEF IInv, TypeOK
<1>14. NothingOfAbsent'
  BY <1>4, <1>5, <1>11, <1>12, Ended DEF IInv, NothingOfAbsent
<1>15. OnlyEncrypted'
  BY <1>4, <1>5, <1>9, <1>11, Ended DEF IInv, OnlyEncrypted, Running
<1>16. StoredKeys'
  BY <1>4, <1>5, <1>9, <1>10, <1>11, <1>12 DEF IInv, StoredKeys
<1>17. SessionKeys' /\ ReadKeys' /\ FirstKeys'
  BY <1>5, <1>9, <1>11, <1>12, KeysKept, Ended DEF IInv
<1>18. EscrowRecovers' /\ NothingInEscrow'
  BY <1>4, <1>5, <1>9, <1>11, <1>12 DEF IInv, EscrowRecovers, NothingInEscrow
<1> QED
  BY <1>13, <1>14, <1>15, <1>16, <1>17, <1>18 DEF IInv

LEMMA ShareEndSafe == ASSUME IInv, NEW w \in Workers, ShareEnd(w) PROVE IInv'
<1>1. PICK b : b = busy[w]
  OBVIOUS
<1>2. PICK u : u = b.on
  OBVIOUS
<1>3. b # None /\ b.op = "share"
  BY <1>1 DEF ShareEnd, Running
<1>4. b \in Tx /\ Fits(b) /\ u \in Users /\ u \in DOMAIN rows /\ rows[u] \in Row
  BY <1>1, <1>2, <1>3, Doing
<1>5. PICK esc : esc = IF b.ek THEN None ELSE b.key
  OBVIOUS
<1>6. PICK row : row = [rows[u] EXCEPT !.esc = esc]
  OBVIOUS
<1>7. /\ rows' = [rows EXCEPT ![u] = row]
      /\ End(w) /\ UNCHANGED <<enc, pubE, prvE, sess, tokens, ops, raced>>
  BY <1>1, <1>2, <1>5, <1>6 DEF ShareEnd
<1>8. /\ row \in Row /\ row.pub = rows[u].pub /\ row.rec = rows[u].rec /\ row.bkp1 = rows[u].bkp1
      /\ row.bkp2 = rows[u].bkp2 /\ row.needed = rows[u].needed /\ row.prv = rows[u].prv
      /\ row.pw = rows[u].pw
  <2>1. esc \in Opt(EscrowKeys)
    BY <1>3, <1>4, <1>5 DEF Fits, Opt
  <2> QED
    BY <1>4, <1>6, <2>1 DEF Row
<1>9. /\ rows' \in [DOMAIN rows -> Row] /\ DOMAIN rows' = DOMAIN rows
      /\ rows'[u] = row /\ \A x \in DOMAIN rows \ {u} : rows'[x] = rows[x]
  BY <1>4, <1>7, <1>8 DEF IInv, TypeOK
<1>10. TypeOK'
  BY <1>7, <1>9, Ended DEF IInv, TypeOK
<1>11. NothingOfAbsent'
  BY <1>7, <1>9, Ended DEF IInv, NothingOfAbsent
<1>12. OnlyEncrypted'
  BY <1>4, <1>7, <1>8, <1>9, Ended DEF IInv, OnlyEncrypted, Running
<1>13. StoredKeys'
  BY <1>4, <1>7, <1>8, <1>9 DEF IInv, StoredKeys, Stored, Holds
<1>14. SessionKeys' /\ ReadKeys' /\ FirstKeys'
  BY <1>7, <1>8, <1>9, KeysKept, Ended DEF IInv
<1>15. EscrowRecovers' /\ NothingInEscrow'
  BY <1>4, <1>7, <1>8, <1>9 DEF IInv, EscrowRecovers, NothingInEscrow
<1> QED
  BY <1>10, <1>11, <1>12, <1>13, <1>14, <1>15 DEF IInv

LEMMA DisableEndSafe == ASSUME IInv, NEW w \in Workers, DisableEnd(w) PROVE IInv'
<1>1. PICK t : t = busy[w].at
  OBVIOUS
<1>2. /\ rows' = [u \in DOMAIN rows |-> Cleared(u, t)]
      /\ pubE' = [pubE EXCEPT ![t] = None] /\ prvE' = [prvE EXCEPT ![t] = None]
      /\ End(w) /\ UNCHANGED <<enc, sess, tokens, ops, raced>>
  BY <1>1 DEF DisableEnd
<1>3. t \in Sites
  BY <1>1 DEF DisableEnd, Running, IInv, TypeOK, Opt, Tx
<1>4. ASSUME NEW u \in DOMAIN rows
      PROVE  /\ Cleared(u, t) \in Row /\ Cleared(u, t).pub = rows[u].pub
             /\ Cleared(u, t).rec = rows[u].rec /\ Cleared(u, t).prv = rows[u].prv
             /\ Cleared(u, t).pw = rows[u].pw /\ Cleared(u, t).needed = rows[u].needed
             /\ Cleared(u, t).bkp1 = IF t = Root THEN None ELSE rows[u].bkp1
             /\ Cleared(u, t).bkp2 = IF t # Root /\ Home[u] = t THEN None ELSE rows[u].bkp2
  <2>1. rows[u] \in Row
    BY DEF IInv, TypeOK
  <2>2. PICK bkp1, bkp2, esc : /\ bkp1 = IF t = Root THEN None ELSE rows[u].bkp1
                               /\ bkp2 = IF t # Root /\ Home[u] = t THEN None ELSE rows[u].bkp2
                               /\ esc = IF Home[u] = t THEN None ELSE rows[u].esc
    OBVIOUS
  <2>3. Cleared(u, t) = [rows[u] EXCEPT !.bkp1 = bkp1, !.bkp2 = bkp2, !.esc = esc]
    BY <2>2 DEF Cleared
  <2>4. /\ bkp1 \in Opt(Sealed(EscrowKeys, UserKeys)) /\ bkp2 \in Opt(Sealed(EscrowKeys, UserKeys))
        /\ esc \in Opt(EscrowKeys)
    BY <2>1, <2>2 DEF Row, Opt
  <2> QED
    BY <2>1, <2>2, <2>3, <2>4 DEF Row
<1>5. /\ DOMAIN rows' = DOMAIN rows /\ rows' \in [DOMAIN rows -> Row]
      /\ \A u \in DOMAIN rows : rows'[u] = Cleared(u, t)
  BY <1>2, <1>4
<1>6. /\ pubE' \in [Sites -> Opt(EscrowKeys)] /\ pubE'[t] = None
      /\ \A x \in Sites \ {t} : pubE'[x] = pubE[x]
      /\ prvE' \in [Sites -> Opt(Sealed(EscrowKeys, EscrowKeys))]
  BY <1>2, <1>3 DEF IInv, TypeOK, Opt
<1>7. TypeOK'
  BY <1>2, <1>5, <1>6, Ended DEF IInv, TypeOK
<1>8. NothingOfAbsent'
  BY <1>2, <1>5, Ended DEF IInv, NothingOfAbsent
<1>9. OnlyEncrypted'
  BY <1>2, <1>4, <1>5, <1>6, Ended DEF IInv, OnlyEncrypted, Running
<1>10. StoredKeys'
  BY <1>2, <1>4, <1>5 DEF IInv, StoredKeys, Stored, Holds
<1>11. SessionKeys' /\ ReadKeys' /\ FirstKeys'
  BY <1>2, <1>4, <1>5, KeysKept, Ended DEF IInv
<1>12. \A u \in DOMAIN rows : Home[u] \in Sites
  BY HomeIsSite DEF IInv, TypeOK
<1>13. EscrowRecovers'
  <2> SUFFICES ASSUME NEW u \in DOMAIN rows \ raced, rows'[u].pub # None, ~rows'[u].needed
               PROVE  /\ rows'[u].bkp1 = Seal(pubE'[Root], rows'[u].pub)
                      /\ Home[u] # Root => rows'[u].bkp2 = Seal(pubE'[Home[u]], rows'[u].pub)
    BY <1>2, <1>5 DEF EscrowRecovers
  <2>1. /\ rows[u].pub # None /\ ~rows[u].needed /\ rows'[u].pub = rows[u].pub
        /\ rows'[u].bkp1 = IF t = Root THEN None ELSE rows[u].bkp1
        /\ rows'[u].bkp2 = IF t # Root /\ Home[u] = t THEN None ELSE rows[u].bkp2
    BY <1>4, <1>5
  <2>2. /\ rows[u].bkp1 = Seal(pubE[Root], rows[u].pub)
        /\ Home[u] # Root => rows[u].bkp2 = Seal(pubE[Home[u]], rows[u].pub)
    BY <2>1 DEF IInv, EscrowRecovers
  <2>3. Home[u] \in Sites /\ Root \in Sites
    BY <1>12, HomeIsSite
  <2> QED
    BY <1>6, <2>1, <2>2, <2>3 DEF Seal
<1>14. NothingInEscrow'
  BY <1>2, <1>3, <1>4, <1>5, <1>6, <1>12, HomeIsSite DEF IInv, NothingInEscrow
<1> QED
  BY <1>7, <1>8, <1>9, <1>10, <1>11, <1>13, <1>14 DEF IInv

LEMMA EnableEndSafe == ASSUME IInv, NEW w \in Workers, EnableEnd(w) PROVE IInv'
<1>1. PICK b : b = busy[w]
  OBVIOUS
<1>2. PICK o, t : o = b.on /\ t = b.at
  OBVIOUS
<1>3. b # None /\ b.op = "enable" /\ (Home[o] = t => b.had) /\ b.s.cc # None
  BY <1>1, <1>2 DEF EnableEnd, Running
<1>4. /\ b \in Tx /\ o \in Users /\ o \in DOMAIN rows /\ rows[o] \in Row
      /\ o \notin raced => StillSo(b, rows[o].pub) /\ Stored(rows[o], Home[o])
  BY <1>1, <1>2, <1>3, Doing
<1>5. t \in Sites /\ t \in DOMAIN enc /\ enc[t] /\ Home[o] \in {Root, t}
  BY <1>1, <1>2, <1>3, <1>4 DEF Tx, IInv, OnlyEncrypted, Running
<1>6. PICK e \in EscrowKeys : Enable(b, e)
  BY <1>1 DEF EnableEnd
<1>7. /\ sess' = IF sess[o] = b.s /\ Home[o] = t THEN [sess EXCEPT ![o].ek = TRUE] ELSE sess
      /\ End(w) /\ UNCHANGED <<enc, tokens, ops, raced>>
  BY <1>1, <1>2 DEF EnableEnd
<1>8. PICK c : c = b.s.cc
  OBVIOUS
<1>9. c \in UserKeys /\ (o \notin raced /\ (t = Root \/ Home[o] # Root) => c = rows[o].pub)
  <2>1. c \in UserKeys
    BY <1>3, <1>4, <1>8 DEF Tx, Session, Opt
  <2>2. t = Root \/ Home[o] # Root => b.had
    BY <1>3, <1>5
  <2>3. b.had /\ o \notin raced => b.s.cc \in {None, rows[o].pub}
    BY <1>3, <1>4 DEF StillSo
  <2> QED
    BY <1>3, <1>8, <2>1, <2>2, <2>3
<1>10. PICK esc, bkp1, bkp2 :
         /\ esc = IF Home[o] = t THEN e ELSE rows[o].esc
         /\ bkp1 = IF t = Root THEN Seal(e, c) ELSE rows[o].bkp1
         /\ bkp2 = IF t # Root THEN Seal(e, c) ELSE rows[o].bkp2
  OBVIOUS
<1>11. PICK row : row = [rows[o] EXCEPT !.esc = esc, !.bkp1 = bkp1, !.bkp2 = bkp2]
  OBVIOUS
<1>12. /\ pubE' = [pubE EXCEPT ![t] = e]
       /\ prvE' = IF t = Root \/ pubE[Root] = None THEN prvE
                  ELSE [prvE EXCEPT ![t] = Seal(pubE[Root], e)]
       /\ rows' = [u \in DOMAIN rows |->
            IF u = o THEN row ELSE [rows[u] EXCEPT !.needed = @ \/ u \in Asked(o, t)]]
  BY <1>2, <1>4, <1>6, <1>8, <1>10, <1>11 DEF Enable, Row
<1>13. e # None /\ Seal(e, c) = [to |-> e, key |-> c] /\ Seal(e, c) \in Sealed(EscrowKeys, UserKeys)
  BY <1>9, AccountsAssumption DEF Seal, Sealed
<1>14. /\ row \in Row /\ row.pub = rows[o].pub /\ row.rec = rows[o].rec /\ row.prv = rows[o].prv
       /\ row.pw = rows[o].pw /\ row.needed = rows[o].needed /\ row.bkp1 = bkp1 /\ row.bkp2 = bkp2
  <2>1. /\ esc \in Opt(EscrowKeys) /\ bkp1 \in Opt(Sealed(EscrowKeys, UserKeys))
        /\ bkp2 \in Opt(Sealed(EscrowKeys, UserKeys))
    BY <1>4, <1>10, <1>13 DEF Row, Opt
  <2> QED
    BY <1>4, <1>11, <2>1 DEF Row
<1>15. o \notin raced => Stored(row, Home[o])
  <2>1. o \notin raced => Holds(row.bkp1, row)
    BY <1>4, <1>9, <1>10, <1>13, <1>14, AccountsAssumption DEF Stored, Holds
  <2>2. o \notin raced /\ Home[o] # Root => Holds(row.bkp2, row)
    BY <1>4, <1>9, <1>10, <1>13, <1>14, AccountsAssumption DEF Stored, Holds
  <2> QED
    BY <1>4, <1>14, <2>1, <2>2 DEF Stored, Holds
<1>16. ASSUME NEW u \in DOMAIN rows, u # o
       PROVE  /\ rows'[u] \in Row /\ rows'[u].pub = rows[u].pub /\ rows'[u].rec = rows[u].rec
              /\ rows'[u].prv = rows[u].prv /\ rows'[u].pw = rows[u].pw
              /\ rows'[u].bkp1 = rows[u].bkp1 /\ rows'[u].bkp2 = rows[u].bkp2
              /\ rows'[u].needed = (rows[u].needed \/ t = Root \/ Home[u] = t)
  <2>1. rows[u] \in Row
    BY DEF IInv, TypeOK
  <2>2. PICK asked \in BOOLEAN : asked = (rows[u].needed \/ u \in Asked(o, t))
    OBVIOUS
  <2>3. rows'[u] = [rows[u] EXCEPT !.needed = asked]
    BY <1>12, <1>16, <2>2
  <2>4. asked = (rows[u].needed \/ t = Root \/ Home[u] = t)
    BY <1>16, <2>2 DEF Asked
  <2> QED
    BY <2>1, <2>3, <2>4 DEF Row
<1>17. /\ DOMAIN rows' = DOMAIN rows /\ rows'[o] = row /\ rows' \in [DOMAIN rows -> Row]
  BY <1>4, <1>12, <1>14, <1>16
<1>18. /\ pubE' \in [Sites -> Opt(EscrowKeys)] /\ pubE'[t] = e
       /\ \A x \in Sites \ {t} : pubE'[x] = pubE[x]
  BY <1>5, <1>12 DEF IInv, TypeOK, Opt
<1>19. prvE' \in [Sites -> Opt(Sealed(EscrowKeys, EscrowKeys))]
  <2>1. pubE[Root] # None => Seal(pubE[Root], e) \in Sealed(EscrowKeys, EscrowKeys)
    BY HomeIsSite DEF IInv, TypeOK, Opt, Seal, Sealed
  <2> QED
    BY <1>5, <1>12, <2>1 DEF IInv, TypeOK, Opt
<1>20. /\ sess' \in [Users -> Opt(Session)]
       /\ \A x \in Users : /\ sess[x] = None => sess'[x] = None
                           /\ sess'[x] # None => sess[x] # None /\ sess'[x].cc = sess[x].cc
  <2>1. CASE sess[o] = b.s /\ Home[o] = t
    <3>1. sess[o] \in Session /\ sess[o] # None
      BY <1>4, <2>1, AccountsAssumption DEF Tx
    <3>2. [sess[o] EXCEPT !.ek = TRUE] \in Session /\ [sess[o] EXCEPT !.ek = TRUE].cc = sess[o].cc
      BY <3>1 DEF Session
    <3> QED
      BY <1>4, <1>7, <2>1, <3>1, <3>2 DEF IInv, TypeOK, Opt
  <2>2. CASE ~(sess[o] = b.s /\ Home[o] = t)
    BY <1>7, <2>2 DEF IInv, TypeOK
  <2> QED
    BY <2>1, <2>2
<1>21. TypeOK'
  BY <1>7, <1>17, <1>18, <1>19, <1>20, Ended DEF IInv, TypeOK
<1>22. NothingOfAbsent'
  BY <1>7, <1>17, <1>20, Ended DEF IInv, NothingOfAbsent
<1>23. OnlyEncrypted'
  BY <1>4, <1>5, <1>7, <1>14, <1>16, <1>17, <1>18, Ended DEF IInv, OnlyEncrypted, Running
<1>24. StoredKeys'
  BY <1>4, <1>7, <1>14, <1>15, <1>16, <1>17 DEF IInv, StoredKeys, Stored, Holds
<1>25. SessionKeys' /\ ReadKeys' /\ FirstKeys'
  BY <1>4, <1>7, <1>14, <1>16, <1>17, <1>20, KeysKept, Ended DEF IInv
<1>26. \A u \in DOMAIN rows : Home[u] \in Sites
  BY HomeIsSite DEF IInv, TypeOK
<1>27. EscrowRecovers'
  <2> SUFFICES ASSUME NEW u \in DOMAIN rows \ raced, rows'[u].pub # None, ~rows'[u].needed
               PROVE  /\ rows'[u].bkp1 = Seal(pubE'[Root], rows'[u].pub)
                      /\ Home[u] # Root => rows'[u].bkp2 = Seal(pubE'[Home[u]], rows'[u].pub)
    BY <1>7, <1>17 DEF EscrowRecovers
  <2>1. rows[u].pub # None /\ ~rows[u].needed /\ rows'[u].pub = rows[u].pub
    BY <1>14, <1>16, <1>17
  <2>2. /\ rows[u].bkp1 = Seal(pubE[Root], rows[u].pub)
        /\ Home[u] # Root => rows[u].bkp2 = Seal(pubE[Home[u]], rows[u].pub)
    BY <2>1 DEF IInv, EscrowRecovers
  <2>3. Home[u] \in Sites /\ Root \in Sites
    BY <1>26, HomeIsSite
  <2>4. CASE u = o
    <3>1. rows'[u].bkp1 = bkp1 /\ rows'[u].bkp2 = bkp2
      BY <1>14, <1>17, <2>4
    <3>2. bkp1 = Seal(pubE'[Root], rows'[u].pub)
      BY <1>9, <1>10, <1>18, <2>1, <2>2, <2>3, <2>4
    <3>3. Home[u] # Root => bkp2 = Seal(pubE'[Home[u]], rows'[u].pub)
      BY <1>5, <1>9, <1>10, <1>18, <2>1, <2>2, <2>3, <2>4
    <3> QED
      BY <3>1, <3>2, <3>3
  <2>5. CASE u # o
    <3>1. t # Root /\ Home[u] # t
      BY <1>16, <2>5
    <3> QED
      BY <1>16, <1>18, <2>2, <2>3, <2>5, <3>1
  <2> QED
    BY <2>4, <2>5
<1>28. NothingInEscrow'
  <2> SUFFICES ASSUME NEW u \in DOMAIN rows
               PROVE  /\ pubE'[Root] = None => rows'[u].bkp1 = None
                      /\ Home[u] # Root /\ pubE'[Home[u]] = None => rows'[u].bkp2 = None
    BY <1>17 DEF NothingInEscrow
  <2>1. /\ pubE[Root] = None => rows[u].bkp1 = None
        /\ Home[u] # Root /\ pubE[Home[u]] = None => rows[u].bkp2 = None
    BY DEF IInv, NothingInEscrow
  <2>2. Home[u] \in Sites /\ Root \in Sites
    BY <1>26, HomeIsSite
  <2>3. CASE u = o
    BY <1>5, <1>10, <1>13, <1>14, <1>17, <1>18, <2>1, <2>2, <2>3
  <2>4. CASE u # o
    BY <1>13, <1>16, <1>18, <2>1, <2>2, <2>4
  <2> QED
    BY <2>3, <2>4
<1> QED
  BY <1>21, <1>22, <1>23, <1>24, <1>25, <1>27, <1>28 DEF IInv

-----------------------------------------------------------------------------
(* Users and encryption come and go *)

\* A user who is added: what there is of the others stays, and of this one there was nothing.
LEMMA AddedSafe ==
    ASSUME IInv, NEW a \in Users \ DOMAIN rows, NEW row \in Row,
           rows' = [u \in DOMAIN rows \cup {a} |-> IF u = a THEN row ELSE rows[u]],
           Stored(row, Home[a]), tokens' \in [Users -> SUBSET Opt(UserKeys)],
           tokens'[a] \subseteq {None, row.pub}, \A u \in Users \ {a} : tokens'[u] = tokens[u],
           ops' \in 0..MaxOps, UNCHANGED <<sess, busy, raced>>,
           DOMAIN enc \subseteq DOMAIN enc', DOMAIN enc' \subseteq Sites,
           enc' \in [DOMAIN enc' -> BOOLEAN], \A t \in DOMAIN enc : enc'[t] = enc[t],
           Home[a] \in DOMAIN enc', row.pub # None => enc'[Home[a]],
           pubE' \in [Sites -> Opt(EscrowKeys)],
           prvE' \in [Sites -> Opt(Sealed(EscrowKeys, EscrowKeys))],
           \A t \in Sites : pubE'[t] # pubE[t] => t \notin DOMAIN enc,
           \A t \in Sites : pubE'[t] # None => t \in DOMAIN enc' /\ enc'[t],
           row.pub # None /\ ~row.needed =>
               /\ row.bkp1 = Seal(pubE'[Root], row.pub)
               /\ Home[a] # Root => row.bkp2 = Seal(pubE'[Home[a]], row.pub),
           pubE'[Root] = None => row.bkp1 = None,
           Home[a] # Root /\ pubE'[Home[a]] = None => row.bkp2 = None
    PROVE  IInv'
<1>1. /\ DOMAIN rows' = DOMAIN rows \cup {a} /\ rows' \in [DOMAIN rows' -> Row] /\ rows'[a] = row
      /\ DOMAIN rows' \subseteq Users /\ \A u \in DOMAIN rows : u # a /\ rows'[u] = rows[u]
  BY DEF IInv, TypeOK
<1>2. a \notin raced /\ sess[a] = None
  BY DEF IInv, NothingOfAbsent
<1>3. ASSUME NEW w \in Workers, busy[w] # None, busy[w].on = a PROVE busy[w].op = "disable"
  BY <1>3 DEF IInv, NothingOfAbsent
<1>4. /\ \A u \in DOMAIN rows : pubE'[Home[u]] = pubE[Home[u]]
      /\ pubE'[Root] = pubE[Root]
  BY HomeIsSite DEF IInv, TypeOK, OnlyEncrypted
<1>5. TypeOK'
  BY <1>1 DEF IInv, TypeOK
<1>6. NothingOfAbsent'
  BY <1>1 DEF IInv, NothingOfAbsent
<1>7. OnlyEncrypted'
  BY <1>1 DEF IInv, TypeOK, OnlyEncrypted, Running
<1>8. StoredKeys'
  BY <1>1 DEF IInv, TypeOK, StoredKeys
<1>9. SessionKeys'
  BY <1>1, <1>2 DEF IInv, SessionKeys
<1>10. ReadKeys'
  BY <1>1, <1>3 DEF IInv, ReadKeys, StillSo
<1>11. FirstKeys'
  BY <1>1, <1>3 DEF IInv, FirstKeys, FirstChange
<1>12. EscrowRecovers' /\ NothingInEscrow'
  BY <1>1, <1>4 DEF IInv, EscrowRecovers, NothingInEscrow
<1> QED
  BY <1>5, <1>6, <1>7, <1>8, <1>9, <1>10, <1>11, <1>12 DEF IInv

LEMMA CreateUserSafe == ASSUME IInv, NEW o \in Users, NEW u \in Users, CreateUser(o, u) PROVE IInv'
<1>1. PICK t, e1, en : t = Home[u] /\ e1 = pubE[Root] /\ en = pubE[t]
  OBVIOUS
<1>2. PICK keyed \in BOOLEAN : keyed = ((enc[t] /\ pubE[Root] # None) \/ pubE[t] # None)
  OBVIOUS
<1>3. PICK k \in Opt(UserKeys), p \in Passwords :
        /\ IF (enc[Home[u]] /\ pubE[Root] # None) \/ pubE[Home[u]] # None
           THEN FreshKey(k) ELSE k = None
        /\ rows' = [x \in DOMAIN rows \cup {u} |->
             IF x = u THEN NewRow(Home[u], k, p, pubE[Root], pubE[Home[u]]) ELSE rows[x]]
        /\ \E link \in {{}, {k}} : tokens' = [tokens EXCEPT ![u] = link]
  BY DEF CreateUser
<1>4. PICK row : row = NewRow(t, k, p, e1, en)
  OBVIOUS
<1>5. /\ t \in DOMAIN enc /\ t \in Sites /\ u \notin DOMAIN rows /\ (pubE[Root] # None => keyed)
      /\ UNCHANGED <<enc, pubE, prvE, sess, busy, raced>>
  BY <1>1, <1>2, HomeIsSite DEF CreateUser
<1>6. ops' \in 0..MaxOps
  BY OneMore DEF IInv, CreateUser
<1>7. e1 \in Opt(EscrowKeys) /\ en \in Opt(EscrowKeys)
  BY <1>1, <1>5, HomeIsSite DEF IInv, TypeOK
<1>8. /\ k = None => e1 = None /\ (t # Root => en = None)
      /\ k # None => enc[t]
  <2>1. keyed => k # None
    BY <1>1, <1>2, <1>3, AccountsAssumption DEF FreshKey, Least
  <2>2. pubE[t] # None => enc[t]
    BY <1>5 DEF IInv, OnlyEncrypted
  <2> QED
    BY <1>1, <1>2, <1>3, <1>5, <2>1, <2>2
<1>9. row \in Row
  BY <1>4, <1>7, <1>8, NewRowTyped
<1>10. /\ Stored(row, t) /\ row.pub = k
       /\ row.bkp1 = Seal(e1, k) /\ (t # Root => row.bkp2 = Seal(en, k))
       /\ e1 = None => row.bkp1 = None
       /\ t # Root /\ en = None => row.bkp2 = None
  BY <1>4, <1>7, <1>8, NewRowStored
<1>11. /\ tokens' \in [Users -> SUBSET Opt(UserKeys)] /\ tokens'[u] \subseteq {None, k}
       /\ \A x \in Users \ {u} : tokens'[x] = tokens[x]
  BY <1>3 DEF IInv, TypeOK
<1>12. rows' = [x \in DOMAIN rows \cup {u} |-> IF x = u THEN row ELSE rows[x]]
  BY <1>1, <1>3, <1>4
<1>13. /\ DOMAIN enc \subseteq Sites /\ enc \in [DOMAIN enc -> BOOLEAN]
       /\ pubE \in [Sites -> Opt(EscrowKeys)]
       /\ prvE \in [Sites -> Opt(Sealed(EscrowKeys, EscrowKeys))]
       /\ \A x \in Sites : pubE[x] # None => x \in DOMAIN enc /\ enc[x]
  BY DEF IInv, TypeOK, OnlyEncrypted
<1> QED
  BY <1>1, <1>5, <1>6, <1>8, <1>9, <1>10, <1>11, <1>12, <1>13, AddedSafe

LEMMA WizardSafe == ASSUME IInv, NEW t \in Sites, NEW a \in Users, Wizard(t, a) PROVE IInv'
<1>1. /\ t \notin DOMAIN enc /\ Home[a] = t
      /\ enc' = [x \in DOMAIN enc \cup {t} |-> IF x = t THEN enc[Root] ELSE enc[x]]
      /\ UNCHANGED <<sess, tokens, busy, raced>>
  BY DEF Wizard
<1>2. PICK e \in Opt(EscrowKeys), k \in Opt(UserKeys), p \in Passwords :
         /\ IF pubE[Root] # None /\ enc[Root]
            THEN FreshEscrow(e) /\ FreshKey(k) ELSE e = None /\ k = None
         /\ pubE' = [pubE EXCEPT ![t] = e]
         /\ prvE' = [prvE EXCEPT ![t] = Seal(IF e = None THEN None ELSE pubE[Root], e)]
         /\ rows' = [u \in DOMAIN rows \cup {a} |->
              IF u # a THEN rows[u]
              ELSE [NewRow(t, k, p, pubE[Root], e) EXCEPT !.esc = e, !.needed = TRUE]]
  BY DEF Wizard
<1>3. PICK e1 : e1 = pubE[Root]
  OBVIOUS
<1>4. PICK new : new = NewRow(t, k, p, e1, e)
  OBVIOUS
<1>5. PICK row : row = [new EXCEPT !.esc = e, !.needed = TRUE]
  OBVIOUS
<1>6. /\ Root \in DOMAIN enc /\ t # Root /\ e1 \in Opt(EscrowKeys)
      /\ DOMAIN enc \subseteq Sites /\ enc \in [DOMAIN enc -> BOOLEAN]
  BY <1>1, <1>3, HomeIsSite DEF IInv, TypeOK
<1>7. a \notin DOMAIN rows /\ tokens[a] = {}
  BY <1>1 DEF IInv, OnlyEncrypted, NothingOfAbsent
<1>8. /\ k = None => e1 = None /\ e = None
      /\ k # None \/ e # None => enc[Root] /\ e1 # None
  <2>1. FreshKey(k) => k # None
    BY AccountsAssumption DEF FreshKey, Least
  <2>2. pubE[Root] # None => enc[Root]
    BY HomeIsSite DEF IInv, OnlyEncrypted
  <2> QED
    BY <1>2, <1>3, <2>1, <2>2
<1>9. new \in Row
  BY <1>4, <1>6, <1>8, NewRowTyped
<1>10. /\ Stored(new, t) /\ new.pub = k
       /\ new.bkp1 = Seal(e1, k) /\ (t # Root => new.bkp2 = Seal(e, k))
       /\ e1 = None => new.bkp1 = None
       /\ t # Root /\ e = None => new.bkp2 = None
  BY <1>4, <1>6, <1>8, NewRowStored
<1>11. /\ row \in Row /\ row.needed /\ row.pub = k /\ row.bkp1 = new.bkp1 /\ row.bkp2 = new.bkp2
       /\ Stored(row, t)
  <2>1. row \in Row /\ row.needed /\ row.pub = new.pub /\ row.bkp1 = new.bkp1
        /\ row.bkp2 = new.bkp2 /\ row.prv = new.prv /\ row.pw = new.pw /\ row.rec = new.rec
    BY <1>5, <1>9 DEF Row
  <2> QED
    BY <1>10, <2>1 DEF Stored, Holds
<1>12. rows' = [u \in DOMAIN rows \cup {a} |-> IF u = a THEN row ELSE rows[u]]
  BY <1>2, <1>3, <1>4, <1>5
<1>13. /\ pubE' \in [Sites -> Opt(EscrowKeys)] /\ pubE'[t] = e
       /\ \A x \in Sites \ {t} : pubE'[x] = pubE[x]
  BY <1>2 DEF IInv, TypeOK
<1>14. prvE' \in [Sites -> Opt(Sealed(EscrowKeys, EscrowKeys))]
  <2>1. Seal(IF e = None THEN None ELSE pubE[Root], e) \in Opt(Sealed(EscrowKeys, EscrowKeys))
    BY <1>2, <1>3, <1>6 DEF Seal, Sealed, Opt
  <2> QED
    BY <1>2, <2>1 DEF IInv, TypeOK
<1>15. /\ DOMAIN enc' = DOMAIN enc \cup {t} /\ enc' \in [DOMAIN enc' -> BOOLEAN]
       /\ enc'[t] = enc[Root] /\ \A x \in DOMAIN enc : enc'[x] = enc[x]
  BY <1>1, <1>6
<1>16. \A x \in Sites : pubE'[x] # None => x \in DOMAIN enc' /\ enc'[x]
  <2>1. \A x \in Sites : pubE[x] # None => x \in DOMAIN enc /\ enc[x]
    BY DEF IInv, OnlyEncrypted
  <2> QED
    BY <1>8, <1>13, <1>15, <2>1
<1>17. ops' \in 0..MaxOps
  BY OneMore DEF IInv, Wizard
<1>18. tokens' \in [Users -> SUBSET Opt(UserKeys)] /\ tokens'[a] \subseteq {None, k}
  BY <1>1, <1>7 DEF IInv, TypeOK
<1>19. pubE'[Root] = e1
  BY <1>3, <1>6, <1>13, HomeIsSite
<1>20. /\ a \in Users \ DOMAIN rows /\ row \in Row /\ Stored(row, Home[a])
       /\ tokens'[a] \subseteq {None, row.pub} /\ \A u \in Users \ {a} : tokens'[u] = tokens[u]
       /\ Home[a] \in DOMAIN enc' /\ (row.pub # None => enc'[Home[a]])
       /\ pubE'[Root] = None => row.bkp1 = None
       /\ Home[a] # Root /\ pubE'[Home[a]] = None => row.bkp2 = None
  BY <1>1, <1>7, <1>8, <1>10, <1>11, <1>13, <1>15, <1>18, <1>19
<1>21. /\ DOMAIN enc \subseteq DOMAIN enc' /\ DOMAIN enc' \subseteq Sites
       /\ \A x \in Sites : pubE'[x] # pubE[x] => x \notin DOMAIN enc
  BY <1>1, <1>6, <1>13, <1>15
<1> QED
  BY <1>1, <1>11, <1>12, <1>13, <1>14, <1>15, <1>16, <1>17, <1>18, <1>20, <1>21, AddedSafe

LEMMA DeleteUserSafe == ASSUME IInv, NEW o \in Users, NEW u \in Users, DeleteUser(o, u) PROVE IInv'
<1>1. /\ u \in DOMAIN rows
      /\ rows' = [x \in DOMAIN rows \ {u} |-> rows[x]]
      /\ sess' = [sess EXCEPT ![u] = None]
      /\ tokens' = [tokens EXCEPT ![u] = {}]
      /\ busy' = [w \in Workers |->
           IF busy[w] # None /\ busy[w].on = u /\ busy[w].op # "disable" THEN None ELSE busy[w]]
      /\ raced' = raced \ {u} /\ UNCHANGED <<enc, pubE, prvE>>
  BY DEF DeleteUser
<1>2. ops' \in 0..MaxOps
  BY OneMore DEF IInv, DeleteUser
<1>3. /\ DOMAIN rows' = DOMAIN rows \ {u} /\ rows' \in [DOMAIN rows' -> Row]
      /\ \A x \in DOMAIN rows' : rows'[x] = rows[x] /\ x # u /\ x \in Users
  BY <1>1 DEF IInv, TypeOK
<1>4. /\ busy' \in [Workers -> Opt(Tx)]
      /\ \A w \in Workers : busy'[w] \in {None, busy[w]}
      /\ \A w \in Workers : busy'[w] # None /\ busy'[w].on = u => busy'[w].op = "disable"
  BY <1>1 DEF IInv, TypeOK, Opt
<1>5. /\ sess' \in [Users -> Opt(Session)] /\ sess'[u] = None
      /\ tokens' \in [Users -> SUBSET Opt(UserKeys)] /\ tokens'[u] = {}
      /\ \A x \in Users \ {u} : sess'[x] = sess[x] /\ tokens'[x] = tokens[x]
  BY <1>1 DEF IInv, TypeOK, Opt
<1>6. TypeOK'
  BY <1>1, <1>2, <1>3, <1>4, <1>5 DEF IInv, TypeOK
<1>7. NothingOfAbsent'
  BY <1>1, <1>3, <1>4, <1>5 DEF IInv, NothingOfAbsent
<1>8. OnlyEncrypted'
  BY <1>1, <1>3, <1>4 DEF IInv, OnlyEncrypted, Running
<1>9. StoredKeys' /\ SessionKeys'
  BY <1>1, <1>3, <1>5 DEF IInv, StoredKeys, SessionKeys
<1>10. ReadKeys'
  BY <1>1, <1>3, <1>4 DEF IInv, ReadKeys
<1>11. FirstKeys'
  BY <1>1, <1>3, <1>4, <1>5 DEF IInv, FirstKeys, FirstChange
<1>12. EscrowRecovers' /\ NothingInEscrow'
  BY <1>1, <1>3 DEF IInv, EscrowRecovers, NothingInEscrow
<1> QED
  BY <1>6, <1>7, <1>8, <1>9, <1>10, <1>11, <1>12 DEF IInv

LEMMA EnableEncryptionSafe ==
    ASSUME IInv, NEW o \in Users, NEW t \in Sites, EnableEncryption(o, t) PROVE IInv'
<1>1. /\ t \in DOMAIN enc /\ enc' = [enc EXCEPT ![t] = TRUE] /\ sess' = [sess EXCEPT ![o] = None]
      /\ UNCHANGED <<rows, pubE, prvE, tokens, busy, raced>>
  BY DEF EnableEncryption
<1>2. ops' \in 0..MaxOps
  BY OneMore DEF IInv, EnableEncryption
<1>3. /\ DOMAIN enc' = DOMAIN enc /\ enc' \in [DOMAIN enc' -> BOOLEAN]
      /\ \A x \in DOMAIN enc : enc[x] => enc'[x]
  BY <1>1 DEF IInv, TypeOK
<1>4. sess' \in [Users -> Opt(Session)] /\ \A x \in Users : sess'[x] \in {None, sess[x]}
  BY <1>1 DEF IInv, TypeOK, Opt
<1>5. TypeOK'
  BY <1>1, <1>2, <1>3, <1>4 DEF IInv, TypeOK
<1>6. NothingOfAbsent'
  BY <1>1, <1>4 DEF IInv, NothingOfAbsent
<1>7. OnlyEncrypted'
  BY <1>1, <1>3 DEF IInv, OnlyEncrypted, Running
<1>8. SessionKeys' /\ ReadKeys' /\ FirstKeys'
  BY <1>1, <1>4, KeysKept
<1>9. StoredKeys' /\ EscrowRecovers' /\ NothingInEscrow'
  BY <1>1 DEF IInv, StoredKeys, EscrowRecovers, NothingInEscrow
<1> QED
  BY <1>5, <1>6, <1>7, <1>8, <1>9 DEF IInv

-----------------------------------------------------------------------------
(* Theorems *)

\* Every step keeps the invariant.
LEMMA Step == IInv /\ [Next]_vars => IInv'
<1> SUFFICES ASSUME IInv, [Next]_vars PROVE IInv'
  OBVIOUS
<1>1. CASE UNCHANGED vars
  BY <1>1 DEF vars, IInv, TypeOK, NothingOfAbsent, OnlyEncrypted, Running, StoredKeys,
              SessionKeys, ReadKeys, FirstKeys, EscrowRecovers, NothingInEscrow
<1>2. ASSUME NEW u \in Users, Logout(u) \/ AskReset(u) \/ ExpireToken(u) PROVE IInv'
  BY <1>2, LogoutSafe, AskResetSafe, ExpireTokenSafe
<1>3. ASSUME NEW o \in Users, NEW u \in Users, SendReset(o, u) \/ CreateUser(o, u) \/ DeleteUser(o, u)
      PROVE  IInv'
  BY <1>3, SendResetSafe, CreateUserSafe, DeleteUserSafe
<1>4. ASSUME NEW t \in Sites, NEW u \in Users, Wizard(t, u) \/ EnableEncryption(u, t) PROVE IInv'
  BY <1>4, WizardSafe, EnableEncryptionSafe
<1>5. ASSUME NEW w \in Workers,
             \/ Abort(w) \/ LoginEnd(w) \/ ChangeEnd(w) \/ SetEnd(w)
             \/ EnableEnd(w) \/ DisableEnd(w) \/ ShareEnd(w)
      PROVE  IInv'
  BY <1>5, AbortSafe, LoginEndSafe, ChangeEndSafe, SetEndSafe, EnableEndSafe, DisableEndSafe,
     ShareEndSafe
<1>6. ASSUME NEW w \in Workers, NEW u \in Users,
             \/ LoginBegin(w, u)
             \/ \E c \in Opt(UserKeys) : ResetBegin(w, u, c)
             \/ \E p \in Passwords : ChangeBegin(w, u, p)
             \/ \E t \in Sites : ToggleBegin(w, u, t)
      PROVE  IInv'
  BY <1>6, LoginBeginSafe, ResetBeginSafe, ChangeBeginSafe, ToggleBeginSafe
<1>7. ASSUME NEW w \in Workers, NEW o \in Users, NEW u \in Users,
             ShareBegin(w, o, u) \/ \E p \in Passwords : SetBegin(w, o, u, p)
      PROVE  IInv'
  BY <1>7, ShareBeginSafe, SetBeginSafe
<1> QED
  BY <1>1, <1>2, <1>3, <1>4, <1>5, <1>6, <1>7 DEF Next

\* The keys of the platform, and what transactions, sessions and reset tokens know of
\* them, agree in every state.
THEOREM Invariant == Spec => []IInv
<1> QED
  BY Initially, Step, PTL DEF Spec

\* The variables have their types, and a transaction the values its kind works with.
THEOREM TypeCorrect == Spec => []TypeOK
<1>1. IInv => TypeOK
  BY DEF IInv
<1> QED
  BY <1>1, Invariant, PTL

\* The password of a user opens the user's key; while escrow is on, the keys of those
\* who need no new password can be recovered with it, and once it is off nobody's.
THEOREM KeysKeptSound == Spec => []KeysSound
<1>1. IInv => KeysSound
  BY DEF IInv, StoredKeys, Stored, Holds, KeysSound, KeysFit
<1> QED
  BY <1>1, Invariant, PTL

-----------------------------------------------------------------------------
(* Forms: recursion *)

\* Every set of naturals has a least member; induction follows.
LEMMA Smallest ==
    ASSUME NEW T \in SUBSET Nat, T # {}
    PROVE  \E i \in T : \A j \in T : i <= j
<1> DEFINE R == OpToRel(<, Nat)
<1>1. IsWellFoundedOn(R, Nat)
  BY NatLessThanWellFounded
<1>2. \A i, j \in Nat : <<i, j>> \in R <=> i < j
  BY DEF OpToRel
<1> HIDE DEF R
<1>3. PICK i \in T : \A j \in T : ~(<<j, i>> \in R)
  BY <1>1, WFMin
<1>4. \A j \in T : ~(j < i)
  BY <1>2, <1>3
<1>5. \A j \in T : j \in Nat /\ i \in Nat
  OBVIOUS
<1>6. QED BY <1>4, <1>5

LEMMA Induction ==
    ASSUME NEW T, 0 \in T, \A i \in Nat : i \in T => i + 1 \in T
    PROVE  Nat \subseteq T
<1> SUFFICES ASSUME NEW S, S = Nat \ T, S # {} PROVE FALSE
  OBVIOUS
<1>1. PICK i \in S : \A j \in S : i <= j
  BY Smallest
<1>2. i \in Nat /\ i # 0 /\ i \notin T
  OBVIOUS
<1>3. i - 1 \in Nat /\ i - 1 \notin S
  BY <1>1, <1>2
<1>4. QED BY <1>2, <1>3

\* The values a recursion over 1 .. n goes through, and the step it takes at each.
Walks(n, S) == [0 .. n -> S]

Steps(n, S) == [(1 .. n) \X S -> S]

Follows(g, n, base, step) == g[0] = base /\ \A i \in 1 .. n : g[i] = step[<<i, g[i - 1]>>]

\* A function defined by recursion over an interval exists, and has the values it is
\* defined by.
LEMMA Recursion ==
    ASSUME NEW n \in Nat, NEW S, NEW base \in S, NEW step \in Steps(n, S)
    PROVE  \E g \in Walks(n, S) : Follows(g, n, base, step)
<1> USE DEF Walks, Steps, Follows
<1> DEFINE Good(k, g) == g[0] = base /\ \A i \in 1 .. k : g[i] = step[<<i, g[i - 1]>>]
           T == {k \in Nat : k <= n => \E g \in [0 .. k -> S] : Good(k, g)}
<1>1. 0 \in T
  <2>1. [i \in 0 .. 0 |-> base] \in [0 .. 0 -> S]
    OBVIOUS
  <2>2. Good(0, [i \in 0 .. 0 |-> base])
    OBVIOUS
  <2>3. QED BY <2>1, <2>2
<1>2. ASSUME NEW k \in Nat, k \in T PROVE k + 1 \in T
  <2> SUFFICES ASSUME k + 1 <= n PROVE \E g \in [0 .. k + 1 -> S] : Good(k + 1, g)
    OBVIOUS
  <2>1. PICK g \in [0 .. k -> S] : Good(k, g)
    BY <1>2
  <2> DEFINE h == [i \in 0 .. k + 1 |-> IF i = k + 1 THEN step[<<i, g[k]>>] ELSE g[i]]
  <2>2. step[<<k + 1, g[k]>>] \in S
    OBVIOUS
  <2>3. h \in [0 .. k + 1 -> S]
    BY <2>2
  <2>4. h[k + 1] = step[<<k + 1, g[k]>>] /\ \A i \in 0 .. k : h[i] = g[i]
    OBVIOUS
  <2> HIDE DEF h
  <2>5. ASSUME NEW i \in 1 .. k + 1 PROVE h[i] = step[<<i, h[i - 1]>>]
    <3>1. CASE i = k + 1
      <4>1. i - 1 = k /\ k \in 0 .. k
        BY <3>1
      <4>2. QED BY <2>4, <3>1, <4>1
    <3>2. CASE i # k + 1
      <4>1. i \in 1 .. k /\ i \in 0 .. k /\ i - 1 \in 0 .. k
        BY <3>2
      <4>2. QED BY <2>1, <2>4, <4>1
    <3>3. QED BY <3>1, <3>2
  <2>6. h[0] = base
    BY <2>1, <2>4
  <2>7. QED BY <2>3, <2>5, <2>6
<1>3. Nat \subseteq T
  <2> HIDE DEF T
  <2> QED BY <1>1, <1>2, Induction
<1>4. QED BY <1>3

\* Induction up to a bound
LEMMA Upwards ==
    ASSUME NEW n \in Nat, NEW T, 0 \in T, \A i \in 1 .. n : i - 1 \in T => i \in T
    PROVE  0 .. n \subseteq T
<1> DEFINE U == {i \in Nat : i <= n => i \in T}
<1>1. 0 \in U
  OBVIOUS
<1>2. ASSUME NEW i \in Nat, i \in U PROVE i + 1 \in U
  <2>1. i + 1 <= n => i + 1 \in 1 .. n /\ (i + 1) - 1 = i /\ i <= n
    OBVIOUS
  <2>2. QED BY <1>2, <2>1
<1> HIDE DEF U
<1>3. Nat \subseteq U
  BY <1>1, <1>2, Induction
<1>4. QED BY <1>3 DEF U

-----------------------------------------------------------------------------
(* Sets of numbers and lists *)

LEMMA SameCount == \A S : Editor!Cardinality(S) = Cardinality(S)
BY DEF Editor!Cardinality, Cardinality

LEMMA Counted ==
    ASSUME NEW n \in Nat, NEW S \in SUBSET (1 .. n)
    PROVE  IsFiniteSet(S) /\ Cardinality(S) \in Nat /\ Cardinality(S) <= n
<1>1. IsFiniteSet(1 .. n) /\ Cardinality(1 .. n) = n
  BY FS_Interval
<1>2. QED BY <1>1, FS_Subset, FS_CardinalityType

\* Those before an element, by which it is ordered
Lower(S, x) == {y \in S : y < x}

\* A set of numbers, in order: the i-th has i - 1 before it.
LEMMA OrderedIn ==
    ASSUME NEW n \in Nat, NEW S \in SUBSET (1 .. n)
    PROVE  Editor!Ordered(S) \in [1 .. Cardinality(S) -> S]
<1> DEFINE m == Cardinality(S)
           rank == [x \in S |-> Cardinality(Lower(S, x)) + 1]
<1>1. IsFiniteSet(S) /\ m \in Nat
  BY Counted
<1>2. \A x \in S : IsFiniteSet(Lower(S, x)) /\ Cardinality(Lower(S, x)) \in Nat
  <2> SUFFICES ASSUME NEW x \in S PROVE IsFiniteSet(Lower(S, x)) /\ Cardinality(Lower(S, x)) \in Nat
    OBVIOUS
  <2>1. Lower(S, x) \in SUBSET (1 .. n)
    BY DEF Lower
  <2>2. QED BY <2>1, Counted
<1>3. ASSUME NEW x \in S PROVE rank[x] \in 1 .. m
  <2>1. Lower(S, x) \in SUBSET S /\ x \notin Lower(S, x)
    BY DEF Lower
  <2>2. Cardinality(Lower(S, x)) <= m /\ Cardinality(Lower(S, x)) # m
    BY <1>1, <2>1, FS_Subset
  <2>3. QED BY <1>1, <1>2, <2>2
<1>4. rank \in [S -> 1 .. m]
  BY <1>3
<1>5. ASSUME NEW x \in S, NEW z \in S, x < z PROVE rank[x] # rank[z]
  <2>1. Lower(S, x) \in SUBSET Lower(S, z) /\ x \in Lower(S, z) /\ x \notin Lower(S, x)
    <3>1. \A y \in S : y \in Nat
      OBVIOUS
    <3>2. \A y \in S : y < x => y < z
      BY <1>5, <3>1
    <3>3. ~(x < x)
      BY <3>1
    <3>4. QED BY <1>5, <3>2, <3>3 DEF Lower
  <2>2. Cardinality(Lower(S, x)) # Cardinality(Lower(S, z))
    BY <1>2, <2>1, FS_Subset
  <2>3. QED BY <1>2, <2>2
<1>6. ASSUME NEW x \in S, NEW z \in S, rank[x] = rank[z] PROVE x = z
  <2>1. x < z \/ z < x \/ x = z
    OBVIOUS
  <2> HIDE DEF rank
  <2>2. QED BY <1>5, <1>6, <2>1
<1>7. rank \in Injection(S, 1 .. m)
  <2> HIDE DEF rank
  <2>1. DOMAIN rank = S
    BY <1>4
  <2>2. IsInjective(rank)
    BY <1>6, <2>1 DEF IsInjective
  <2>3. QED BY <1>4, <2>2 DEF Injection
<1>8. IsFiniteSet(1 .. m) /\ Cardinality(1 .. m) = m
  BY <1>1, FS_Interval
<1>9. rank \in Surjection(S, 1 .. m)
  <2> HIDE DEF rank
  <2>1. QED BY <1>7, <1>8, FS_Injection
<1>10. ASSUME NEW i \in 1 .. m PROVE \E x \in S : Cardinality(Lower(S, x)) = i - 1
  <2>1. PICK x \in S : rank[x] = i
    <3> HIDE DEF rank
    <3>1. QED BY <1>9 DEF Surjection
  <2>2. QED BY <1>2, <2>1
<1>11. \A i \in 1 .. Editor!Cardinality(S) :
         (CHOOSE x \in S : Editor!Cardinality({y \in S : y < x}) = i - 1) \in S
  <2> SUFFICES ASSUME NEW i \in 1 .. m
               PROVE  (CHOOSE x \in S : Editor!Cardinality({y \in S : y < x}) = i - 1) \in S
    BY SameCount
  <2>1. \E x \in S : Editor!Cardinality({y \in S : y < x}) = i - 1
    BY <1>10, SameCount DEF Lower
  <2>2. QED BY <2>1
<1>12. Editor!Ordered(S) \in [1 .. Editor!Cardinality(S) -> S]
  BY <1>11 DEF Editor!Ordered
<1>13. QED BY <1>12, SameCount

LEMMA Lists ==
    ASSUME NEW n \in Nat, NEW A, NEW s \in [1 .. n -> A]
    PROVE  s \in Seq(A) /\ Len(s) = n
<1>1. s \in Seq(A)
  BY SeqDef
<1>2. Len(s) \in Nat /\ DOMAIN s = 1 .. Len(s) /\ DOMAIN s = 1 .. n
  BY <1>1, LenProperties
<1>3. QED BY <1>1, <1>2

\* Lists of a kind that concatenation keeps
Closed(P) == \A a, b \in P : a \o b \in P

\* Put one after the other, lists of such a kind make a list of that kind.
LEMMA FlattenIn ==
    ASSUME NEW P, Closed(P), << >> \in P, NEW n \in Nat, NEW s \in [1 .. n -> P]
    PROVE  Editor!FlattenSeq(s) \in P
<1>1. Len(s) = n
  BY Lists
<1>2. CASE n = 0
  <2>1. s = << >>
    BY <1>2
  <2>2. QED BY <1>1, <1>2, <2>1 DEF Editor!FlattenSeq
<1>3. CASE n # 0
  <2> DEFINE step == [p \in (1 .. n) \X P |-> IF p[1] = 1 THEN s[p[1]] ELSE p[2] \o s[p[1]]]
             Good(g) == g = [i \in 1 .. n |-> IF i = 1 THEN s[i] ELSE g[i - 1] \o s[i]]
             w == CHOOSE g : Good(g)
  <2>1. \A i \in 1 .. n : s[i] \in P
    OBVIOUS
  <2>2. step \in Steps(n, P)
    BY <1>3, <2>1 DEF Steps, Closed
  <2>3. PICK g \in Walks(n, P) : Follows(g, n, << >>, step)
    <3> HIDE DEF step
    <3>1. QED BY <2>2, Recursion
  <2> DEFINE h == [i \in 1 .. n |-> g[i]]
  <2>4. \A i \in 1 .. n : g[i] = IF i = 1 THEN s[i] ELSE g[i - 1] \o s[i]
    <3> SUFFICES ASSUME NEW i \in 1 .. n PROVE g[i] = IF i = 1 THEN s[i] ELSE g[i - 1] \o s[i]
      OBVIOUS
    <3>1. i - 1 \in 0 .. n
      OBVIOUS
    <3>2. g[i - 1] \in P /\ g[i] = step[<<i, g[i - 1]>>]
      BY <2>3, <3>1, Zenon DEF Walks, Follows
    <3>3. QED BY <3>2
  <2>5. \A i \in 1 .. n : i # 1 => i - 1 \in 1 .. n
    OBVIOUS
  <2>6. Good(h)
    <3> HIDE DEF step
    <3>1. QED BY <2>4, <2>5
  <2>7. Good(w)
    <3> HIDE DEF h
    <3>1. QED BY <2>6, Zenon
  <2>8. Editor!FlattenSeq(s) = w[n]
    <3>1. Editor!FlattenSeq(s) =
            IF Len(s) = 0 THEN s
            ELSE (CHOOSE g_1 : g_1 = [i \in 1 .. Len(s) |-> IF i = 1 THEN s[i] ELSE g_1[i - 1] \o s[i]])[Len(s)]
      BY DEF Editor!FlattenSeq
    <3>2. QED BY <1>1, <1>3, <3>1
  <2> HIDE DEF w
  <2>9. w = [i \in 1 .. n |-> w[i]] /\ \A i \in 1 .. n : w[i] = IF i = 1 THEN s[i] ELSE w[i - 1] \o s[i]
    <3>1. \A i \in 1 .. n : w[i] = IF i = 1 THEN s[i] ELSE w[i - 1] \o s[i]
      BY <2>7
    <3>2. QED BY <2>7, <3>1
  <2>10. DEFINE T == {i \in Nat : i # 0 => w[i] \in P}
  <2>11. 0 \in T
    OBVIOUS
  <2>12. ASSUME NEW i \in 1 .. n, i - 1 \in T PROVE i \in T
    <3>1. CASE i = 1
      <4>1. w[i] = s[i]
        BY <2>9, <3>1
      <4>2. QED BY <2>1, <4>1
    <3>2. CASE i # 1
      <4>1. w[i] = w[i - 1] \o s[i]
        BY <2>9, <3>2
      <4>2. w[i - 1] \in P
        BY <2>12, <3>2
      <4>3. w[i] \in P
        BY <2>1, <4>1, <4>2 DEF Closed
      <4>4. QED BY <4>3
    <3>3. QED BY <3>1, <3>2
  <2> HIDE DEF T
  <2>13. 0 .. n \subseteq T
    BY <2>11, <2>12, Upwards
  <2>14. n \in T /\ n \in 1 .. n
    BY <1>3, <2>13
  <2>15. QED BY <1>3, <2>8, <2>14 DEF T
<1>4. QED BY <1>2, <1>3

-----------------------------------------------------------------------------
(* The rows of the questionnaires *)

LEMMA Parameters ==
    /\ MaxNesting \in Nat /\ MaxDepth \in Nat /\ Root \in Tenants /\ 0 \notin Tenants
    /\ \E n \in Nat : Fields = 1 .. n
    /\ Editor!Cardinality(Fields) \in Nat
    /\ \E n \in Nat : Options = 1 .. n
    /\ Questionnaires \in SUBSET (Nat \ {0})
    /\ Fields \in SUBSET (Nat \ {0}) /\ Options \in SUBSET (Nat \ {0})
<1>1. Editor!Cardinality(Fields) \in Nat /\ \E n \in Nat : Fields = 1 .. n
  BY AdministrationAssumption DEF Editor!FormsAssumption
<1>2. \E n \in Nat : Options = 1 .. n
  BY AdministrationAssumption DEF Editor!FormsAssumption
<1>3. \E n \in Nat : Questionnaires = 1 .. n
  BY AdministrationAssumption DEF Editor!FormsAssumption
<1>4. MaxNesting \in Nat /\ MaxDepth \in Nat /\ Root \in Tenants /\ 0 \notin Tenants
  BY AdministrationAssumption DEF Editor!FormsAssumption
<1>5. QED BY <1>1, <1>2, <1>3, <1>4

\* What is there has a tenant; of what is not, nothing leads anywhere.
LEMMA RowFacts ==
    ASSUME NEW d \in Editor!Databases, NEW f \in Fields
    PROVE  /\ f \in Editor!Rows(d) <=> d.field[f].tid # 0
           /\ Editor!There(d, f) <=> d.field[f].tid # 0
           /\ d.field[f].tid # 0 => d.field[f] \in Editor!Row
           /\ d.field[f].tid = 0 => d.field[f] = Editor!Gone
           /\ d.field[f].tid = 0 => /\ d.field[f].group = 0 /\ d.field[f].form = 0
                                    /\ d.field[f].tmpl = 0 /\ d.field[f].voice = FALSE
           /\ d.field[f].tid \in Tenants \cup {0} /\ d.field[f].group \in Fields \cup {0}
           /\ d.field[f].form \in Questionnaires \cup {0} /\ d.field[f].tmpl \in Fields \cup {0}
           /\ d.field[f].voice \in BOOLEAN
<1>1. d.field[f] \in Editor!Row \cup {Editor!Gone}
  BY DEF Editor!Databases
<1>2. CASE d.field[f] = Editor!Gone
  BY <1>2 DEF Editor!Gone, Editor!Rows, Editor!There
<1>3. CASE d.field[f] \in Editor!Row
  <2>1. /\ d.field[f].tid \in Tenants /\ d.field[f].group \in Fields \cup {0}
        /\ d.field[f].form \in Questionnaires \cup {0} /\ d.field[f].tmpl \in Fields \cup {0}
        /\ d.field[f].voice \in BOOLEAN
    BY <1>3 DEF Editor!Row
  <2>2. d.field[f].tid # 0
    BY <2>1, Parameters
  <2>3. d.field[f] # Editor!Gone
    BY <2>2 DEF Editor!Gone
  <2>4. QED BY <1>3, <2>1, <2>2, <2>3 DEF Editor!Rows, Editor!There
<1>4. QED BY <1>1, <1>2, <1>3

LEMMA TableFacts ==
    ASSUME NEW d \in Editor!Databases
    PROVE  /\ DOMAIN d.field = Fields /\ d.field \in [Fields -> Editor!Row \cup {Editor!Gone}]
           /\ d.option \in [Options -> Fields \cup {0}]
           /\ d.trigger \in SUBSET (Options \X Fields)
           /\ d.form \in [Questionnaires -> Tenants \cup {0}]
           /\ d.context \in [Tenants -> [main : Questionnaires \cup {0}, extra : Questionnaires \cup {0}]]
BY DEF Editor!Databases

LEMMA TablesTyped ==
    ASSUME NEW field \in [Fields -> Editor!Row \cup {Editor!Gone}], NEW option \in [Options -> Fields \cup {0}],
           NEW trigger \in SUBSET (Options \X Fields), NEW form \in [Questionnaires -> Tenants \cup {0}],
           NEW context \in [Tenants -> [main : Questionnaires \cup {0}, extra : Questionnaires \cup {0}]]
    PROVE  LET d == Editor!Database(field, option, trigger, form, context) IN
           /\ d \in Editor!Databases
           /\ d.field = field /\ d.option = option /\ d.trigger = trigger /\ d.form = form /\ d.context = context
BY DEF Editor!Database, Editor!Databases

\* A database whose links are sound
Linked(d) == d \in Editor!Databases /\ Editor!Referenced(d) /\ Editor!Apart(d)

\* What the links of the rows of a sound database lead to.
LEMMA LinkFacts ==
    ASSUME NEW d, Linked(d), NEW f \in Fields, d.field[f].tid # 0
    PROVE  /\ d.field[f].group # 0 =>
                d.field[f].group \in Fields /\ d.field[d.field[f].group].tid = d.field[f].tid
           /\ d.field[f].tmpl # 0 =>
                /\ d.field[f].tmpl \in Fields /\ d.field[d.field[f].tmpl].tid # 0
                /\ d.field[d.field[f].tmpl].tid \in {Root, d.field[f].tid}
           /\ d.field[f].form # 0 =>
                d.field[f].form \in Questionnaires /\ d.form[d.field[f].form] = d.field[f].tid
<1>1. d \in Editor!Databases /\ f \in Editor!Rows(d)
  BY RowFacts DEF Linked
<1>2. /\ d.field[f].group \in Fields \cup {0} /\ d.field[f].tmpl \in Fields \cup {0}
      /\ d.field[f].form \in Questionnaires \cup {0}
  BY <1>1, RowFacts
<1>3. /\ d.field[f].group # 0 => d.field[d.field[f].group].tid = d.field[f].tid
      /\ d.field[f].tmpl # 0 => d.field[d.field[f].tmpl].tid \in {Root, d.field[f].tid}
      /\ d.field[f].form # 0 => d.form[d.field[f].form] = d.field[f].tid
  BY <1>1 DEF Linked, Editor!Apart
<1>4. d.field[f].tmpl # 0 => Editor!There(d, d.field[f].tmpl)
  BY <1>1 DEF Linked, Editor!Referenced
<1>5. d.field[f].tmpl # 0 => d.field[d.field[f].tmpl].tid # 0
  BY <1>1, <1>2, <1>4, RowFacts
<1>6. QED BY <1>2, <1>3, <1>5

LEMMA TriggerFacts ==
    ASSUME NEW d, Linked(d), NEW t \in d.trigger
    PROVE  /\ t[1] \in Options /\ t[2] \in Fields /\ t = <<t[1], t[2]>>
           /\ d.option[t[1]] # 0 /\ d.option[t[1]] \in Fields
           /\ d.field[t[2]].tid # 0
           /\ d.field[d.option[t[1]]].tid = d.field[t[2]].tid
<1>1. d \in Editor!Databases
  BY DEF Linked
<1>2. t[1] \in Options /\ t[2] \in Fields /\ t = <<t[1], t[2]>>
  BY <1>1, TableFacts
<1>3. d.option[t[1]] # 0 /\ Editor!There(d, t[2])
  BY DEF Linked, Editor!Referenced
<1>4. d.option[t[1]] \in Fields
  BY <1>1, <1>2, <1>3, TableFacts
<1>5. d.field[d.option[t[1]]].tid = d.field[t[2]].tid
  BY DEF Linked, Editor!Apart
<1>6. QED BY <1>1, <1>2, <1>3, <1>4, <1>5, RowFacts

\* The numbers in use are those handed out.
Numbers == [field : Nat, option : Nat, form : Nat]

Numbered(d, n) ==
    /\ n \in Numbers
    /\ \A f \in Fields : d.field[f].tid # 0 => f <= n.field
    /\ \A o \in Options : d.option[o] # 0 => o <= n.option
    /\ \A q \in Questionnaires : d.form[q] # 0 => q <= n.form

\* Since s, rows were removed, changed and added, but none changed its tenant and no
\* number was used again.
Since(s, d, n) ==
    /\ \A f \in Fields : s.field[f].tid # 0 => f <= n.field /\ d.field[f].tid \in {0, s.field[f].tid}
    /\ \A q \in Questionnaires : s.form[q] # 0 => q <= n.form /\ d.form[q] \in {0, s.form[q]}

\* What a transaction does between two commits
Succeeds(d, n, e, m) ==
    /\ n.field <= m.field /\ n.form <= m.form
    /\ \A f \in Fields : f <= n.field => e.field[f].tid \in {0, d.field[f].tid}
    /\ \A q \in Questionnaires : q <= n.form => e.form[q] \in {0, d.form[q]}

LEMMA SinceThen ==
    ASSUME NEW s, NEW d, NEW n \in Numbers, NEW e, NEW m \in Numbers,
           Since(s, d, n), Succeeds(d, n, e, m)
    PROVE  Since(s, e, m)
<1>1. n.field \in Nat /\ m.field \in Nat /\ n.form \in Nat /\ m.form \in Nat
  BY DEF Numbers
<1>2. ASSUME NEW f \in Fields, s.field[f].tid # 0
      PROVE  f <= m.field /\ e.field[f].tid \in {0, s.field[f].tid}
  <2>1. f <= n.field /\ d.field[f].tid \in {0, s.field[f].tid} /\ e.field[f].tid \in {0, d.field[f].tid}
    BY <1>2 DEF Since, Succeeds
  <2>2. f \in Nat /\ n.field <= m.field
    BY Parameters DEF Succeeds
  <2>3. QED BY <1>1, <2>1, <2>2
<1>3. ASSUME NEW q \in Questionnaires, s.form[q] # 0
      PROVE  q <= m.form /\ e.form[q] \in {0, s.form[q]}
  <2>1. q <= n.form /\ d.form[q] \in {0, s.form[q]} /\ e.form[q] \in {0, d.form[q]}
    BY <1>3 DEF Since, Succeeds
  <2>2. q \in Nat /\ n.form <= m.form
    BY Parameters DEF Succeeds
  <2>3. QED BY <1>1, <2>1, <2>2
<1>4. QED BY <1>2, <1>3 DEF Since

LEMMA SinceNow == ASSUME NEW d, NEW n, Numbered(d, n) PROVE Since(d, d, n)
BY DEF Numbered, Since

\* What a request asks for
Requests == [form : Questionnaires \cup {0}, group : Fields \cup {0}, tmpl : Fields \cup {0},
             inst : Editor!Kinds, voice : BOOLEAN, on : SUBSET Options]

\* Its links are to the tenant's own, or to a template of the root tenant.
OwnAll(s, t, r) ==
    /\ r.group # 0 => s.field[r.group].tid = t
    /\ r.tmpl # 0 => s.field[r.tmpl].tid # 0 /\ s.field[r.tmpl].tid \in {Root, t}
    /\ r.form # 0 => s.form[r.form] = t

Creating(b) ==
    /\ b.op = "create" /\ b.tid \in Tenants /\ b.r \in Requests /\ OwnAll(b.seen, b.tid, b.r)
    /\ Editor!NestsWell(b.seen, b.tid, 0, b.r.group)

Updating(b) ==
    /\ b.op = "update" /\ b.tid \in Tenants /\ b.r \in Requests /\ OwnAll(b.seen, b.tid, b.r)
    /\ b.f \in Fields /\ b.seen.field[b.f].tid = b.tid
    /\ Editor!NestsWell(b.seen, b.tid, b.f, b.r.group)

Duplicating(b) ==
    b.op = "duplicate" /\ b.tid \in Tenants /\ b.q \in Questionnaires /\ b.seen.form[b.q] \in {Root, b.tid} \ {0}

Busily(b, d, n) ==
    \/ b = Editor!Idle
    \/ Linked(b.seen) /\ Since(b.seen, d, n) /\ (Creating(b) \/ Updating(b) \/ Duplicating(b))

LinksInv ==
    /\ Linked(db) /\ Numbered(db, fresh)
    /\ DOMAIN editing = Workers
    /\ \A w \in Workers : Busily(editing[w], db, fresh)

-----------------------------------------------------------------------------
(* Links *)

LEMMA BeginLinks ==
    ASSUME LinksInv, NEW w \in Workers, NEW b, Editor!Begin(w, b), Busily(b, db, fresh)
    PROVE  LinksInv'
<1>1. editing' = [editing EXCEPT ![w] = b] /\ UNCHANGED <<db, fresh>>
  BY DEF Editor!Begin
<1>2. DOMAIN editing' = Workers /\ \A v \in Workers : editing'[v] = IF v = w THEN b ELSE editing[v]
  BY <1>1 DEF LinksInv
<1>3. \A v \in Workers : Busily(editing'[v], db, fresh)
  BY <1>2 DEF LinksInv
<1>4. QED BY <1>1, <1>2, <1>3 DEF LinksInv

LEMMA EndLinks ==
    ASSUME LinksInv, Linked(db'), Numbered(db', fresh'), Succeeds(db, fresh, db', fresh'),
           DOMAIN editing' = Workers, \A w \in Workers : editing'[w] \in {editing[w], Editor!Idle}
    PROVE  LinksInv'
<1>1. ASSUME NEW w \in Workers PROVE Busily(editing'[w], db', fresh')
  <2>1. CASE editing'[w] = Editor!Idle
    BY <2>1 DEF Busily
  <2>2. CASE editing'[w] = editing[w] /\ editing[w] # Editor!Idle
    <3>1. Busily(editing[w], db, fresh)
      BY DEF LinksInv
    <3>2. Since(editing[w].seen, db, fresh) /\ fresh \in Numbers /\ fresh' \in Numbers
      BY <2>2, <3>1 DEF Busily, LinksInv, Numbered
    <3>3. Since(editing[w].seen, db', fresh')
      BY <3>2, SinceThen
    <3>4. QED BY <2>2, <3>1, <3>3 DEF Busily
  <2>3. QED BY <2>1, <2>2
<1>2. QED BY <1>1 DEF LinksInv

LEMMA Commits ==
    ASSUME LinksInv, NEW w \in Workers, NEW d, Editor!Commit(w, d)
    PROVE  /\ db' = d /\ Editor!Referenced(d)
           /\ DOMAIN editing' = Workers /\ \A v \in Workers : editing'[v] \in {editing[v], Editor!Idle}
<1>1. db' = d /\ Editor!Referenced(d) /\ editing' = [editing EXCEPT ![w] = Editor!Idle]
  BY DEF Editor!Commit
<1>2. QED BY <1>1 DEF LinksInv

LEMMA CommitsAtOnce ==
    ASSUME LinksInv, NEW w \in Workers, NEW d, Editor!AtOnce(w, d)
    PROVE  /\ db' = d /\ Editor!Referenced(d)
           /\ DOMAIN editing' = Workers /\ \A v \in Workers : editing'[v] \in {editing[v], Editor!Idle}
BY DEF Editor!AtOnce, LinksInv

LEMMA AbortLinks == ASSUME LinksInv, NEW w \in Workers, Editor!Abort(w) PROVE LinksInv'
<1>1. editing' = [editing EXCEPT ![w] = Editor!Idle] /\ UNCHANGED <<db, fresh>>
  BY DEF Editor!Abort
<1>2. DOMAIN editing' = Workers /\ \A v \in Workers : editing'[v] \in {editing[v], Editor!Idle}
  BY <1>1 DEF LinksInv
<1>3. \A v \in Workers : Busily(editing'[v], db, fresh)
  BY <1>2 DEF LinksInv, Busily
<1>4. QED BY <1>1, <1>2, <1>3 DEF LinksInv

\* Where a field is put
LEMMA PlaceFacts ==
    ASSUME LinksInv, NEW p \in Editor!Places
    PROVE  /\ p.form \in Questionnaires \cup {0} /\ p.group \in Fields \cup {0}
           /\ p.form # 0 => db.form[p.form] # 0
           /\ p.group # 0 => db.field[p.group].tid # 0
<1>1. db \in Editor!Databases
  BY DEF LinksInv, Linked
<1>2. \A g \in Editor!Rows(db) : g \in Fields /\ db.field[g].tid # 0
  BY <1>1, RowFacts DEF Editor!Rows
<1>3. \A q \in Editor!Forms : q \in Questionnaires /\ db.form[q] # 0
  BY DEF Editor!Forms
<1>4. \/ p.form \in Editor!Forms /\ p.group = 0
      \/ p.form = 0 /\ p.group \in Editor!Rows(db)
      \/ p.form = 0 /\ p.group = 0
  BY DEF Editor!Places
<1>5. QED BY <1>2, <1>3, <1>4

LEMMA ConditionFacts ==
    /\ \A on \in Editor!Conditions : on \in SUBSET Options
    /\ LinksInv => \A f \in Fields : Editor!ConditionsOf(db, f) \in SUBSET Options
<1>1. \A on \in Editor!Conditions : on \in SUBSET Options
  BY DEF Editor!Conditions
<1>2. ASSUME LinksInv, NEW f \in Fields PROVE Editor!ConditionsOf(db, f) \in SUBSET Options
  <2>1. db.trigger \in SUBSET (Options \X Fields)
    BY <1>2, TableFacts DEF LinksInv, Linked
  <2>2. QED BY <2>1 DEF Editor!ConditionsOf
<1>3. QED BY <1>1, <1>2

\* What was checked of links that lead somewhere makes them the tenant's own.
LEMMA CheckedOwn ==
    ASSUME NEW d \in Editor!Databases, NEW t \in Tenants, NEW r \in Requests, Editor!OwnLinks(d, t, r),
           r.group # 0 => d.field[r.group].tid # 0,
           r.tmpl # 0 => d.field[r.tmpl].tid # 0,
           r.form # 0 => d.form[r.form] # 0
    PROVE  OwnAll(d, t, r)
BY DEF OwnAll, Editor!OwnLinks

\* A row with its tenant left out and conditions added is a request.
LEMMA RequestTyped ==
    ASSUME NEW r, NEW on \in SUBSET Options, r.form \in Questionnaires \cup {0}, r.group \in Fields \cup {0},
           r.tmpl \in Fields \cup {0}, r.inst \in Editor!Kinds, r.voice \in BOOLEAN
    PROVE  LET q == Editor!Request(r, on) IN
           q \in Requests /\ q.form = r.form /\ q.group = r.group /\ q.tmpl = r.tmpl
BY DEF Editor!Request, Requests

\* A row is led from to what is there.
LEMMA RowLinks ==
    ASSUME LinksInv, NEW f \in Fields, db.field[f].tid # 0
    PROVE  LET row == db.field[f] IN
           /\ row \in Editor!Row
           /\ row.inst \in Editor!Kinds /\ row.voice \in BOOLEAN
           /\ row.form \in Questionnaires \cup {0} /\ row.group \in Fields \cup {0} /\ row.tmpl \in Fields \cup {0}
           /\ row.form # 0 => db.form[row.form] # 0
           /\ row.group # 0 => db.field[row.group].tid # 0
           /\ row.tmpl # 0 => db.field[row.tmpl].tid # 0
<1>1. db \in Editor!Databases /\ Linked(db)
  BY DEF LinksInv, Linked
<1>2. db.field[f] \in Editor!Row
  BY <1>1, RowFacts
<1>3. db.field[f].inst \in Editor!Kinds /\ db.field[f].voice \in BOOLEAN
  BY <1>2 DEF Editor!Row
<1>4. QED BY <1>1, <1>2, <1>3, RowFacts, LinkFacts

LEMMA SomeRow ==
    ASSUME LinksInv, NEW f \in Editor!Rows(db)
    PROVE  f \in Fields /\ db.field[f].tid # 0
<1>1. db \in Editor!Databases /\ f \in Fields
  BY DEF LinksInv, Linked, Editor!Rows
<1>2. QED BY <1>1, RowFacts

\* What leads to what is there, and is of some kind and type
Leads(r) ==
    /\ r.form \in Questionnaires \cup {0} /\ r.group \in Fields \cup {0} /\ r.tmpl \in Fields \cup {0}
    /\ r.inst \in Editor!Kinds /\ r.voice \in BOOLEAN
    /\ r.form # 0 => db.form[r.form] # 0
    /\ r.group # 0 => db.field[r.group].tid # 0
    /\ r.tmpl # 0 => db.field[r.tmpl].tid # 0

LEMMA LeadsTo ==
    ASSUME NEW r, NEW on \in SUBSET Options, Leads(r)
    PROVE  LET q == Editor!Request(r, on) IN
           /\ q \in Requests
           /\ q.group # 0 => db.field[q.group].tid # 0
           /\ q.form # 0 => db.form[q.form] # 0
           /\ q.tmpl # 0 => db.field[q.tmpl].tid # 0
BY RequestTyped DEF Leads

\* What the client asks for
LEMMA AskedLeads ==
    ASSUME LinksInv, NEW p \in Editor!Places, NEW m \in Editor!Rows(db) \cup {0}
    PROVE  /\ Leads(Editor!Asked(p, m))
           /\ \A i \in Editor!Kinds : Leads([Editor!Asked(p, m) EXCEPT !.inst = i])
           /\ Leads([Editor!Asked(p, m) EXCEPT !.voice = TRUE])
<1> DEFINE a == Editor!Asked(p, m)
           v == m # 0 /\ db.field[m].voice
           inst == IF m # 0 THEN "reference" ELSE IF p.group # 0 THEN db.field[p.group].inst
                   ELSE IF p.form # 0 THEN "instance" ELSE "template"
<1>1. m # 0 => m \in Fields /\ db.field[m].tid # 0 /\ db.field[m].voice \in BOOLEAN
  BY SomeRow, RowLinks
<1>2. v \in BOOLEAN
  BY <1>1
<1>3. /\ p.form \in Questionnaires \cup {0} /\ p.group \in Fields \cup {0}
      /\ p.form # 0 => db.form[p.form] # 0
      /\ p.group # 0 => db.field[p.group].tid # 0
  BY PlaceFacts
<1>4. p.group # 0 => db.field[p.group].inst \in Editor!Kinds
  BY <1>3, RowLinks
<1>5. inst \in Editor!Kinds
  BY <1>4 DEF Editor!Kinds
<1>6. a = [form |-> p.form, group |-> p.group, tmpl |-> m, voice |-> v, inst |-> inst]
  BY DEF Editor!Asked
<1> HIDE DEF v, inst, a
<1>7. Leads(a)
  BY <1>1, <1>2, <1>3, <1>5, <1>6 DEF Leads
<1>8. ASSUME NEW i \in Editor!Kinds PROVE Leads([a EXCEPT !.inst = i])
  BY <1>1, <1>2, <1>3, <1>6 DEF Leads
<1>9. Leads([a EXCEPT !.voice = TRUE])
  BY <1>1, <1>3, <1>5, <1>6 DEF Leads
<1>10. QED BY <1>7, <1>8, <1>9 DEF a

\* What may be asked for
LEMMA AdditionFacts ==
    ASSUME LinksInv, NEW x \in Editor!Additions
    PROVE  /\ x \in Requests
           /\ x.group # 0 => db.field[x.group].tid # 0
           /\ x.form # 0 => db.form[x.form] # 0
           /\ x.tmpl # 0 => db.field[x.tmpl].tid # 0
<1> DEFINE usual == {Editor!Asked(p, m) : p \in Editor!Places, m \in Editor!Offered}
           top == {p \in Editor!Places : p.group = 0}
           plain == {Editor!Asked(p, 0) : p \in top}
           A == {Editor!Request(r, on) : r \in usual, on \in Editor!Conditions}
           B == {Editor!Request(Editor!Asked(p, m), {}) : p \in top, m \in Editor!Rows(db)}
           C == {Editor!Request([r EXCEPT !.inst = i], {}) : r \in plain, i \in Editor!Kinds}
           D == {Editor!Request([r EXCEPT !.voice = TRUE], {}) : r \in plain}
<1>1. Editor!Offered \subseteq Editor!Rows(db) \cup {0}
  BY DEF Editor!Offered
<1>2. {} \in SUBSET Options /\ \A on \in Editor!Conditions : on \in SUBSET Options
  BY ConditionFacts
<1>3. Editor!Additions = A \cup B \cup C \cup D
  BY DEF Editor!Additions
<1>4. \E r, on : x = Editor!Request(r, on) /\ on \in SUBSET Options /\ Leads(r)
  <2>1. CASE x \in A
    <3>1. PICK p \in Editor!Places, m \in Editor!Offered, on \in Editor!Conditions :
               x = Editor!Request(Editor!Asked(p, m), on)
      BY <2>1
    <3>2. Leads(Editor!Asked(p, m))
      BY <1>1, AskedLeads
    <3>3. QED BY <1>2, <3>1, <3>2
  <2>2. CASE x \in B
    <3>1. PICK p \in Editor!Places, m \in Editor!Rows(db) : x = Editor!Request(Editor!Asked(p, m), {})
      BY <2>2
    <3>2. Leads(Editor!Asked(p, m))
      BY AskedLeads
    <3>3. QED BY <1>2, <3>1, <3>2
  <2>3. CASE x \in C
    <3>1. PICK p \in Editor!Places, i \in Editor!Kinds :
               x = Editor!Request([Editor!Asked(p, 0) EXCEPT !.inst = i], {})
      BY <2>3
    <3>2. QED BY <1>2, <3>1, AskedLeads
  <2>4. CASE x \in D
    <3>1. PICK p \in Editor!Places : x = Editor!Request([Editor!Asked(p, 0) EXCEPT !.voice = TRUE], {})
      BY <2>4
    <3>2. QED BY <1>2, <3>1, AskedLeads
  <2> HIDE DEF A, B, C, D
  <2>5. QED BY <1>3, <2>1, <2>2, <2>3, <2>4
<1>5. QED BY <1>4, LeadsTo

LEMMA CreateBeginLinks ==
    ASSUME LinksInv, NEW w \in Workers, NEW t \in Tenants, Editor!CreateBegin(w, t) PROVE LinksInv'
<1>1. PICK r \in Editor!Additions :
        /\ Editor!Associable(db, t, 0, r)
        /\ Editor!Begin(w, [op |-> "create", tid |-> t, r |-> r, seen |-> db])
  BY DEF Editor!CreateBegin
<1> DEFINE b == [op |-> "create", tid |-> t, r |-> r, seen |-> db]
<1>2. db \in Editor!Databases
  BY DEF LinksInv, Linked
<1>3. Editor!OwnLinks(db, t, r) /\ Editor!NestsWell(db, t, 0, r.group)
  BY <1>1 DEF Editor!Associable
<1>4. r \in Requests /\ OwnAll(db, t, r)
  BY <1>2, <1>3, AdditionFacts, CheckedOwn
<1>5. Linked(b.seen) /\ Since(b.seen, db, fresh)
  BY SinceNow DEF LinksInv
<1>6. Creating(b)
  BY <1>3, <1>4 DEF Creating
<1>7. Busily(b, db, fresh)
  BY <1>5, <1>6 DEF Busily
<1>8. QED BY <1>1, <1>7, BeginLinks

\* What is asked for in an update: another place, template, kind or type, or what
\* the field has.
LEMMA EditFacts ==
    ASSUME LinksInv, NEW f \in Fields, db.field[f].tid # 0, NEW e \in Editor!Edits(f)
    PROVE  /\ e.r \in Requests
           /\ e.r.group # 0 => db.field[e.r.group].tid # 0
           /\ e.r.form # 0 => db.form[e.r.form] # 0
           /\ e.r.tmpl # 0 => db.field[e.r.tmpl].tid # 0
<1> DEFINE row == db.field[f]
           Other(r) == \/ r = row \/ r = [row EXCEPT !.voice = ~@]
                       \/ \E p \in Editor!Places : r = [row EXCEPT !.form = p.form, !.group = p.group]
                       \/ \E m \in Editor!Offered : r = [row EXCEPT !.tmpl = m]
                       \/ \E i \in Editor!Kinds : r = [row EXCEPT !.inst = i]
<1>1. \E r, on : /\ e.r = Editor!Request(r, on) /\ Other(r)
                 /\ on \in Editor!Conditions \/ on = Editor!ConditionsOf(db, f)
  <2> DEFINE all == IF row.inst = "reference" THEN {} ELSE Editor!Range(Editor!ShownOptions(db, f))
             here == Editor!ConditionsOf(db, f)
             edit(r, conditions, keep, add) == [r |-> Editor!Request(r, conditions), keep |-> keep, add |-> add]
             other == {[row EXCEPT !.form = p.form, !.group = p.group] : p \in Editor!Places}
                      \cup {[row EXCEPT !.tmpl = m] : m \in Editor!Offered}
                      \cup {[row EXCEPT !.inst = i] : i \in Editor!Kinds} \cup {[row EXCEPT !.voice = ~@]}
  <2>1. \A r \in other \cup {row} : Other(r)
    OBVIOUS
  <2>2. Editor!Edits(f) = {edit(r, here, all, FALSE) : r \in other}
                          \cup {edit(row, conditions, all, FALSE) : conditions \in Editor!Conditions}
                          \cup {edit(row, here, keep, row.inst # "reference") : keep \in SUBSET all}
                          \cup {edit(row, here, keep, FALSE) : keep \in SUBSET all}
    BY DEF Editor!Edits
  <2> HIDE DEF other, Other, all, here, row
  <2>3. \E r \in other \cup {row} : \E on \in Editor!Conditions \cup {here} : e.r = Editor!Request(r, on)
    BY <2>2
  <2>4. QED BY <2>1, <2>3 DEF here
<1> HIDE DEF Other
<1>2. PICK r, on : /\ e.r = Editor!Request(r, on) /\ Other(r)
                   /\ on \in Editor!Conditions \/ on = Editor!ConditionsOf(db, f)
  BY <1>1
<1>3. on \in SUBSET Options
  BY <1>2, ConditionFacts
<1>4. /\ row = [tid |-> row.tid, inst |-> row.inst, form |-> row.form, group |-> row.group,
                tmpl |-> row.tmpl, voice |-> row.voice]
      /\ Leads(row)
  BY RowLinks DEF Leads, Editor!Row
<1>5. ASSUME NEW p \in Editor!Places PROVE Leads([row EXCEPT !.form = p.form, !.group = p.group])
  <2> HIDE DEF row
  <2>1. QED BY <1>4, PlaceFacts DEF Leads
<1>6. ASSUME NEW m \in Editor!Offered PROVE Leads([row EXCEPT !.tmpl = m])
  <2>1. m # 0 => m \in Fields /\ db.field[m].tid # 0
    BY SomeRow DEF Editor!Offered
  <2> HIDE DEF row
  <2>2. QED BY <1>4, <2>1 DEF Leads
<1>7. ASSUME NEW i \in Editor!Kinds PROVE Leads([row EXCEPT !.inst = i])
  <2> HIDE DEF row
  <2>1. QED BY <1>4 DEF Leads
<1>8. Leads([row EXCEPT !.voice = ~@])
  <2> HIDE DEF row
  <2>1. QED BY <1>4 DEF Leads
<1>9. Leads(r)
  <2> HIDE DEF row
  <2>1. QED BY <1>2, <1>4, <1>5, <1>6, <1>7, <1>8 DEF Other
<1>10. QED BY <1>2, <1>3, <1>9, LeadsTo

LEMMA UpdateBeginLinks ==
    ASSUME LinksInv, NEW w \in Workers, NEW t \in Tenants, Editor!UpdateBegin(w, t) PROVE LinksInv'
<1>1. PICK f \in Editor!Rows(db) : /\ db.field[f].tid = t
        /\ \E e \in Editor!Edits(f) :
             /\ Editor!Associable(db, t, f, e.r)
             /\ Editor!Begin(w, [op |-> "update", tid |-> t, f |-> f, r |-> e.r, keep |-> e.keep,
                                 add |-> e.add, seen |-> db])
  BY DEF Editor!UpdateBegin
<1>2. PICK e \in Editor!Edits(f) :
             /\ Editor!Associable(db, t, f, e.r)
             /\ Editor!Begin(w, [op |-> "update", tid |-> t, f |-> f, r |-> e.r, keep |-> e.keep,
                                 add |-> e.add, seen |-> db])
  BY <1>1
<1> DEFINE r == e.r
           b == [op |-> "update", tid |-> t, f |-> f, r |-> e.r, keep |-> e.keep, add |-> e.add, seen |-> db]
<1>3. db \in Editor!Databases /\ Linked(db) /\ f \in Fields /\ t # 0
  BY Parameters DEF LinksInv, Linked, Editor!Rows
<1>4. /\ r \in Requests
      /\ r.group # 0 => db.field[r.group].tid # 0
      /\ r.form # 0 => db.form[r.form] # 0
      /\ r.tmpl # 0 => db.field[r.tmpl].tid # 0
  BY <1>1, <1>3, EditFacts
<1>5. Editor!OwnLinks(db, t, r) /\ Editor!NestsWell(db, t, f, r.group)
  BY <1>2 DEF Editor!Associable
<1>6. OwnAll(db, t, r)
  <2> HIDE DEF r
  <2>1. QED BY <1>3, <1>4, <1>5, CheckedOwn
<1>7. Linked(b.seen) /\ Since(b.seen, db, fresh)
  BY SinceNow DEF LinksInv
<1>8. Updating(b)
  BY <1>1, <1>3, <1>4, <1>5, <1>6 DEF Updating
<1>9. Busily(b, db, fresh)
  BY <1>7, <1>8 DEF Busily
<1>10. QED BY <1>2, <1>9, BeginLinks

LEMMA DuplicateBeginLinks ==
    ASSUME LinksInv, NEW w \in Workers, NEW t \in Tenants, Editor!DuplicateBegin(w, t) PROVE LinksInv'
<1>1. PICK q \in Questionnaires :
        /\ db.form[q] \in {Root, t}
        /\ Editor!Begin(w, [op |-> "duplicate", tid |-> t, q |-> q, seen |-> db])
  BY DEF Editor!DuplicateBegin
<1> DEFINE b == [op |-> "duplicate", tid |-> t, q |-> q, seen |-> db]
<1>2. Linked(b.seen) /\ Since(b.seen, db, fresh)
  BY SinceNow DEF LinksInv
<1>3. Duplicating(b)
  BY <1>1, Parameters DEF Duplicating
<1>4. Busily(b, db, fresh)
  BY <1>2, <1>3 DEF Busily
<1>5. QED BY <1>1, <1>4, BeginLinks

LEMMA StayWalk ==
    ASSUME NEW d, NEW T
    PROVE  \E w \in [0 .. Editor!Cardinality(Fields) -> SUBSET T] :
             /\ w[0] = T
             /\ \A i \in 1 .. Editor!Cardinality(Fields) : w[i] = Editor!Kept(d, w[i - 1])
             /\ Editor!Stay(d, T) = w[Editor!Cardinality(Fields)]
<1> DEFINE n == Editor!Cardinality(Fields)
           base == T
           step == [p \in (1 .. n) \X SUBSET T |-> Editor!Kept(d, p[2])]
           Good(g) == g = [i \in 0 .. n |-> IF i = 0 THEN base ELSE Editor!Kept(d, g[i - 1])]
           w == CHOOSE g : Good(g)
<1>1. n \in Nat /\ base \in SUBSET T
  BY Parameters
<1>2. \A i \in 1 .. n : \A x \in SUBSET T : Editor!Kept(d, x) \in SUBSET T
  BY DEF Editor!Kept
<1>3. step \in Steps(n, SUBSET T)
  BY <1>2 DEF Steps
<1>4. PICK g \in Walks(n, SUBSET T) : Follows(g, n, base, step)
  <2> HIDE DEF step, n, base
  <2> QED BY <1>1, <1>3, Recursion
<1>5. \A i \in 0 .. n : g[i] = IF i = 0 THEN base ELSE Editor!Kept(d, g[i - 1])
  <2> SUFFICES ASSUME NEW i \in 0 .. n PROVE g[i] = IF i = 0 THEN base ELSE Editor!Kept(d, g[i - 1])
    OBVIOUS
  <2>1. CASE i = 0
    BY <1>4, <2>1 DEF Follows
  <2>2. CASE i # 0
    <3>1. i \in 1 .. n /\ i - 1 \in 0 .. n
      BY <1>1, <2>2
    <3>2. g[i - 1] \in SUBSET T /\ g[i] = step[<<i, g[i - 1]>>]
      BY <1>4, <3>1 DEF Walks, Follows
    <3>3. <<i, g[i - 1]>> \in (1 .. n) \X SUBSET T
      BY <3>1, <3>2
    <3>4. QED BY <2>2, <3>2, <3>3
  <2>3. QED BY <2>1, <2>2
<1>6. Good(g)
  <2> HIDE DEF base, step
  <2> QED BY <1>4, <1>5 DEF Walks
<1>7. Good(w)
  BY <1>6
<1>8. Editor!Stay(d, T) = w[Editor!Cardinality(Fields)]
  BY DEF Editor!Stay
<1> HIDE DEF w
<1>9. w = [i \in 0 .. n |-> w[i]] /\ \A i \in 0 .. n : w[i] = IF i = 0 THEN base ELSE Editor!Kept(d, w[i - 1])
  <2> HIDE DEF base
  <2>1. \A i \in 0 .. n : w[i] = IF i = 0 THEN base ELSE Editor!Kept(d, w[i - 1])
    BY <1>7
  <2>2. QED BY <1>7, <2>1
<1>10. w[0] = base /\ \A i \in 1 .. n : w[i] = Editor!Kept(d, w[i - 1])
  <2>1. 0 \in 0 .. n /\ \A i \in 1 .. n : i \in 0 .. n /\ i # 0
    BY <1>1
  <2> HIDE DEF base
  <2> QED BY <1>9, <2>1
<1>11. \A i \in 0 .. n : w[i] \in SUBSET T
  <2> DEFINE Typed == {i \in Nat : w[i] \in SUBSET T}
  <2>1. 0 \in Typed
    BY <1>1, <1>10
  <2>2. ASSUME NEW i \in 1 .. n, i - 1 \in Typed PROVE i \in Typed
    BY <1>2, <1>10, <2>2
  <2> HIDE DEF Typed
  <2>3. 0 .. n \subseteq Typed
    BY <1>1, <2>1, <2>2, Upwards
  <2>4. QED BY <2>3 DEF Typed
<1>12. QED BY <1>8, <1>9, <1>10, <1>11

\* What the cascade leaves is what was there.
LEMMA CascadeFacts ==
    ASSUME NEW d \in Editor!Databases
    PROVE  LET e == Editor!Cascaded(d) IN
           /\ e \in Editor!Databases
           /\ \A f \in Fields : e.field[f] \in {d.field[f], Editor!Gone}
           /\ \A o \in Options : e.option[o] # 0 => e.option[o] = d.option[o] /\ e.field[d.option[o]].tid # 0
           /\ e.trigger \subseteq d.trigger
           /\ e.form = d.form /\ e.context = d.context
<1> DEFINE stay == Editor!Stay(d, {f \in Editor!Rows(d) : d.field[f].form # 0 => d.form[d.field[f].form] # 0})
           field == [f \in Fields |-> IF f \in stay THEN d.field[f] ELSE Editor!Gone]
           option == [o \in Options |-> IF d.option[o] \in stay THEN d.option[o] ELSE 0]
           trigger == {t \in d.trigger : t[2] \in stay /\ option[t[1]] # 0}
           e == Editor!Cascaded(d)
<1>1. e = Editor!Database(field, option, trigger, d.form, d.context)
  BY DEF Editor!Cascaded
<1>0. stay \subseteq Editor!Rows(d)
  BY StayWalk, Parameters
<1> HIDE DEF stay
<1>2. field \in [Fields -> Editor!Row \cup {Editor!Gone}] /\ option \in [Options -> Fields \cup {0}]
  BY DEF Editor!Databases
<1>3. trigger \in SUBSET (Options \X Fields)
  BY DEF Editor!Databases
<1>4. /\ d.form \in [Questionnaires -> Tenants \cup {0}]
      /\ d.context \in [Tenants -> [main : Questionnaires \cup {0}, extra : Questionnaires \cup {0}]]
  BY TableFacts
<1>5. /\ e \in Editor!Databases
      /\ e.field = field /\ e.option = option /\ e.trigger = trigger /\ e.form = d.form /\ e.context = d.context
  <2> HIDE DEF field, option, trigger
  <2>1. QED BY <1>1, <1>2, <1>3, <1>4, TablesTyped
<1>6. \A o \in Options : d.option[o] \in Fields \cup {0}
  BY TableFacts
<1>7. \A o \in Options : option[o] # 0 => option[o] = d.option[o] /\ field[d.option[o]].tid # 0
  BY <1>0, <1>6, RowFacts DEF Editor!Rows
<1>8. QED BY <1>5, <1>7

\* The links of what is left of d are sound where d is in line with a database whose
\* links are.
InLine(d, b) ==
    /\ \A f \in Fields : d.field[f].tid # 0 =>
         /\ d.field[f].tid = b.field[f].tid
         /\ d.field[f].group # 0 => b.field[d.field[f].group].tid \in {0, d.field[f].tid}
         /\ d.field[f].tmpl # 0 => b.field[d.field[f].tmpl].tid \in {0, Root, d.field[f].tid}
         /\ d.field[f].form # 0 => d.form[d.field[f].form] \in {0, d.field[f].tid}
    /\ \A t \in d.trigger : d.option[t[1]] # 0 =>
         d.option[t[1]] \in Fields /\ b.field[d.option[t[1]]].tid = b.field[t[2]].tid

LEMMA CascadeLinked ==
    ASSUME NEW d \in Editor!Databases, NEW b, InLine(d, b), Editor!Referenced(Editor!Cascaded(d))
    PROVE  Linked(Editor!Cascaded(d))
<1> DEFINE e == Editor!Cascaded(d)
<1>0. /\ e \in Editor!Databases
      /\ \A f \in Fields : e.field[f] \in {d.field[f], Editor!Gone}
      /\ \A o \in Options : e.option[o] # 0 => e.option[o] = d.option[o] /\ e.field[d.option[o]].tid # 0
      /\ e.trigger \subseteq d.trigger
      /\ e.form = d.form
  BY CascadeFacts
<1>1. Editor!Referenced(e)
  OBVIOUS
<1> HIDE DEF e
<1>2. \A f \in Fields : e.field[f].tid # 0 => e.field[f] = d.field[f]
  BY <1>0 DEF Editor!Gone
<1>3. ASSUME NEW f \in Editor!Rows(e)
      PROVE  /\ e.field[f].group # 0 => e.field[e.field[f].group].tid = e.field[f].tid
             /\ e.field[f].form # 0 => e.form[e.field[f].form] = e.field[f].tid
             /\ e.field[f].tmpl # 0 => e.field[e.field[f].tmpl].tid \in {Root, e.field[f].tid}
  <2>1. f \in Fields /\ e.field[f].tid # 0
    BY <1>0, RowFacts DEF Editor!Rows
  <2>2. e.field[f] = d.field[f]
    BY <1>2, <2>1
  <2>3. /\ e.field[f].group \in Fields \cup {0} /\ e.field[f].tmpl \in Fields \cup {0}
    BY <1>0, <2>1, RowFacts
  <2>4. /\ e.field[f].group # 0 => Editor!There(e, e.field[f].group)
        /\ e.field[f].tmpl # 0 => Editor!There(e, e.field[f].tmpl)
        /\ e.field[f].form # 0 => e.form[e.field[f].form] # 0
    BY <1>1, <1>3 DEF Editor!Referenced
  <2>5. /\ e.field[f].group # 0 => e.field[e.field[f].group].tid # 0
        /\ e.field[f].tmpl # 0 => e.field[e.field[f].tmpl].tid # 0
    BY <1>0, <2>3, <2>4, RowFacts
  <2>6. /\ e.field[f].group # 0 => d.field[e.field[f].group].tid = b.field[e.field[f].group].tid
        /\ e.field[f].tmpl # 0 => d.field[e.field[f].tmpl].tid = b.field[e.field[f].tmpl].tid
    BY <1>2, <2>3, <2>5 DEF InLine
  <2>7. /\ e.field[f].group # 0 => e.field[e.field[f].group] = d.field[e.field[f].group]
        /\ e.field[f].tmpl # 0 => e.field[e.field[f].tmpl] = d.field[e.field[f].tmpl]
    BY <1>2, <2>3, <2>5
  <2>8. /\ d.field[f].group # 0 => b.field[d.field[f].group].tid \in {0, d.field[f].tid}
        /\ d.field[f].tmpl # 0 => b.field[d.field[f].tmpl].tid \in {0, Root, d.field[f].tid}
        /\ d.field[f].form # 0 => d.form[d.field[f].form] \in {0, d.field[f].tid}
    BY <2>1, <2>2 DEF InLine
  <2>9. QED BY <1>0, <2>2, <2>4, <2>5, <2>6, <2>7, <2>8
<1>4. ASSUME NEW t \in e.trigger PROVE e.field[e.option[t[1]]].tid = e.field[t[2]].tid
  <2>1. t \in d.trigger /\ t[1] \in Options /\ t[2] \in Fields
    BY <1>0, TableFacts
  <2>2. e.option[t[1]] # 0 /\ Editor!There(e, t[2])
    BY <1>1 DEF Editor!Referenced
  <2>3. e.option[t[1]] = d.option[t[1]] /\ e.field[d.option[t[1]]].tid # 0
    BY <1>0, <2>1, <2>2
  <2>4. e.field[t[2]].tid # 0 /\ e.field[t[2]] = d.field[t[2]]
    BY <1>0, <1>2, <2>1, <2>2, RowFacts
  <2>5. d.option[t[1]] \in Fields /\ b.field[d.option[t[1]]].tid = b.field[t[2]].tid
    BY <2>1, <2>2, <2>3 DEF InLine
  <2>6. e.field[d.option[t[1]]] = d.field[d.option[t[1]]]
    BY <1>2, <2>3, <2>5
  <2>7. d.field[d.option[t[1]]].tid = b.field[d.option[t[1]]].tid /\ d.field[t[2]].tid = b.field[t[2]].tid
    BY <2>1, <2>3, <2>4, <2>5, <2>6 DEF InLine
  <2>8. QED BY <2>3, <2>4, <2>5, <2>6, <2>7
<1>5. Editor!Apart(e)
  BY <1>3, <1>4 DEF Editor!Apart
<1>6. QED BY <1>0, <1>1, <1>5 DEF Linked, e

\* What is left of the rows was there before.
LEMMA CascadeNumbers ==
    ASSUME NEW d \in Editor!Databases, NEW b, NEW n, NEW m \in Numbers, InLine(d, b), Numbered(b, n),
           n.field = m.field, n.form = m.form,
           \A q \in Questionnaires : d.form[q] \in {0, b.form[q]},
           \A o \in Options : d.option[o] # 0 => o <= m.option
    PROVE  /\ Numbered(Editor!Cascaded(d), m)
           /\ Succeeds(b, n, Editor!Cascaded(d), m)
<1> DEFINE e == Editor!Cascaded(d)
<1>0. /\ e \in Editor!Databases
      /\ \A f \in Fields : e.field[f] \in {d.field[f], Editor!Gone}
      /\ \A o \in Options : e.option[o] # 0 => e.option[o] = d.option[o]
      /\ e.form = d.form
  BY CascadeFacts
<1> HIDE DEF e
<1>1. \A f \in Fields : e.field[f].tid # 0 => e.field[f].tid = d.field[f].tid
  BY <1>0 DEF Editor!Gone
<1>2. \A f \in Fields : e.field[f].tid # 0 => e.field[f].tid = b.field[f].tid
  BY <1>1 DEF InLine
<1>3. Numbered(e, m)
  BY <1>0, <1>2 DEF Numbered
<1>4. n.field <= m.field /\ n.form <= m.form
  BY DEF Numbers
<1>5. Succeeds(b, n, e, m)
  BY <1>0, <1>2, <1>4 DEF Succeeds
<1>6. QED BY <1>3, <1>5 DEF e

LEMMA DeleteFieldLinks ==
    ASSUME LinksInv, NEW w \in Workers, NEW t \in Tenants, Editor!DeleteField(w, t) PROVE LinksInv'
<1>1. PICK f \in Editor!Rows(db) :
        /\ Editor!AtOnce(w, Editor!Cascaded(Editor!Database([db.field EXCEPT ![f] = Editor!Gone], db.option,
                                                            db.trigger, db.form, db.context)))
        /\ UNCHANGED fresh
  BY DEF Editor!DeleteField
<1> DEFINE field == [db.field EXCEPT ![f] = Editor!Gone]
           d == Editor!Database(field, db.option, db.trigger, db.form, db.context)
<1>2. Linked(db) /\ Numbered(db, fresh) /\ db \in Editor!Databases
  BY DEF LinksInv, Linked
<1>3. field \in [Fields -> Editor!Row \cup {Editor!Gone}]
  BY <1>2 DEF Editor!Databases
<1>4. /\ d \in Editor!Databases
      /\ d.field = field /\ d.option = db.option /\ d.trigger = db.trigger /\ d.form = db.form
  <2> HIDE DEF field
  <2>1. /\ db.field \in [Fields -> Editor!Row \cup {Editor!Gone}] /\ db.option \in [Options -> Fields \cup {0}]
        /\ db.trigger \in SUBSET (Options \X Fields) /\ db.form \in [Questionnaires -> Tenants \cup {0}]
        /\ db.context \in [Tenants -> [main : Questionnaires \cup {0}, extra : Questionnaires \cup {0}]]
    BY <1>2, TableFacts
  <2>2. QED BY <1>3, <2>1, TablesTyped
<1>5. \A g \in Fields : d.field[g].tid # 0 => d.field[g] = db.field[g]
  BY <1>2, <1>4, TableFacts DEF Editor!Gone
<1> HIDE DEF d, field
<1>6. InLine(d, db)
  <2>1. ASSUME NEW g \in Fields, d.field[g].tid # 0
        PROVE  /\ d.field[g].tid = db.field[g].tid
               /\ d.field[g].group # 0 => db.field[d.field[g].group].tid \in {0, d.field[g].tid}
               /\ d.field[g].tmpl # 0 => db.field[d.field[g].tmpl].tid \in {0, Root, d.field[g].tid}
               /\ d.field[g].form # 0 => d.form[d.field[g].form] \in {0, d.field[g].tid}
    BY <1>2, <1>4, <1>5, <2>1, LinkFacts
  <2>2. ASSUME NEW x \in d.trigger, d.option[x[1]] # 0
        PROVE  d.option[x[1]] \in Fields /\ db.field[d.option[x[1]]].tid = db.field[x[2]].tid
    BY <1>2, <1>4, <2>2, TriggerFacts
  <2>3. QED BY <2>1, <2>2 DEF InLine
<1>7. /\ db' = Editor!Cascaded(d) /\ Editor!Referenced(Editor!Cascaded(d)) /\ fresh' = fresh
      /\ DOMAIN editing' = Workers /\ \A v \in Workers : editing'[v] \in {editing[v], Editor!Idle}
  <2>1. Editor!AtOnce(w, Editor!Cascaded(d))
    BY <1>1 DEF d, field
  <2>2. QED BY <1>1, <2>1, CommitsAtOnce
<1>8. Linked(db')
  BY <1>4, <1>6, <1>7, CascadeLinked
<1>9. Numbered(db', fresh') /\ Succeeds(db, fresh, db', fresh')
  <2>1. fresh \in Numbers /\ \A o \in Options : d.option[o] # 0 => o <= fresh.option
    BY <1>2, <1>4 DEF Numbered
  <2>2. \A q \in Questionnaires : d.form[q] \in {0, db.form[q]}
    BY <1>4
  <2>3. QED BY <1>2, <1>4, <1>6, <1>7, <2>1, <2>2, CascadeNumbers
<1>10. QED BY <1>7, <1>8, <1>9, EndLinks

LEMMA DeleteFormLinks ==
    ASSUME LinksInv, NEW w \in Workers, NEW t \in Tenants, Editor!DeleteForm(w, t) PROVE LinksInv'
<1>1. PICK q \in Questionnaires :
        /\ Editor!AtOnce(w, Editor!Cascaded(Editor!Database(db.field, db.option, db.trigger,
                                                            [db.form EXCEPT ![q] = 0], db.context)))
        /\ UNCHANGED fresh
  BY DEF Editor!DeleteForm
<1> DEFINE form == [db.form EXCEPT ![q] = 0]
           d == Editor!Database(db.field, db.option, db.trigger, form, db.context)
<1>2. Linked(db) /\ Numbered(db, fresh) /\ db \in Editor!Databases
  BY DEF LinksInv, Linked
<1>3. form \in [Questionnaires -> Tenants \cup {0}] /\ db.field \in [Fields -> Editor!Row \cup {Editor!Gone}]
  BY <1>2 DEF Editor!Databases
<1>4. /\ d \in Editor!Databases
      /\ d.field = db.field /\ d.option = db.option /\ d.trigger = db.trigger /\ d.form = form
  <2> HIDE DEF form
  <2>1. /\ db.field \in [Fields -> Editor!Row \cup {Editor!Gone}] /\ db.option \in [Options -> Fields \cup {0}]
        /\ db.trigger \in SUBSET (Options \X Fields) /\ db.form \in [Questionnaires -> Tenants \cup {0}]
        /\ db.context \in [Tenants -> [main : Questionnaires \cup {0}, extra : Questionnaires \cup {0}]]
    BY <1>2, TableFacts
  <2>2. QED BY <1>3, <2>1, TablesTyped
<1>5. \A p \in Questionnaires : d.form[p] \in {0, db.form[p]}
  BY <1>2, <1>4, TableFacts
<1> HIDE DEF d, form
<1>6. InLine(d, db)
  <2>1. ASSUME NEW g \in Fields, d.field[g].tid # 0
        PROVE  /\ d.field[g].tid = db.field[g].tid
               /\ d.field[g].group # 0 => db.field[d.field[g].group].tid \in {0, d.field[g].tid}
               /\ d.field[g].tmpl # 0 => db.field[d.field[g].tmpl].tid \in {0, Root, d.field[g].tid}
               /\ d.field[g].form # 0 => d.form[d.field[g].form] \in {0, d.field[g].tid}
    BY <1>2, <1>4, <1>5, <2>1, LinkFacts
  <2>2. ASSUME NEW x \in d.trigger, d.option[x[1]] # 0
        PROVE  d.option[x[1]] \in Fields /\ db.field[d.option[x[1]]].tid = db.field[x[2]].tid
    BY <1>2, <1>4, <2>2, TriggerFacts
  <2>3. QED BY <2>1, <2>2 DEF InLine
<1>7. /\ db' = Editor!Cascaded(d) /\ Editor!Referenced(Editor!Cascaded(d)) /\ fresh' = fresh
      /\ DOMAIN editing' = Workers /\ \A v \in Workers : editing'[v] \in {editing[v], Editor!Idle}
  <2>1. Editor!AtOnce(w, Editor!Cascaded(d))
    BY <1>1 DEF d, form
  <2>2. QED BY <1>1, <2>1, CommitsAtOnce
<1>8. Linked(db')
  BY <1>4, <1>6, <1>7, CascadeLinked
<1>9. Numbered(db', fresh') /\ Succeeds(db, fresh, db', fresh')
  <2>1. fresh \in Numbers /\ \A o \in Options : d.option[o] # 0 => o <= fresh.option
    BY <1>2, <1>4 DEF Numbered
  <2>2. QED BY <1>2, <1>4, <1>5, <1>6, <1>7, <2>1, CascadeNumbers
<1>10. QED BY <1>7, <1>8, <1>9, EndLinks

\* A change that leaves the rows alone, and at most adds questionnaires.
LEMMA SameRows ==
    ASSUME LinksInv, NEW e \in Editor!Databases, NEW m \in Numbers, Editor!Referenced(e),
           e.field = db.field, e.option = db.option, e.trigger = db.trigger,
           m.field = fresh.field, m.option = fresh.option, fresh.form <= m.form,
           \A q \in Questionnaires : \/ e.form[q] = db.form[q]
                                     \/ db.form[q] = 0 /\ fresh.form < q /\ q <= m.form
    PROVE  Linked(e) /\ Numbered(e, m) /\ Succeeds(db, fresh, e, m)
<1>1. Linked(db) /\ Numbered(db, fresh) /\ db \in Editor!Databases
  BY DEF LinksInv, Linked
<1>2. fresh.form \in Nat /\ m.form \in Nat /\ \A q \in Questionnaires : q \in Nat
  BY <1>1, Parameters DEF Numbered, Numbers
<1>3. ASSUME NEW f \in Editor!Rows(e)
      PROVE  /\ e.field[f].group # 0 => e.field[e.field[f].group].tid = e.field[f].tid
             /\ e.field[f].form # 0 => e.form[e.field[f].form] = e.field[f].tid
             /\ e.field[f].tmpl # 0 => e.field[e.field[f].tmpl].tid \in {Root, e.field[f].tid}
  <2>1. f \in Fields /\ db.field[f].tid # 0
    BY RowFacts DEF Editor!Rows
  <2>2. db.field[f].form # 0 => db.field[f].form \in Questionnaires /\ db.form[db.field[f].form] # 0
    BY <1>1, <2>1, LinkFacts
  <2>3. db.field[f].form # 0 => e.form[db.field[f].form] = db.form[db.field[f].form]
    BY <2>2
  <2>4. QED BY <1>1, <2>1, <2>3, LinkFacts
<1>4. \A t \in e.trigger : e.field[e.option[t[1]]].tid = e.field[t[2]].tid
  BY <1>1, TriggerFacts
<1>5. Linked(e)
  BY <1>3, <1>4 DEF Linked, Editor!Apart
<1>6. ASSUME NEW q \in Questionnaires, e.form[q] # 0 PROVE q <= m.form
  <2>1. CASE e.form[q] = db.form[q]
    <3>1. q <= fresh.form /\ q \in Nat
      BY <1>1, <1>2, <1>6, <2>1 DEF Numbered
    <3>2. QED BY <1>2, <3>1
  <2>2. QED BY <2>1
<1>7. Numbered(e, m)
  BY <1>1, <1>6 DEF Numbered
<1>8. \A q \in Questionnaires : q <= fresh.form => e.form[q] \in {0, db.form[q]}
  BY <1>2
<1>9. fresh.field <= m.field
  BY <1>1 DEF Numbered, Numbers
<1>10. Succeeds(db, fresh, e, m)
  BY <1>8, <1>9 DEF Succeeds
<1>11. QED BY <1>5, <1>7, <1>10

LEMMA CreateFormLinks ==
    ASSUME LinksInv, NEW w \in Workers, NEW t \in Tenants, Editor!CreateForm(w, t) PROVE LinksInv'
<1> DEFINE q == fresh.form + 1
           form == [db.form EXCEPT ![q] = t]
           e == Editor!Database(db.field, db.option, db.trigger, form, db.context)
<1>1. q \in Questionnaires /\ Editor!AtOnce(w, e) /\ fresh' = [fresh EXCEPT !.form = @ + 1]
  BY DEF Editor!CreateForm
<1>2. Linked(db) /\ Numbered(db, fresh) /\ db \in Editor!Databases /\ fresh \in Numbers
  BY DEF LinksInv, Linked, Numbered
<1>3. form \in [Questionnaires -> Tenants \cup {0}] /\ db.field \in [Fields -> Editor!Row \cup {Editor!Gone}]
  BY <1>2 DEF Editor!Databases
<1>4. /\ e \in Editor!Databases
      /\ e.field = db.field /\ e.option = db.option /\ e.trigger = db.trigger /\ e.form = form
  <2> HIDE DEF form
  <2>1. /\ db.field \in [Fields -> Editor!Row \cup {Editor!Gone}] /\ db.option \in [Options -> Fields \cup {0}]
        /\ db.trigger \in SUBSET (Options \X Fields) /\ db.form \in [Questionnaires -> Tenants \cup {0}]
        /\ db.context \in [Tenants -> [main : Questionnaires \cup {0}, extra : Questionnaires \cup {0}]]
    BY <1>2, TableFacts
  <2>2. QED BY <1>3, <2>1, TablesTyped
<1>5. /\ fresh' \in Numbers /\ fresh'.form = fresh.form + 1
      /\ fresh'.field = fresh.field /\ fresh'.option = fresh.option
  BY <1>1, <1>2 DEF Numbers
<1>6. fresh.form <= fresh'.form /\ fresh.form < q /\ q <= fresh'.form
  BY <1>2, <1>5 DEF Numbers
<1>7. \A p \in Questionnaires : \/ e.form[p] = db.form[p]
                                \/ db.form[p] = 0 /\ fresh.form < p /\ p <= fresh'.form
  <2>1. db.form[q] = 0
    <3>1. ~(q <= fresh.form)
      BY <1>2 DEF Numbers
    <3>2. QED BY <1>1, <1>2, <3>1 DEF Numbered
  <2>2. \A p \in Questionnaires : p # q => e.form[p] = db.form[p]
    BY <1>2, <1>4, TableFacts
  <2>3. QED BY <1>6, <2>1, <2>2
<1> HIDE DEF e
<1>8. /\ db' = e /\ Editor!Referenced(e)
      /\ DOMAIN editing' = Workers /\ \A v \in Workers : editing'[v] \in {editing[v], Editor!Idle}
  BY <1>1, CommitsAtOnce
<1>9. Linked(e) /\ Numbered(e, fresh') /\ Succeeds(db, fresh, e, fresh')
  BY <1>4, <1>5, <1>6, <1>7, <1>8, SameRows
<1>10. QED BY <1>8, <1>9, EndLinks

LEMMA SetContextLinks ==
    ASSUME LinksInv, NEW w \in Workers, NEW t \in Tenants, Editor!SetContext(w, t) PROVE LinksInv'
<1>1. PICK main \in Editor!Forms, extra \in Editor!Forms \cup {0} :
        /\ Editor!AtOnce(w, Editor!Database(db.field, db.option, db.trigger, db.form,
                               [db.context EXCEPT ![t] = [main |-> main, extra |-> extra]]))
        /\ UNCHANGED fresh
  BY DEF Editor!SetContext
<1> DEFINE context == [db.context EXCEPT ![t] = [main |-> main, extra |-> extra]]
           e == Editor!Database(db.field, db.option, db.trigger, db.form, context)
<1>2. Linked(db) /\ Numbered(db, fresh) /\ db \in Editor!Databases /\ fresh \in Numbers
  BY DEF LinksInv, Linked, Numbered
<1>3. main \in Questionnaires /\ extra \in Questionnaires \cup {0}
  BY DEF Editor!Forms
<1>4. /\ context \in [Tenants -> [main : Questionnaires \cup {0}, extra : Questionnaires \cup {0}]]
      /\ db.field \in [Fields -> Editor!Row \cup {Editor!Gone}]
  BY <1>2, <1>3 DEF Editor!Databases
<1>5. /\ e \in Editor!Databases
      /\ e.field = db.field /\ e.option = db.option /\ e.trigger = db.trigger /\ e.form = db.form
  <2> HIDE DEF context
  <2>1. /\ db.field \in [Fields -> Editor!Row \cup {Editor!Gone}] /\ db.option \in [Options -> Fields \cup {0}]
        /\ db.trigger \in SUBSET (Options \X Fields) /\ db.form \in [Questionnaires -> Tenants \cup {0}]
        /\ db.context \in [Tenants -> [main : Questionnaires \cup {0}, extra : Questionnaires \cup {0}]]
    BY <1>2, TableFacts
  <2>2. QED BY <1>4, <2>1, TablesTyped
<1>6. Editor!AtOnce(w, e) /\ fresh' = fresh
  BY <1>1
<1> HIDE DEF e
<1>7. /\ db' = e /\ Editor!Referenced(e)
      /\ DOMAIN editing' = Workers /\ \A v \in Workers : editing'[v] \in {editing[v], Editor!Idle}
  BY <1>6, CommitsAtOnce
<1>8. fresh.form <= fresh.form
  BY <1>2 DEF Numbers
<1>9. Linked(e) /\ Numbered(e, fresh) /\ Succeeds(db, fresh, e, fresh)
  BY <1>2, <1>5, <1>7, <1>8, SameRows
<1>10. QED BY <1>6, <1>7, <1>9, EndLinks

\* What was checked before the lock still holds for what is still there.
LEMMA StillOwn ==
    ASSUME NEW s, NEW d, NEW n, Since(s, d, n), NEW f \in Fields, s.field[f].tid # 0
    PROVE  f <= n.field /\ d.field[f].tid \in {0, s.field[f].tid}
BY DEF Since

LEMMA CreateCommitLinks ==
    ASSUME LinksInv, NEW w \in Workers, Editor!CreateCommit(w) PROVE LinksInv'
<1> DEFINE b == editing[w]
           r == b.r
           s == b.seen
           f == fresh.field + 1
           row == [tid |-> b.tid, form |-> r.form, group |-> r.group, tmpl |-> r.tmpl,
                   inst |-> r.inst, voice |-> r.voice]
           field == [db.field EXCEPT ![f] = row]
           trigger == db.trigger \cup IF r.tmpl = 0 THEN {<<o, f>> : o \in r.on} ELSE {}
           e == Editor!Database(field, db.option, trigger, db.form, db.context)
<1>1. /\ b.op = "create" /\ f \in Fields
      /\ r.tmpl = 0 => Editor!Available(db, b.tid, r.on)
      /\ Editor!Commit(w, Editor!Created(b))
      /\ fresh' = [fresh EXCEPT !.field = @ + 1]
  BY DEF Editor!CreateCommit
<1>2. Editor!Created(b) = e
  BY DEF Editor!Created
<1>3. /\ db' = e /\ Editor!Referenced(e)
      /\ DOMAIN editing' = Workers /\ \A v \in Workers : editing'[v] \in {editing[v], Editor!Idle}
  <2> HIDE DEF e
  <2>1. Editor!Commit(w, e)
    BY <1>1, <1>2
  <2>2. QED BY <2>1, Commits
<1>4. Linked(s) /\ Since(s, db, fresh) /\ Creating(b)
  BY <1>1 DEF LinksInv, Busily, Editor!Idle, Updating, Duplicating
<1>5. /\ b.tid \in Tenants /\ b.tid # 0 /\ r \in Requests /\ OwnAll(s, b.tid, r)
      /\ r.form \in Questionnaires \cup {0} /\ r.group \in Fields \cup {0} /\ r.tmpl \in Fields \cup {0}
      /\ r.on \in SUBSET Options
  BY <1>4, Parameters DEF Creating, Requests
<1>6. Linked(db) /\ Numbered(db, fresh) /\ db \in Editor!Databases /\ fresh \in Numbers /\ s \in Editor!Databases
  BY <1>4 DEF LinksInv, Linked, Numbered
<1>7. ~(f <= fresh.field) /\ db.field[f].tid = 0
  <2>1. ~(f <= fresh.field)
    BY <1>6 DEF Numbers
  <2>2. QED BY <1>1, <1>6, <2>1 DEF Numbered
<1>8. row \in Editor!Row
  <2>1. r.inst \in Editor!Kinds /\ r.voice \in BOOLEAN
    BY <1>5 DEF Requests
  <2>2. QED BY <1>5, <2>1 DEF Editor!Row
<1>9. field \in [Fields -> Editor!Row \cup {Editor!Gone}] /\ trigger \in SUBSET (Options \X Fields)
  <2>1. db.field \in [Fields -> Editor!Row \cup {Editor!Gone}] /\ db.trigger \in SUBSET (Options \X Fields)
    BY <1>6, TableFacts
  <2> HIDE DEF row, f
  <2>2. field \in [Fields -> Editor!Row \cup {Editor!Gone}]
    BY <1>1, <1>8, <2>1
  <2>3. trigger \in SUBSET (Options \X Fields)
    BY <1>1, <1>5, <2>1
  <2>4. QED BY <2>2, <2>3
<1>10. /\ e \in Editor!Databases
       /\ e.field = field /\ e.option = db.option /\ e.trigger = trigger /\ e.form = db.form
  <2>1. /\ db.option \in [Options -> Fields \cup {0}] /\ db.form \in [Questionnaires -> Tenants \cup {0}]
        /\ db.context \in [Tenants -> [main : Questionnaires \cup {0}, extra : Questionnaires \cup {0}]]
    BY <1>6, TableFacts
  <2> HIDE DEF field, trigger
  <2>2. QED BY <1>9, <2>1, TablesTyped
<1>11. e.field[f] = row /\ \A g \in Fields : g # f => e.field[g] = db.field[g]
  <2>1. DOMAIN db.field = Fields
    BY <1>6, TableFacts
  <2> HIDE DEF row, f
  <2>2. QED BY <1>1, <1>10, <2>1
<1>12. /\ row.tid = b.tid /\ row.group = r.group /\ row.tmpl = r.tmpl /\ row.form = r.form
  OBVIOUS
<1> HIDE DEF e, row, f
<1>13. \A g \in Fields : g # f /\ e.field[g].tid # 0 =>
          /\ e.field[g] = db.field[g]
          /\ db.field[g].group # f /\ db.field[g].tmpl # f
  <2> SUFFICES ASSUME NEW g \in Fields, g # f, e.field[g].tid # 0
               PROVE  e.field[g] = db.field[g] /\ db.field[g].group # f /\ db.field[g].tmpl # f
    OBVIOUS
  <2>1. e.field[g] = db.field[g]
    BY <1>11
  <2>2. /\ db.field[g].group # 0 => db.field[db.field[g].group].tid = db.field[g].tid
        /\ db.field[g].tmpl # 0 => db.field[db.field[g].tmpl].tid # 0
    BY <1>6, <2>1, LinkFacts
  <2>3. f # 0
    BY <1>1, Parameters
  <2>4. QED BY <1>7, <2>1, <2>2, <2>3
<1>14. ASSUME NEW g \in Editor!Rows(e)
       PROVE  /\ e.field[g].group # 0 => e.field[e.field[g].group].tid = e.field[g].tid
              /\ e.field[g].form # 0 => e.form[e.field[g].form] = e.field[g].tid
              /\ e.field[g].tmpl # 0 => e.field[e.field[g].tmpl].tid \in {Root, e.field[g].tid}
  <2>1. g \in Fields /\ e.field[g].tid # 0
    BY <1>10, RowFacts DEF Editor!Rows
  <2>2. CASE g # f
    <3>1. /\ e.field[g] = db.field[g] /\ db.field[g].group # f /\ db.field[g].tmpl # f
      BY <1>13, <2>1, <2>2
    <3>2. /\ db.field[g].group # 0 => e.field[db.field[g].group] = db.field[db.field[g].group]
          /\ db.field[g].tmpl # 0 => e.field[db.field[g].tmpl] = db.field[db.field[g].tmpl]
      BY <1>6, <1>11, <2>1, <3>1, LinkFacts
    <3>3. QED BY <1>6, <1>10, <2>1, <3>1, <3>2, LinkFacts
  <2>3. CASE g = f
    <3>1. /\ r.group # 0 => Editor!There(e, r.group)
          /\ r.tmpl # 0 => Editor!There(e, r.tmpl)
          /\ r.form # 0 => e.form[r.form] # 0
      BY <1>3, <1>11, <1>12, <1>14, <2>3 DEF Editor!Referenced
    <3>2. /\ r.group # 0 => e.field[r.group].tid # 0
          /\ r.tmpl # 0 => e.field[r.tmpl].tid # 0
      BY <1>5, <1>10, <3>1, RowFacts
    <3>3. /\ r.group # 0 => r.group <= fresh.field /\ db.field[r.group].tid \in {0, b.tid}
          /\ r.tmpl # 0 => r.tmpl <= fresh.field /\ db.field[r.tmpl].tid \in {0, Root, b.tid}
          /\ r.form # 0 => db.form[r.form] \in {0, b.tid}
      BY <1>4, <1>5 DEF OwnAll, Since
    <3>4. r.group # 0 => r.group # f /\ e.field[r.group] = db.field[r.group]
      BY <1>5, <1>7, <1>11, <3>3
    <3>5. r.tmpl # 0 => r.tmpl # f /\ e.field[r.tmpl] = db.field[r.tmpl]
      BY <1>5, <1>7, <1>11, <3>3
    <3>6. QED BY <1>10, <1>11, <1>12, <2>3, <3>1, <3>2, <3>3, <3>4, <3>5
  <2>4. QED BY <2>2, <2>3
<1>15. ASSUME NEW t \in e.trigger PROVE e.field[e.option[t[1]]].tid = e.field[t[2]].tid
  <2>1. CASE t \in db.trigger
    <3>1. /\ t[2] \in Fields /\ db.option[t[1]] \in Fields /\ db.field[t[2]].tid # 0
          /\ db.field[db.option[t[1]]].tid = db.field[t[2]].tid
      BY <1>6, <2>1, TriggerFacts
    <3>2. t[2] # f /\ db.option[t[1]] # f
      BY <1>7, <3>1
    <3>3. QED BY <1>10, <1>11, <3>1, <3>2
  <2>2. CASE t \notin db.trigger
    <3>1. r.tmpl = 0 /\ \E o \in r.on : t = <<o, f>>
      BY <1>10, <2>2
    <3>2. PICK o \in r.on : t[1] = o /\ t[2] = f
      BY <3>1
    <3>3. db.option[o] # 0 /\ db.field[db.option[o]].tid = b.tid
      BY <1>1, <3>1 DEF Editor!Available
    <3>4. db.option[o] \in Fields /\ db.option[o] # f
      BY <1>5, <1>6, <1>7, <3>3, TableFacts
    <3>5. QED BY <1>10, <1>11, <1>12, <3>2, <3>3, <3>4
  <2>3. QED BY <2>1, <2>2
<1>16. Linked(e)
  BY <1>3, <1>10, <1>14, <1>15 DEF Linked, Editor!Apart
<1>17. /\ fresh' \in Numbers /\ fresh'.field = fresh.field + 1 /\ fresh'.field = f
       /\ fresh'.form = fresh.form /\ fresh'.option = fresh.option
  BY <1>1, <1>6 DEF Numbers, f
<1>18. ASSUME NEW g \in Fields, e.field[g].tid # 0 PROVE g <= fresh'.field
  <2>1. g \in Nat /\ fresh.field \in Nat /\ f \in Nat
    BY <1>1, <1>6, Parameters DEF Numbers
  <2>2. CASE g = f
    BY <1>17, <2>1, <2>2
  <2>3. CASE g # f
    <3>1. g <= fresh.field
      BY <1>6, <1>11, <1>18, <2>3 DEF Numbered
    <3>2. QED BY <1>17, <2>1, <3>1
  <2>4. QED BY <2>2, <2>3
<1>19. Numbered(e, fresh')
  BY <1>6, <1>10, <1>17, <1>18 DEF Numbered
<1>20. Succeeds(db, fresh, e, fresh')
  <2>1. fresh.field <= fresh'.field /\ fresh.form <= fresh'.form
    BY <1>6, <1>17 DEF Numbers
  <2>2. \A g \in Fields : g <= fresh.field => e.field[g].tid \in {0, db.field[g].tid}
    BY <1>7, <1>11
  <2>3. QED BY <1>10, <2>1, <2>2 DEF Succeeds
<1>21. QED BY <1>3, <1>16, <1>19, <1>20, EndLinks

LEMMA ResetTyped ==
    ASSUME LinksInv, NEW b, Updating(b)
    PROVE  /\ Editor!Reset(b) \in SUBSET (Options \X Fields)
           /\ \A t \in Editor!Reset(b) : t \in db.trigger \/ \E o \in b.r.on : t[1] = o /\ t[2] = b.f
<1>1. db.trigger \in SUBSET (Options \X Fields)
  BY TableFacts DEF LinksInv, Linked
<1>2. b.r.on \in SUBSET Options /\ b.f \in Fields
  BY DEF Updating, Requests
<1>3. QED BY <1>1, <1>2 DEF Editor!Reset

LEMMA UpdateCommitLinks ==
    ASSUME LinksInv, NEW w \in Workers, Editor!UpdateCommit(w) PROVE LinksInv'
<1> DEFINE b == editing[w]
           r == b.r
           s == b.seen
<1>1. /\ b.op = "update" /\ Editor!There(db, b.f) /\ Editor!Available(db, b.tid, r.on)
      /\ b.add => fresh.option + 1 \in Options
      /\ Editor!Commit(w, Editor!Updated(b))
      /\ fresh' = [fresh EXCEPT !.option = IF b.add THEN @ + 1 ELSE @]
  BY DEF Editor!UpdateCommit
<1>2. Linked(s) /\ Since(s, db, fresh) /\ Updating(b)
  BY <1>1 DEF LinksInv, Busily, Editor!Idle, Creating, Duplicating
<1>3. /\ b.tid \in Tenants /\ b.tid # 0 /\ r \in Requests /\ OwnAll(s, b.tid, r)
      /\ r.form \in Questionnaires \cup {0} /\ r.group \in Fields \cup {0} /\ r.tmpl \in Fields \cup {0}
      /\ r.on \in SUBSET Options /\ b.f \in Fields /\ s.field[b.f].tid = b.tid
  BY <1>2, Parameters DEF Updating, Requests
<1>4. Linked(db) /\ Numbered(db, fresh) /\ db \in Editor!Databases /\ fresh \in Numbers /\ s \in Editor!Databases
  BY <1>2 DEF LinksInv, Linked, Numbered
<1>5. db.field[b.f].tid = b.tid
  <2>1. db.field[b.f].tid \in {0, b.tid} /\ db.field[b.f].tid # 0
    BY <1>1, <1>2, <1>3, <1>4, RowFacts DEF Since
  <2>2. QED BY <2>1
<1>6. /\ fresh' \in Numbers /\ fresh'.field = fresh.field /\ fresh'.form = fresh.form
      /\ fresh'.option = IF b.add THEN fresh.option + 1 ELSE fresh.option
      /\ fresh.option \in Nat /\ fresh.option <= fresh'.option
  BY <1>1, <1>4 DEF Numbers
<1>7. /\ db' = Editor!Updated(b) /\ Editor!Referenced(Editor!Updated(b))
      /\ DOMAIN editing' = Workers /\ \A v \in Workers : editing'[v] \in {editing[v], Editor!Idle}
  BY <1>1, Commits
<1>8. /\ db.field \in [Fields -> Editor!Row \cup {Editor!Gone}] /\ db.option \in [Options -> Fields \cup {0}]
      /\ db.form \in [Questionnaires -> Tenants \cup {0}]
      /\ db.context \in [Tenants -> [main : Questionnaires \cup {0}, extra : Questionnaires \cup {0}]]
  BY <1>4, TableFacts
<1>9. \A o \in r.on : db.option[o] \in Fields /\ db.option[o] # 0 /\ db.field[db.option[o]].tid = b.tid
  BY <1>1, <1>3, <1>8 DEF Editor!Available
<1>10. \A t \in db.trigger : t[1] \in Options /\ db.option[t[1]] # 0 /\ db.option[t[1]] \in Fields
                             /\ t[2] \in Fields /\ db.field[t[2]].tid # 0
                             /\ db.field[db.option[t[1]]].tid = db.field[t[2]].tid
  BY <1>4, TriggerFacts
<1>11. \A t \in Editor!Reset(b) :
          /\ t[1] \in Options /\ t[2] \in Fields /\ db.option[t[1]] # 0 /\ db.option[t[1]] \in Fields
          /\ db.field[t[2]].tid # 0 /\ db.field[db.option[t[1]]].tid = db.field[t[2]].tid
  <2> SUFFICES ASSUME NEW t \in Editor!Reset(b)
               PROVE  /\ t[1] \in Options /\ t[2] \in Fields /\ db.option[t[1]] # 0 /\ db.option[t[1]] \in Fields
                      /\ db.field[t[2]].tid # 0 /\ db.field[db.option[t[1]]].tid = db.field[t[2]].tid
    OBVIOUS
  <2>1. CASE t \in db.trigger
    BY <1>10, <2>1
  <2>2. ASSUME NEW o \in r.on, t[1] = o, t[2] = b.f
        PROVE  /\ t[1] \in Options /\ t[2] \in Fields /\ db.option[t[1]] # 0 /\ db.option[t[1]] \in Fields
               /\ db.field[t[2]].tid # 0 /\ db.field[db.option[t[1]]].tid = db.field[t[2]].tid
    BY <1>3, <1>5, <1>9, <2>2
  <2>3. QED BY <1>2, <2>1, <2>2, ResetTyped
<1>12. Editor!Reset(b) \in SUBSET (Options \X Fields)
  BY <1>2, ResetTyped
<1>13. CASE s.field[b.f].inst = "reference"
  <2> DEFINE e == Editor!Database(db.field, db.option, Editor!Reset(b), db.form, db.context)
  <2>1. Editor!Updated(b) = e
    BY <1>13 DEF Editor!Updated
  <2>2. /\ e \in Editor!Databases
        /\ e.field = db.field /\ e.option = db.option /\ e.trigger = Editor!Reset(b) /\ e.form = db.form
    BY <1>8, <1>12, TablesTyped
  <2>3. Editor!Referenced(e)
    BY <1>7, <2>1
  <2> HIDE DEF e
  <2>4. ASSUME NEW g \in Editor!Rows(e)
        PROVE  /\ e.field[g].group # 0 => e.field[e.field[g].group].tid = e.field[g].tid
               /\ e.field[g].form # 0 => e.form[e.field[g].form] = e.field[g].tid
               /\ e.field[g].tmpl # 0 => e.field[e.field[g].tmpl].tid \in {Root, e.field[g].tid}
    <3>1. g \in Fields /\ db.field[g].tid # 0
      BY <2>2, RowFacts DEF Editor!Rows
    <3>2. QED BY <1>4, <2>2, <3>1, LinkFacts
  <2>5. \A t \in e.trigger : e.field[e.option[t[1]]].tid = e.field[t[2]].tid
    BY <1>11, <2>2
  <2>6. Linked(e)
    BY <2>2, <2>3, <2>4, <2>5 DEF Linked, Editor!Apart
  <2>7. \A o \in Options : db.option[o] # 0 => o <= fresh'.option
    <3> SUFFICES ASSUME NEW o \in Options, db.option[o] # 0 PROVE o <= fresh'.option
      OBVIOUS
    <3>1. o <= fresh.option /\ o \in Nat /\ fresh'.option \in Nat
      BY <1>4, <1>6, Parameters DEF Numbered, Numbers
    <3>2. QED BY <1>6, <3>1
  <2>8. Numbered(e, fresh')
    BY <1>4, <1>6, <2>2, <2>7 DEF Numbered
  <2>9. fresh.field <= fresh'.field /\ fresh.form <= fresh'.form
    BY <1>4, <1>6 DEF Numbers
  <2>10. Succeeds(db, fresh, e, fresh')
    BY <2>2, <2>9 DEF Succeeds
  <2>11. QED BY <1>7, <2>1, <2>6, <2>8, <2>10, EndLinks
<1>14. CASE s.field[b.f].inst # "reference"
  <2> DEFINE row == Editor!Moved(b)
             field == [db.field EXCEPT ![b.f] = row]
             option == Editor!UpdatedOptions(b)
             d == Editor!Database(field, option, Editor!Reset(b), db.form, db.context)
  <2>1. Editor!Updated(b) = Editor!Cascaded(d)
    BY <1>14 DEF Editor!Updated
  <2>2. db.field[b.f] \in Editor!Row
    BY <1>3, <1>4, <1>5, RowFacts
  <2>3. /\ row.tid = b.tid /\ row.tmpl \in {r.tmpl, db.field[b.f].tmpl}
        /\ row.group \in {r.group, db.field[b.f].group} /\ row.form \in {r.form, db.field[b.f].form}
    BY <1>5 DEF Editor!Moved
  <2>4. row \in Editor!Row
    BY <1>3, <2>2 DEF Editor!Moved, Editor!Row, Requests
  <2> HIDE DEF row
  <2>5. field \in [Fields -> Editor!Row \cup {Editor!Gone}]
    BY <1>8, <2>4
  <2>6. option \in [Options -> Fields \cup {0}]
    BY <1>3, <1>8 DEF Editor!UpdatedOptions
  <2>7. \A o \in Options : /\ option[o] \in {0, db.option[o], b.f}
                           /\ option[o] # 0 /\ option[o] # db.option[o] => b.add /\ o = fresh.option + 1
    BY DEF Editor!UpdatedOptions
  <2> HIDE DEF field, option
  <2>8. /\ d \in Editor!Databases
        /\ d.field = field /\ d.option = option /\ d.trigger = Editor!Reset(b) /\ d.form = db.form
    BY <1>8, <1>12, <2>5, <2>6, TablesTyped
  <2>9. d.field[b.f] = row /\ \A g \in Fields : g # b.f => d.field[g] = db.field[g]
    BY <1>3, <1>8, <2>8 DEF field
  <2> HIDE DEF d
  <2>10. ASSUME NEW g \in Fields, d.field[g].tid # 0
         PROVE  /\ d.field[g].tid = db.field[g].tid
                /\ d.field[g].group # 0 => db.field[d.field[g].group].tid \in {0, d.field[g].tid}
                /\ d.field[g].tmpl # 0 => db.field[d.field[g].tmpl].tid \in {0, Root, d.field[g].tid}
                /\ d.field[g].form # 0 => d.form[d.field[g].form] \in {0, d.field[g].tid}
    <3>1. CASE g # b.f
      BY <1>4, <2>8, <2>9, <2>10, <3>1, LinkFacts
    <3>2. CASE g = b.f
      <4>1. d.field[g] = row /\ db.field[g].tid = b.tid
        BY <1>5, <2>9, <3>2
      <4>2. /\ db.field[g].group # 0 => db.field[db.field[g].group].tid = b.tid
            /\ db.field[g].tmpl # 0 => db.field[db.field[g].tmpl].tid \in {Root, b.tid}
            /\ db.field[g].form # 0 => db.form[db.field[g].form] = b.tid
        BY <1>3, <1>4, <4>1, LinkFacts
      <4>3. /\ r.group # 0 => db.field[r.group].tid \in {0, b.tid}
            /\ r.tmpl # 0 => db.field[r.tmpl].tid \in {0, Root, b.tid}
            /\ r.form # 0 => db.form[r.form] \in {0, b.tid}
        BY <1>2, <1>3 DEF OwnAll, Since
      <4>4. QED BY <2>3, <2>8, <3>2, <4>1, <4>2, <4>3
    <3>3. QED BY <3>1, <3>2
  <2>11. ASSUME NEW t \in d.trigger, d.option[t[1]] # 0
         PROVE  d.option[t[1]] \in Fields /\ db.field[d.option[t[1]]].tid = db.field[t[2]].tid
    <3>1. /\ t[1] \in Options /\ t[2] \in Fields /\ db.option[t[1]] # 0 /\ db.option[t[1]] \in Fields
          /\ db.field[db.option[t[1]]].tid = db.field[t[2]].tid
      BY <1>11, <2>8
    <3>2. t[1] <= fresh.option
      BY <1>4, <3>1 DEF Numbered
    <3>3. t[1] # fresh.option + 1
      BY <1>6, <3>2
    <3>4. d.option[t[1]] = db.option[t[1]]
      BY <2>7, <2>8, <2>11, <3>1, <3>3
    <3>5. QED BY <3>1, <3>4
  <2>12. InLine(d, db)
    BY <2>10, <2>11 DEF InLine
  <2>13. db' = Editor!Cascaded(d) /\ Editor!Referenced(Editor!Cascaded(d))
    BY <1>7, <2>1 DEF d
  <2>14. Linked(db')
    BY <2>8, <2>12, <2>13, CascadeLinked
  <2>15. \A o \in Options : d.option[o] # 0 => o <= fresh'.option
    <3> SUFFICES ASSUME NEW o \in Options, option[o] # 0 PROVE o <= fresh'.option
      BY <2>8
    <3>1. o \in Nat /\ fresh'.option \in Nat /\ fresh.option \in Nat
      BY <1>4, <1>6, Parameters DEF Numbers
    <3>2. CASE option[o] = db.option[o]
      <4>1. o <= fresh.option
        BY <1>4, <3>2 DEF Numbered
      <4>2. QED BY <1>6, <3>1, <4>1
    <3>3. CASE option[o] # db.option[o]
      <4>1. b.add /\ o = fresh.option + 1
        BY <2>7, <3>3
      <4>2. QED BY <1>6, <3>1, <4>1
    <3>4. QED BY <3>2, <3>3
  <2>16. \A q \in Questionnaires : d.form[q] \in {0, db.form[q]}
    BY <2>8
  <2>17. Numbered(db', fresh') /\ Succeeds(db, fresh, db', fresh')
    BY <1>4, <1>6, <2>8, <2>12, <2>13, <2>15, <2>16, CascadeNumbers
  <2>18. QED BY <1>7, <2>14, <2>17, EndLinks
<1>15. QED BY <1>13, <1>14

-----------------------------------------------------------------------------
(* What is shown of a questionnaire *)

\* The fields shown, each with its depth
Shown == [field : Fields, depth : Nat]
NodeLists == [Fields -> Seq(Shown)]

LEMMA SeqClosed == ASSUME NEW A PROVE Closed(Seq(A)) /\ << >> \in Seq(A)
BY ConcatProperties, EmptySeq DEF Closed

LEMMA SingleList == ASSUME NEW A, NEW a \in A PROVE <<a>> \in Seq(A) /\ Len(<<a>>) = 1 /\ <<a>>[1] = a
OBVIOUS

LEMMA NodeTyped ==
    ASSUME NEW f \in Fields, NEW n \in 0 .. MaxDepth
    PROVE  /\ Editor!Node(f, n) \in Shown
           /\ Editor!Node(f, n).field = f /\ Editor!Node(f, n).depth = MaxDepth - n
BY Parameters DEF Editor!Node, Shown

LEMMA LeavesTyped == [f \in Fields |-> <<Editor!Node(f, 0)>>] \in NodeLists
<1>1. ASSUME NEW f \in Fields PROVE <<Editor!Node(f, 0)>> \in Seq(Shown)
  <2>1. 0 \in 0 .. MaxDepth
    BY Parameters
  <2>2. QED BY <2>1, NodeTyped, SingleList
<1>2. QED BY <1>1 DEF NodeLists

LEMMA ChildrenFacts ==
    ASSUME NEW d \in Editor!Databases, NEW templates, NEW f \in Fields
    PROVE  \E m \in Nat : Editor!Children(d, f, templates) \in [1 .. m -> Editor!Inside(d, Editor!Source(d, f))]
<1>1. PICK n \in Nat : Fields = 1 .. n
  BY Parameters
<1> DEFINE inside == Editor!Inside(d, Editor!Source(d, f))
<1>2. inside \in SUBSET (1 .. n)
  BY <1>1 DEF Editor!Inside, Editor!Rows
<1> HIDE DEF inside
<1>3. Editor!Ordered(inside) \in [1 .. Cardinality(inside) -> inside] /\ Cardinality(inside) \in Nat
  BY <1>2, OrderedIn, Counted
<1>4. << >> \in [1 .. 0 -> inside]
  OBVIOUS
<1>5. \/ Editor!Children(d, f, templates) = Editor!Ordered(inside)
      \/ Editor!Children(d, f, templates) = << >>
  BY DEF Editor!Children, inside
<1>6. CASE Editor!Children(d, f, templates) = Editor!Ordered(inside)
  BY <1>3, <1>6 DEF inside
<1>7. CASE Editor!Children(d, f, templates) = << >>
  <2>1. Editor!Children(d, f, templates) \in [1 .. 0 -> inside] /\ 0 \in Nat
    BY <1>4, <1>7
  <2>2. QED BY <2>1 DEF inside
<1>8. QED BY <1>5, <1>6, <1>7

\* What is shown of the children of a field
OfChildren(d, f, templates, inner) ==
    LET children == Editor!Children(d, f, templates)
    IN  Editor!FlattenSeq([i \in DOMAIN children |-> inner[children[i]]])

LEMMA ChildrenIn ==
    ASSUME NEW d \in Editor!Databases, NEW templates, NEW f \in Fields, NEW inner,
           NEW P, Closed(P), << >> \in P,
           \A g \in Editor!Inside(d, Editor!Source(d, f)) : inner[g] \in P
    PROVE  OfChildren(d, f, templates, inner) \in P
<1> DEFINE children == Editor!Children(d, f, templates)
           each == [i \in DOMAIN children |-> inner[children[i]]]
<1>1. PICK m \in Nat : children \in [1 .. m -> Editor!Inside(d, Editor!Source(d, f))]
  BY ChildrenFacts
<1>2. DOMAIN children = 1 .. m /\ each \in [1 .. m -> P]
  BY <1>1
<1> HIDE DEF each
<1>3. Editor!FlattenSeq(each) \in P
  BY <1>2, FlattenIn
<1>4. QED BY <1>3 DEF OfChildren, each

LEMMA OpenedIs ==
    ASSUME NEW d, NEW templates, NEW n, NEW inner, NEW f \in Fields
    PROVE  Editor!Opened(d, templates, n, inner)[f] = <<Editor!Node(f, n)>> \o OfChildren(d, f, templates, inner)
BY DEF Editor!Opened, OfChildren

LEMMA OpenedTyped ==
    ASSUME NEW d \in Editor!Databases, NEW templates, NEW n \in 1 .. MaxDepth, NEW inner \in NodeLists
    PROVE  Editor!Opened(d, templates, n, inner) \in NodeLists
<1>1. ASSUME NEW f \in Fields
      PROVE  Editor!Opened(d, templates, n, inner)[f] \in Seq(Shown)
  <2>1. \A g \in Editor!Inside(d, Editor!Source(d, f)) : inner[g] \in Seq(Shown)
    BY DEF Editor!Inside, Editor!Rows, NodeLists
  <2>2. OfChildren(d, f, templates, inner) \in Seq(Shown)
    BY <2>1, SeqClosed, ChildrenIn
  <2>3. n \in 0 .. MaxDepth
    BY Parameters
  <2>4. <<Editor!Node(f, n)>> \in Seq(Shown)
    BY <2>3, NodeTyped, SingleList
  <2>5. Editor!Opened(d, templates, n, inner)[f] = <<Editor!Node(f, n)>> \o OfChildren(d, f, templates, inner)
    BY OpenedIs
  <2>6. QED BY <2>2, <2>4, <2>5, ConcatProperties
<1>2. Editor!Opened(d, templates, n, inner) =
        [f \in Fields |-> Editor!Opened(d, templates, n, inner)[f]]
  BY DEF Editor!Opened
<1>3. QED BY <1>1, <1>2 DEF NodeLists

LEMMA NodesWalk ==
    ASSUME NEW d \in Editor!Databases, NEW templates
    PROVE  \E w \in [0 .. MaxDepth -> NodeLists] :
             /\ w[0] = [f \in Fields |-> <<Editor!Node(f, 0)>>]
             /\ \A i \in 1 .. MaxDepth : w[i] = Editor!Opened(d, templates, i, w[i - 1])
             /\ Editor!Nodes(d, templates) = w
<1> DEFINE n == MaxDepth
           base == [f \in Fields |-> <<Editor!Node(f, 0)>>]
           step == [p \in (1 .. n) \X NodeLists |-> Editor!Opened(d, templates, p[1], p[2])]
           Good(g) == g = [i \in 0 .. n |-> IF i = 0 THEN base ELSE Editor!Opened(d, templates, i, g[i - 1])]
           w == CHOOSE g : Good(g)
<1>1. n \in Nat /\ base \in NodeLists
  BY Parameters, LeavesTyped
<1>2. \A i \in 1 .. n : \A x \in NodeLists : Editor!Opened(d, templates, i, x) \in NodeLists
  BY OpenedTyped
<1>3. step \in Steps(n, NodeLists)
  BY <1>2 DEF Steps
<1>4. PICK g \in Walks(n, NodeLists) : Follows(g, n, base, step)
  <2> HIDE DEF step, n, base
  <2> QED BY <1>1, <1>3, Recursion
<1>5. \A i \in 0 .. n : g[i] = IF i = 0 THEN base ELSE Editor!Opened(d, templates, i, g[i - 1])
  <2> SUFFICES ASSUME NEW i \in 0 .. n PROVE g[i] = IF i = 0 THEN base ELSE Editor!Opened(d, templates, i, g[i - 1])
    OBVIOUS
  <2>1. CASE i = 0
    BY <1>4, <2>1 DEF Follows
  <2>2. CASE i # 0
    <3>1. i \in 1 .. n /\ i - 1 \in 0 .. n
      BY <1>1, <2>2
    <3>2. g[i - 1] \in NodeLists /\ g[i] = step[<<i, g[i - 1]>>]
      BY <1>4, <3>1 DEF Walks, Follows
    <3>3. <<i, g[i - 1]>> \in (1 .. n) \X NodeLists
      BY <3>1, <3>2
    <3>4. QED BY <2>2, <3>2, <3>3
  <2>3. QED BY <2>1, <2>2
<1>6. Good(g)
  <2> HIDE DEF base, step
  <2> QED BY <1>4, <1>5 DEF Walks
<1>7. Good(w)
  BY <1>6
<1>8. Editor!Nodes(d, templates) = w
  BY DEF Editor!Nodes
<1> HIDE DEF w
<1>9. w = [i \in 0 .. n |-> w[i]] /\ \A i \in 0 .. n : w[i] = IF i = 0 THEN base ELSE Editor!Opened(d, templates, i, w[i - 1])
  <2> HIDE DEF base
  <2>1. \A i \in 0 .. n : w[i] = IF i = 0 THEN base ELSE Editor!Opened(d, templates, i, w[i - 1])
    BY <1>7
  <2>2. QED BY <1>7, <2>1
<1>10. w[0] = base /\ \A i \in 1 .. n : w[i] = Editor!Opened(d, templates, i, w[i - 1])
  <2>1. 0 \in 0 .. n /\ \A i \in 1 .. n : i \in 0 .. n /\ i # 0
    BY <1>1
  <2> HIDE DEF base
  <2> QED BY <1>9, <2>1
<1>11. \A i \in 0 .. n : w[i] \in NodeLists
  <2> DEFINE Typed == {i \in Nat : w[i] \in NodeLists}
  <2>1. 0 \in Typed
    BY <1>1, <1>10
  <2>2. ASSUME NEW i \in 1 .. n, i - 1 \in Typed PROVE i \in Typed
    BY <1>2, <1>10, <2>2
  <2> HIDE DEF Typed
  <2>3. 0 .. n \subseteq Typed
    BY <1>1, <2>1, <2>2, Upwards
  <2>4. QED BY <2>3 DEF Typed
<1>12. QED BY <1>8, <1>9, <1>10, <1>11

\* The lists of what is below depth k: in each, who is further down is below another
\* who comes before.
Listing(k, T) ==
    {s \in Seq([field : T, depth : Nat]) :
       \A i \in 1 .. Len(s) : /\ k <= s[i].depth
                              /\ k < s[i].depth => \E j \in 1 .. i - 1 : s[j].depth + 1 = s[i].depth}

LEMMA ListingClosed ==
    ASSUME NEW k \in Nat, NEW T PROVE Closed(Listing(k, T)) /\ << >> \in Listing(k, T)
<1>1. << >> \in Listing(k, T)
  BY EmptySeq DEF Listing
<1>2. ASSUME NEW a \in Listing(k, T), NEW b \in Listing(k, T) PROVE a \o b \in Listing(k, T)
  <2> DEFINE S == [field : T, depth : Nat]
             c == a \o b
  <2>1. a \in Seq(S) /\ b \in Seq(S)
    BY DEF Listing
  <2> HIDE DEF S
  <2>2. /\ c \in Seq(S) /\ Len(c) = Len(a) + Len(b)
        /\ \A i \in 1 .. Len(a) + Len(b) : c[i] = IF i <= Len(a) THEN a[i] ELSE b[i - Len(a)]
    BY <2>1, ConcatProperties
  <2>3. Len(a) \in Nat /\ Len(b) \in Nat
    BY <2>1, LenProperties
  <2> HIDE DEF c
  <2>4. ASSUME NEW i \in 1 .. Len(c)
        PROVE  /\ k <= c[i].depth
               /\ k < c[i].depth => \E j \in 1 .. i - 1 : c[j].depth + 1 = c[i].depth
    <3>1. CASE i <= Len(a)
      <4>1. i \in 1 .. Len(a) /\ c[i] = a[i] /\ \A j \in 1 .. i - 1 : c[j] = a[j]
        BY <2>2, <2>3, <3>1
      <4>2. /\ k <= a[i].depth
            /\ k < a[i].depth => \E j \in 1 .. i - 1 : a[j].depth + 1 = a[i].depth
        BY <4>1 DEF Listing
      <4>3. QED BY <4>1, <4>2
    <3>2. CASE ~(i <= Len(a))
      <4> DEFINE h == i - Len(a)
      <4>1. h \in 1 .. Len(b) /\ c[i] = b[h]
        BY <2>2, <2>3, <3>2
      <4>2. \A j \in 1 .. h - 1 : Len(a) + j \in 1 .. i - 1 /\ c[Len(a) + j] = b[j]
        <5> SUFFICES ASSUME NEW j \in 1 .. h - 1
                     PROVE  Len(a) + j \in 1 .. i - 1 /\ c[Len(a) + j] = b[j]
          OBVIOUS
        <5>1. /\ Len(a) + j \in 1 .. i - 1 /\ Len(a) + j \in 1 .. Len(a) + Len(b)
              /\ ~(Len(a) + j <= Len(a)) /\ (Len(a) + j) - Len(a) = j
          BY <2>2, <2>3, <3>2
        <5>2. QED BY <2>2, <5>1
      <4> HIDE DEF h
      <4>3. /\ k <= b[h].depth
            /\ k < b[h].depth => \E j \in 1 .. h - 1 : b[j].depth + 1 = b[h].depth
        BY <4>1 DEF Listing
      <4>4. QED BY <4>1, <4>2, <4>3
    <3>3. QED BY <3>1, <3>2
  <2>5. QED BY <2>2, <2>4 DEF Listing, S, c
<1>3. QED BY <1>1, <1>2 DEF Closed

LEMMA ListingUnder ==
    ASSUME NEW k \in Nat, NEW T, NEW x \in [field : T, depth : Nat], x.depth = k, NEW s \in Listing(k + 1, T)
    PROVE  <<x>> \o s \in Listing(k, T)
<1> DEFINE S == [field : T, depth : Nat]
           c == <<x>> \o s
<1>1. s \in Seq(S) /\ <<x>> \in Seq(S) /\ Len(<<x>>) = 1 /\ <<x>>[1] = x
  BY SingleList DEF Listing
<1>0. \A i \in 1 .. Len(s) : s[i].depth \in Nat
  <2>1. \A i \in 1 .. Len(s) : s[i] \in S
    BY <1>1, ElementOfSeq
  <2>2. QED BY <2>1
<1> HIDE DEF S
<1>2. /\ c \in Seq(S) /\ Len(c) = 1 + Len(s)
      /\ \A i \in 1 .. 1 + Len(s) : c[i] = IF i <= 1 THEN <<x>>[i] ELSE s[i - 1]
  BY <1>1, ConcatProperties
<1>3. Len(s) \in Nat
  BY <1>1, LenProperties
<1>4. c[1] = x
  <2>1. 1 \in 1 .. 1 + Len(s) /\ 1 <= 1
    BY <1>3
  <2>2. QED BY <1>1, <1>2, <2>1
<1> HIDE DEF c
<1>5. ASSUME NEW i \in 1 .. Len(c)
      PROVE  /\ k <= c[i].depth
             /\ k < c[i].depth => \E j \in 1 .. i - 1 : c[j].depth + 1 = c[i].depth
  <2>1. CASE i = 1
    BY <1>4, <2>1
  <2>2. CASE i # 1
    <3> DEFINE h == i - 1
    <3>1. h \in 1 .. Len(s) /\ c[i] = s[h] /\ 1 \in 1 .. i - 1
      BY <1>2, <1>3, <2>2
    <3>2. \A j \in 1 .. h - 1 : j + 1 \in 1 .. i - 1 /\ c[j + 1] = s[j]
      <4> SUFFICES ASSUME NEW j \in 1 .. h - 1 PROVE j + 1 \in 1 .. i - 1 /\ c[j + 1] = s[j]
        OBVIOUS
      <4>1. /\ j + 1 \in 1 .. i - 1 /\ j + 1 \in 1 .. 1 + Len(s) /\ ~(j + 1 <= 1) /\ (j + 1) - 1 = j
        BY <1>2, <1>3
      <4>2. QED BY <1>2, <4>1
    <3> HIDE DEF h
    <3>3. /\ k + 1 <= s[h].depth
          /\ k + 1 < s[h].depth => \E j \in 1 .. h - 1 : s[j].depth + 1 = s[h].depth
      BY <3>1 DEF Listing
    <3>4. s[h].depth \in Nat
      BY <1>0, <3>1
    <3>5. CASE s[h].depth = k + 1
      BY <1>4, <3>1, <3>5
    <3>6. CASE s[h].depth # k + 1
      <4>1. k <= s[h].depth /\ k + 1 < s[h].depth
        BY <3>3, <3>4, <3>6
      <4>2. PICK j \in 1 .. h - 1 : s[j].depth + 1 = s[h].depth
        BY <3>3, <4>1
      <4>3. j + 1 \in 1 .. i - 1 /\ c[j + 1] = s[j]
        BY <3>2
      <4>4. QED BY <3>1, <4>1, <4>2, <4>3
    <3>7. QED BY <3>5, <3>6
  <2>3. QED BY <2>1, <2>2
<1>6. QED BY <1>2, <1>5 DEF Listing, S, c

\* What is shown of a field of T, where T holds what is inside of its fields.
LEMMA NodesListing ==
    ASSUME NEW d \in Editor!Databases, NEW templates, NEW T \in SUBSET Fields,
           \A f \in T : Editor!Inside(d, Editor!Source(d, f)) \subseteq T
    PROVE  \A f \in T : Editor!Nodes(d, templates)[MaxDepth][f] \in Listing(0, T)
<1>1. PICK w \in [0 .. MaxDepth -> NodeLists] :
        /\ w[0] = [f \in Fields |-> <<Editor!Node(f, 0)>>]
        /\ \A i \in 1 .. MaxDepth : w[i] = Editor!Opened(d, templates, i, w[i - 1])
        /\ Editor!Nodes(d, templates) = w
  BY NodesWalk
<1> DEFINE Good == {n \in Nat : \A f \in T : w[n][f] \in Listing(MaxDepth - n, T)}
<1>2. ASSUME NEW n \in 0 .. MaxDepth, NEW f \in T
      PROVE  /\ Editor!Node(f, n) \in [field : T, depth : Nat] /\ Editor!Node(f, n).depth = MaxDepth - n
             /\ MaxDepth - n \in Nat
  BY Parameters DEF Editor!Node
<1>3. 0 \in Good
  <2> SUFFICES ASSUME NEW f \in T PROVE w[0][f] \in Listing(MaxDepth - 0, T)
    OBVIOUS
  <2>0. 0 \in 0 .. MaxDepth
    BY Parameters
  <2> DEFINE x == Editor!Node(f, 0)
  <2>1. w[0][f] = <<x>>
    BY <1>1
  <2>2. x \in [field : T, depth : Nat] /\ x.depth = MaxDepth - 0 /\ MaxDepth - 0 \in Nat
    BY <1>2, <2>0
  <2> HIDE DEF x
  <2>3. << >> \in Listing((MaxDepth - 0) + 1, T)
    BY <2>2, ListingClosed
  <2>4. <<x>> \o << >> \in Listing(MaxDepth - 0, T)
    BY <2>2, <2>3, ListingUnder
  <2>5. <<x>> \o << >> = <<x>>
    BY <2>2, SingleList, ConcatEmptySeq
  <2>6. QED BY <2>1, <2>4, <2>5
<1>4. ASSUME NEW n \in 1 .. MaxDepth, n - 1 \in Good PROVE n \in Good
  <2> SUFFICES ASSUME NEW f \in T PROVE w[n][f] \in Listing(MaxDepth - n, T)
    BY Parameters
  <2> DEFINE x == Editor!Node(f, n)
             s == OfChildren(d, f, templates, w[n - 1])
  <2>0. n \in 0 .. MaxDepth /\ MaxDepth - (n - 1) = (MaxDepth - n) + 1
    BY Parameters
  <2>1. w[n][f] = <<x>> \o s
    <3>1. w[n] = Editor!Opened(d, templates, n, w[n - 1]) /\ f \in Fields
      BY <1>1
    <3>2. Editor!Opened(d, templates, n, w[n - 1])[f] = <<x>> \o s
      BY <3>1 DEF Editor!Opened, OfChildren
    <3>3. QED BY <3>1, <3>2
  <2>2. x \in [field : T, depth : Nat] /\ x.depth = MaxDepth - n /\ MaxDepth - n \in Nat
    BY <1>2, <2>0
  <2>3. \A g \in Editor!Inside(d, Editor!Source(d, f)) : w[n - 1][g] \in Listing((MaxDepth - n) + 1, T)
    BY <1>4, <2>0
  <2>4. (MaxDepth - n) + 1 \in Nat
    BY <2>2
  <2>5. Closed(Listing((MaxDepth - n) + 1, T)) /\ << >> \in Listing((MaxDepth - n) + 1, T)
    BY <2>4, ListingClosed
  <2>6. s \in Listing((MaxDepth - n) + 1, T)
    BY <2>3, <2>5, ChildrenIn
  <2> HIDE DEF x, s
  <2>7. <<x>> \o s \in Listing(MaxDepth - n, T)
    BY <2>2, <2>6, ListingUnder
  <2>8. QED BY <2>1, <2>7
<1> HIDE DEF Good
<1>5. 0 .. MaxDepth \subseteq Good
  BY <1>3, <1>4, Parameters, Upwards
<1>6. MaxDepth \in Good
  BY <1>5, Parameters
<1>7. MaxDepth - MaxDepth = 0
  BY Parameters
<1>8. QED BY <1>1, <1>6, <1>7 DEF Good

LEMMA ShownIn ==
    ASSUME NEW d \in Editor!Databases, NEW q, NEW templates, NEW P, Closed(P), << >> \in P,
           \A f \in Fields : f \in Editor!Rows(d) /\ d.field[f].form = q => Editor!Nodes(d, templates)[MaxDepth][f] \in P
    PROVE  Editor!Shown(d, q, templates) \in P
<1> DEFINE tops == {f \in Editor!Rows(d) : d.field[f].form = q}
           top == Editor!Ordered(tops)
           each == [i \in DOMAIN top |-> Editor!Nodes(d, templates)[MaxDepth][top[i]]]
<1>1. PICK n \in Nat : Fields = 1 .. n
  BY Parameters
<1>2. tops \in SUBSET (1 .. n)
  BY <1>1 DEF Editor!Rows
<1>3. \A f \in tops : Editor!Nodes(d, templates)[MaxDepth][f] \in P
  BY DEF Editor!Rows
<1>4. Editor!Shown(d, q, templates) = Editor!FlattenSeq(each)
  BY DEF Editor!Shown
<1> HIDE DEF tops
<1>5. top \in [1 .. Cardinality(tops) -> tops] /\ Cardinality(tops) \in Nat
  BY <1>2, OrderedIn, Counted
<1>6. each \in [1 .. Cardinality(tops) -> P]
  BY <1>3, <1>5
<1> HIDE DEF each
<1>7. QED BY <1>4, <1>5, <1>6, FlattenIn

-----------------------------------------------------------------------------
(* Copies of a questionnaire *)

\* What is shown of a list, as a copy is made of it
CopyFacts(cs, ns, b, n) ==
    /\ Len(cs) = Len(ns) /\ DOMAIN cs = 1 .. Len(ns) /\ Len(ns) \in Nat
    /\ \A i \in 1 .. Len(ns) :
         /\ cs[i].from = ns[i].field /\ cs[i].depth = ns[i].depth /\ cs[i].id = n + i
         /\ cs[i].tmpl = b.seen.field[ns[i].field].tmpl
         /\ cs[i].shown = Editor!ShownOptions(b.seen, ns[i].field)
         /\ ns[i].depth = 0 => cs[i].group = 0
         /\ ns[i].depth # 0 => \E j \in 1 .. i - 1 : cs[i].group = n + j /\ ns[j].depth + 1 = ns[i].depth

\* The greatest of some of the numbers up to n
LEMMA Greatest ==
    ASSUME NEW n \in Nat, NEW S \in SUBSET (1 .. n), S # {}
    PROVE  Editor!Max(S) \in S
<1>0. \A x \in S : x \in Nat /\ x <= n
  OBVIOUS
<1> DEFINE T == {n - x : x \in S}
<1>1. T \in SUBSET Nat /\ T # {}
  <2>1. \A x \in S : n - x \in Nat
    BY <1>0
  <2>2. QED BY <2>1
<1>2. PICK i \in T : \A j \in T : i <= j
  <2> HIDE DEF T
  <2>1. QED BY <1>1, Smallest
<1>3. PICK x \in S : i = n - x
  BY <1>2
<1>4. \A y \in S : x >= y
  <2> SUFFICES ASSUME NEW y \in S PROVE x >= y
    OBVIOUS
  <2>1. n - x <= n - y
    BY <1>2, <1>3
  <2>2. x \in Nat /\ y \in Nat
    BY <1>0
  <2>3. QED BY <2>1, <2>2
<1>5. \E z \in S : \A y \in S : z >= y
  BY <1>4
<1>6. QED BY <1>5 DEF Editor!Max

LEMMA CopiesAre ==
    ASSUME NEW b, NEW T, Editor!Shown(b.seen, b.q, FALSE) \in Listing(0, T), fresh \in Numbers
    PROVE  CopyFacts(Editor!Copies(b), Editor!Shown(b.seen, b.q, FALSE), b, fresh.field)
<1> DEFINE ns == Editor!Shown(b.seen, b.q, FALSE)
           above(i) == {j \in 1 .. i - 1 : ns[j].depth + 1 = ns[i].depth}
           copy(i) == [from |-> ns[i].field, id |-> fresh.field + i, depth |-> ns[i].depth,
                       group |-> IF above(i) = {} THEN 0 ELSE fresh.field + Editor!Max(above(i)),
                       tmpl |-> b.seen.field[ns[i].field].tmpl,
                       shown |-> Editor!ShownOptions(b.seen, ns[i].field)]
           cs == Editor!Copies(b)
<1>1. cs = [i \in DOMAIN ns |-> copy(i)]
  BY DEF Editor!Copies
<1>2. ns \in Seq([field : T, depth : Nat])
  BY DEF Listing
<1>3. DOMAIN ns = 1 .. Len(ns) /\ Len(ns) \in Nat
  BY <1>2, LenProperties
<1>4. \A i \in 1 .. Len(ns) : ns[i].depth \in Nat
  <2>1. \A i \in 1 .. Len(ns) : ns[i] \in [field : T, depth : Nat]
    BY <1>2, ElementOfSeq
  <2>2. QED BY <2>1
<1>5. \A i \in 1 .. Len(ns) : 0 < ns[i].depth => \E j \in 1 .. i - 1 : ns[j].depth + 1 = ns[i].depth
  BY DEF Listing
<1> HIDE DEF ns
<1>6. cs \in [1 .. Len(ns) -> {copy(i) : i \in 1 .. Len(ns)}]
  BY <1>1, <1>3
<1>7. Len(cs) = Len(ns)
  <2> HIDE DEF cs, copy
  <2>1. QED BY <1>3, <1>6, Lists
<1>8. ASSUME NEW i \in 1 .. Len(ns)
      PROVE  /\ ns[i].depth = 0 => copy(i).group = 0
             /\ ns[i].depth # 0 => \E j \in 1 .. i - 1 : copy(i).group = fresh.field + j /\ ns[j].depth + 1 = ns[i].depth
  <2> DEFINE S == above(i)
  <2>1. i - 1 \in Nat /\ S \in SUBSET (1 .. (i - 1))
    OBVIOUS
  <2>2. copy(i).group = IF S = {} THEN 0 ELSE fresh.field + Editor!Max(S)
    OBVIOUS
  <2>3. ASSUME ns[i].depth = 0 PROVE S = {}
    <3>1. \A j \in 1 .. i - 1 : ns[j].depth \in Nat /\ ns[j].depth + 1 # 0
      BY <1>4
    <3>2. QED BY <2>3, <3>1
  <2>4. ASSUME ns[i].depth # 0 PROVE S # {}
    <3>1. 0 < ns[i].depth
      BY <1>4, <2>4
    <3>2. PICK j \in 1 .. i - 1 : ns[j].depth + 1 = ns[i].depth
      BY <1>5, <3>1
    <3>3. QED BY <3>2
  <2>5. \A j \in S : j \in 1 .. i - 1 /\ ns[j].depth + 1 = ns[i].depth
    OBVIOUS
  <2> HIDE DEF S, copy
  <2>6. S # {} => Editor!Max(S) \in S
    BY <2>1, Greatest
  <2>7. QED BY <2>2, <2>3, <2>4, <2>5, <2>6
<1>9. \A i \in 1 .. Len(ns) : /\ cs[i] = copy(i)
                              /\ copy(i).from = ns[i].field /\ copy(i).depth = ns[i].depth
                              /\ copy(i).id = fresh.field + i
                              /\ copy(i).tmpl = b.seen.field[ns[i].field].tmpl
                              /\ copy(i).shown = Editor!ShownOptions(b.seen, ns[i].field)
  BY <1>1, <1>3
<1> HIDE DEF copy, cs
<1>10. DOMAIN cs = 1 .. Len(ns)
  BY <1>6
<1>11. ASSUME NEW i \in 1 .. Len(ns)
       PROVE  /\ ns[i].depth = 0 => cs[i].group = 0
              /\ ns[i].depth # 0 => \E j \in 1 .. i - 1 : cs[i].group = fresh.field + j /\ ns[j].depth + 1 = ns[i].depth
  BY <1>8, <1>9
<1>12. CopyFacts(cs, ns, b, fresh.field)
  BY <1>3, <1>7, <1>9, <1>10, <1>11 DEF CopyFacts
<1>13. QED BY <1>12 DEF ns, cs

\* Options that come with a number of the copy they are made for
Pick(n) == [of : 1 .. n, from : Options]

LEMMA OptionsShown ==
    ASSUME NEW d \in Editor!Databases, NEW f
    PROVE  \E m \in Nat : Editor!ShownOptions(d, f) \in [1 .. m -> Options]
<1>1. PICK n \in Nat : Options = 1 .. n
  BY Parameters
<1> DEFINE S == Editor!OptionsOf(d, Editor!Source(d, f))
<1>2. S \in SUBSET (1 .. n) /\ S \subseteq Options
  BY <1>1 DEF Editor!OptionsOf
<1> HIDE DEF S
<1>3. Editor!Ordered(S) \in [1 .. Cardinality(S) -> S] /\ Cardinality(S) \in Nat
  BY <1>2, OrderedIn, Counted
<1>4. Editor!Ordered(S) \in [1 .. Cardinality(S) -> Options]
  BY <1>2, <1>3
<1>5. QED BY <1>3, <1>4 DEF Editor!ShownOptions, S

LEMMA CopiedIn ==
    ASSUME NEW b, NEW ns, NEW n, NEW cs, CopyFacts(cs, ns, b, n), b.seen \in Editor!Databases
    PROVE  /\ Editor!CopiedOptions(cs) \in Seq(Pick(Len(cs)))
           /\ DOMAIN Editor!CopiedOptions(cs) = 1 .. Len(Editor!CopiedOptions(cs))
           /\ Len(Editor!CopiedOptions(cs)) \in Nat
           /\ \A k \in 1 .. Len(Editor!CopiedOptions(cs)) : Editor!CopiedOptions(cs)[k].of \in 1 .. Len(cs)
<1> DEFINE m == Len(cs)
           each(i) == [k \in DOMAIN cs[i].shown |-> [of |-> i, from |-> cs[i].shown[k]]]
           all == [i \in DOMAIN cs |-> IF Editor!Plain(cs[i]) THEN each(i) ELSE << >>]
<1>1. m \in Nat /\ DOMAIN cs = 1 .. m
  BY DEF CopyFacts
<1>2. ASSUME NEW i \in 1 .. m PROVE each(i) \in Seq(Pick(m))
  <2>1. cs[i].shown = Editor!ShownOptions(b.seen, ns[i].field)
    BY DEF CopyFacts
  <2>2. PICK k \in Nat : cs[i].shown \in [1 .. k -> Options]
    BY <2>1, OptionsShown
  <2> DEFINE A == Pick(m)
  <2>3. each(i) \in [1 .. k -> A]
    BY <2>2 DEF Pick
  <2> HIDE DEF each, A
  <2>4. each(i) \in Seq(A)
    BY <2>2, <2>3, Lists
  <2>5. QED BY <2>4 DEF A
<1>3. \A i \in 1 .. m : all[i] \in Seq(Pick(m))
  <2> HIDE DEF each
  <2>1. QED BY <1>1, <1>2, SeqClosed
<1>4. Editor!CopiedOptions(cs) = Editor!FlattenSeq(all)
  BY DEF Editor!CopiedOptions
<1>5. all \in [1 .. m -> Seq(Pick(m))]
  BY <1>1, <1>3
<1> HIDE DEF all
<1>6. Closed(Seq(Pick(m))) /\ << >> \in Seq(Pick(m))
  BY SeqClosed
<1>7. Editor!FlattenSeq(all) \in Seq(Pick(m))
  BY <1>1, <1>5, <1>6, FlattenIn
<1> DEFINE new == Editor!CopiedOptions(cs)
<1>8. new \in Seq(Pick(m))
  BY <1>4, <1>7
<1> HIDE DEF new
<1>9. DOMAIN new = 1 .. Len(new) /\ Len(new) \in Nat
  BY <1>8, LenProperties
<1>10. \A k \in 1 .. Len(new) : new[k] \in Pick(m)
  BY <1>8, ElementOfSeq
<1>11. \A k \in 1 .. Len(new) : new[k].of \in 1 .. m
  BY <1>10 DEF Pick
<1>12. QED BY <1>8, <1>9, <1>11 DEF new

\* What is shown of a questionnaire of its own, or of the root tenant, to a tenant
\* who copies it
Copied(b) == {f \in Fields : b.seen.field[f].tid \in {Root, b.tid}}

LEMMA CopiedShown ==
    ASSUME NEW b, Linked(b.seen), Duplicating(b)
    PROVE  Editor!Shown(b.seen, b.q, FALSE) \in Listing(0, Copied(b))
<1> DEFINE s == b.seen
           T == Copied(b)
<1>1. s \in Editor!Databases /\ b.tid \in Tenants /\ b.tid # 0 /\ Root # 0
  BY Parameters DEF Linked, Duplicating
<1>2. ASSUME NEW f \in T, NEW g \in Editor!Inside(s, Editor!Source(s, f)) PROVE g \in T
  <2>1. f \in Fields /\ s.field[f].tid \in {Root, b.tid} /\ s.field[f].tid # 0
    BY <1>1 DEF Copied
  <2> DEFINE h == Editor!Source(s, f)
  <2>2. h \in Fields /\ h # 0 /\ s.field[h].tid \in {Root, b.tid}
    <3>1. s.field[f].tmpl # 0 => s.field[f].tmpl \in Fields /\ s.field[s.field[f].tmpl].tid \in {Root, s.field[f].tid}
      BY <2>1, LinkFacts
    <3>2. QED BY <2>1, <3>1, Parameters DEF Editor!Source
  <2> HIDE DEF h
  <2>3. g \in Editor!Rows(s) /\ s.field[g].group = h
    BY DEF Editor!Inside, h
  <2>4. g \in Fields /\ s.field[g].tid # 0
    BY <1>1, <2>3, RowFacts DEF Editor!Rows
  <2>5. s.field[h].tid = s.field[g].tid
    BY <2>2, <2>3, <2>4, LinkFacts
  <2>6. QED BY <2>2, <2>4, <2>5 DEF Copied
<1>3. ASSUME NEW f \in Fields, f \in Editor!Rows(s), s.field[f].form = b.q PROVE f \in T
  <2>1. s.field[f].tid # 0 /\ b.q # 0 /\ s.form[b.q] \in {Root, b.tid}
    BY <1>1, <1>3, RowFacts, Parameters DEF Duplicating
  <2>2. s.form[b.q] = s.field[f].tid
    BY <1>3, <2>1, LinkFacts
  <2>3. QED BY <2>1, <2>2 DEF Copied
<1>4. T \in SUBSET Fields
  BY DEF Copied
<1> HIDE DEF T
<1>5. \A f \in T : Editor!Inside(s, Editor!Source(s, f)) \subseteq T
  BY <1>2
<1>6. \A f \in T : Editor!Nodes(s, FALSE)[MaxDepth][f] \in Listing(0, T)
  BY <1>1, <1>4, <1>5, NodesListing
<1>7. Closed(Listing(0, T)) /\ << >> \in Listing(0, T)
  BY ListingClosed
<1>8. \A f \in Fields : f \in Editor!Rows(s) /\ s.field[f].form = b.q => Editor!Nodes(s, FALSE)[MaxDepth][f] \in Listing(0, T)
  BY <1>3, <1>6
<1>9. Editor!Shown(s, b.q, FALSE) \in Listing(0, T)
  BY <1>1, <1>7, <1>8, ShownIn
<1>10. QED BY <1>9 DEF T

\* The rows of a copy: n + 1 is the first, and q the questionnaire.
CopiedRows(e, d, b, ns, n, q) ==
    /\ \A i \in 1 .. Len(ns) :
         /\ n + i \in Fields
         /\ e.field[n + i].tid = b.tid
         /\ e.field[n + i].tmpl = b.seen.field[ns[i].field].tmpl
         /\ e.field[n + i].form = IF ns[i].depth = 0 THEN q ELSE 0
         /\ ns[i].depth = 0 => e.field[n + i].group = 0
         /\ ns[i].depth # 0 => \E j \in 1 .. i - 1 : e.field[n + i].group = n + j /\ ns[j].depth + 1 = ns[i].depth
    /\ \A f \in Fields : f <= n => e.field[f] = d.field[f]
    /\ \A f \in Fields : ~(f <= n) /\ e.field[f].tid # 0 => \E i \in 1 .. Len(ns) : f = n + i

\* What a copy adds, leaving the rest as it is
CopiedTables(e, d, b, m, k, q) ==
    /\ e \in Editor!Databases
    /\ \A o \in Options : o <= m => e.option[o] = d.option[o]
    /\ \A o \in Options : ~(o <= m) /\ e.option[o] # 0 =>
         o <= m + k /\ e.option[o] \in Fields /\ e.field[e.option[o]].tid = b.tid
    /\ \A t \in e.trigger : \/ t \in d.trigger
                            \/ e.field[e.option[t[1]]].tid = b.tid /\ e.field[t[2]].tid = b.tid
    /\ \A p \in Questionnaires : e.form[p] = IF p = q THEN b.tid ELSE d.form[p]

LEMMA DuplicatedIs ==
    ASSUME LinksInv, NEW w \in Workers, NEW b, b = editing[w], Editor!DuplicateCommit(w)
    PROVE  LET ns == Editor!Shown(b.seen, b.q, FALSE)
               cs == Editor!Copies(b)
               k == Len(Editor!CopiedOptions(cs)) IN
           /\ Linked(b.seen) /\ Since(b.seen, db, fresh) /\ Duplicating(b)
           /\ Editor!Duplicable(b, cs) /\ CopyFacts(cs, ns, b, fresh.field)
           /\ ns \in Listing(0, Copied(b)) /\ Len(ns) \in Nat
           /\ fresh' = [field |-> fresh.field + Len(ns), option |-> fresh.option + k, form |-> fresh.form + 1]
           /\ k \in Nat /\ fresh.form + 1 \in Questionnaires
           /\ Editor!Commit(w, db') /\ UNCHANGED <<crossed, moved>>
           /\ CopiedRows(db', db, b, ns, fresh.field, fresh.form + 1)
           /\ CopiedTables(db', db, b, fresh.option, k, fresh.form + 1)
<1> DEFINE ns == Editor!Shown(b.seen, b.q, FALSE)
           cs == Editor!Copies(b)
           new == Editor!CopiedOptions(cs)
           k == Len(new)
           q == fresh.form + 1
<1>1. /\ b.op = "duplicate" /\ q \in Questionnaires
      /\ fresh.field + Len(cs) \in Fields \cup {0} /\ fresh.option + k \in Options \cup {0}
      /\ Editor!Duplicable(b, cs)
      /\ Editor!Commit(w, Editor!Duplicated(b, cs))
      /\ fresh' = [field |-> fresh.field + Len(cs), option |-> fresh.option + k, form |-> fresh.form + 1]
      /\ UNCHANGED <<crossed, moved>>
  BY DEF Editor!DuplicateCommit
<1>2. Linked(b.seen) /\ Since(b.seen, db, fresh) /\ Duplicating(b)
  BY <1>1 DEF LinksInv, Busily, Editor!Idle, Creating, Updating
<1>3. /\ db \in Editor!Databases /\ fresh \in Numbers /\ Numbered(db, fresh) /\ b.seen \in Editor!Databases
      /\ b.tid \in Tenants /\ b.tid # 0
  BY <1>2, Parameters DEF LinksInv, Linked, Numbered, Duplicating
<1>4. fresh.field \in Nat /\ fresh.option \in Nat /\ fresh.form \in Nat
  BY <1>3 DEF Numbers
<1>5. ns \in Listing(0, Copied(b))
  BY <1>2, CopiedShown
<1>6. CopyFacts(cs, ns, b, fresh.field)
  BY <1>3, <1>5, CopiesAre
<1>7. Len(cs) = Len(ns) /\ DOMAIN cs = 1 .. Len(ns) /\ Len(ns) \in Nat
  BY <1>6 DEF CopyFacts
<1>8. /\ DOMAIN new = 1 .. k /\ k \in Nat /\ \A i \in 1 .. k : new[i].of \in 1 .. Len(ns)
  <2> HIDE DEF cs, ns
  <2>1. QED BY <1>3, <1>6, <1>7, CopiedIn
<1> DEFINE row(i) == [tid |-> b.tid, inst |-> "instance", tmpl |-> cs[i].tmpl,
                      form |-> IF cs[i].depth = 0 THEN q ELSE 0, group |-> cs[i].group,
                      voice |-> Editor!Type(b.seen, cs[i].from)]
           field == [f \in Fields |-> IF f - fresh.field \in DOMAIN cs THEN row(f - fresh.field) ELSE db.field[f]]
           option == [o \in Options |-> IF o - fresh.option \in DOMAIN new THEN cs[new[o - fresh.option].of].id
                                        ELSE db.option[o]]
           pairs == {p \in (DOMAIN cs) \X Options :
                       Editor!Plain(cs[p[1]]) /\ p[2] \in Editor!ConditionsOf(b.seen, cs[p[1]].from)}
           trigger == db.trigger \cup UNION {Editor!NewOption(cs, p[2]) \X {cs[p[1]].id} : p \in pairs}
           form == [db.form EXCEPT ![q] = b.tid]
           e == Editor!Database(field, option, trigger, form, db.context)
<1>9. db' = e /\ Editor!Commit(w, e)
  <2>1. Editor!Duplicated(b, cs) = e
    BY DEF Editor!Duplicated
  <2> HIDE DEF e, cs
  <2>2. Editor!Commit(w, e)
    BY <1>1, <2>1
  <2>3. QED BY <2>2 DEF Editor!Commit
<1>10. /\ \A i \in 1 .. Len(ns) : fresh.field + i \in Fields
       /\ \A i \in 1 .. k : fresh.option + i \in Options
  <2>1. PICK n \in Nat : Fields = 1 .. n
    BY Parameters
  <2>2. PICK m \in Nat : Options = 1 .. m
    BY Parameters
  <2> HIDE DEF k, ns, new
  <2>3. \A i \in 1 .. Len(ns) : fresh.field + i \in Fields
    <3>1. fresh.field + Len(ns) \in Fields \cup {0} /\ fresh.field \in Nat /\ Len(ns) \in Nat
      BY <1>1, <1>4, <1>7
    <3>2. QED BY <2>1, <3>1
  <2>4. fresh.option + k \in Options \cup {0} /\ fresh.option \in Nat /\ k \in Nat
    BY <1>1, <1>4, <1>8
  <2>5. \A i \in 1 .. k : fresh.option + i \in Options
    BY <2>2, <2>4
  <2>6. QED BY <2>3, <2>5
<1>11. \A i \in 1 .. Len(ns) :
         /\ cs[i].from = ns[i].field /\ cs[i].depth = ns[i].depth /\ cs[i].id = fresh.field + i
         /\ cs[i].tmpl = b.seen.field[ns[i].field].tmpl
         /\ ns[i].depth = 0 => cs[i].group = 0
         /\ ns[i].depth # 0 => \E j \in 1 .. i - 1 : cs[i].group = fresh.field + j /\ ns[j].depth + 1 = ns[i].depth
  BY <1>6 DEF CopyFacts
<1>12. ASSUME NEW i \in 1 .. Len(ns)
       PROVE  ns[i].field \in Copied(b) /\ ns[i].field \in Fields /\ ns[i].depth \in Nat
  <2>1. ns \in Seq([field : Copied(b), depth : Nat])
    BY <1>5 DEF Listing
  <2> HIDE DEF ns
  <2>2. ns[i] \in [field : Copied(b), depth : Nat]
    BY <2>1, ElementOfSeq
  <2>3. QED BY <2>2 DEF Copied
<1> HIDE DEF cs, ns, new, k, q
<1>0. \A x \in 1 .. k : x <= k
  OBVIOUS
<1>13. ASSUME NEW i \in 1 .. Len(ns) PROVE row(i) \in Editor!Row
  <2>1. cs[i].group \in Fields \cup {0}
    <3>1. CASE ns[i].depth = 0
      BY <1>11, <3>1
    <3>2. CASE ns[i].depth # 0
      <4>1. PICK j \in 1 .. i - 1 : cs[i].group = fresh.field + j
        BY <1>11, <3>2
      <4>2. j \in 1 .. Len(ns)
        BY <1>7
      <4>3. QED BY <1>10, <4>1, <4>2
    <3>3. QED BY <3>1, <3>2
  <2>2. cs[i].tmpl \in Fields \cup {0}
    BY <1>3, <1>11, <1>12, RowFacts
  <2>3. Editor!Type(b.seen, cs[i].from) \in BOOLEAN
    <3>1. Editor!Source(b.seen, ns[i].field) \in Fields
      BY <1>11, <1>12, <2>2 DEF Editor!Source
    <3>2. b.seen.field[Editor!Source(b.seen, ns[i].field)].voice \in BOOLEAN
      BY <1>3, <3>1, RowFacts
    <3>3. QED BY <1>11, <3>2 DEF Editor!Type
  <2>4. (IF cs[i].depth = 0 THEN q ELSE 0) \in Questionnaires \cup {0}
    BY <1>1 DEF q
  <2>5. QED BY <1>3, <2>1, <2>2, <2>3, <2>4 DEF Editor!Row, Editor!Kinds
<1>14. /\ db.field \in [Fields -> Editor!Row \cup {Editor!Gone}] /\ db.option \in [Options -> Fields \cup {0}]
       /\ db.trigger \in SUBSET (Options \X Fields)
       /\ db.form \in [Questionnaires -> Tenants \cup {0}]
       /\ db.context \in [Tenants -> [main : Questionnaires \cup {0}, extra : Questionnaires \cup {0}]]
  BY <1>3, TableFacts
<1>15. field \in [Fields -> Editor!Row \cup {Editor!Gone}]
  <2> HIDE DEF row
  <2>1. QED BY <1>7, <1>13, <1>14
<1>16. option \in [Options -> Fields \cup {0}]
  BY <1>8, <1>10, <1>11, <1>14
<1>17. \A t \in trigger : \/ t \in db.trigger
                          \/ \E h \in 1 .. k, i \in 1 .. Len(ns) : t = <<fresh.option + h, fresh.field + i>>
  <2> SUFFICES ASSUME NEW t \in trigger, t \notin db.trigger
               PROVE  \E h \in 1 .. k, i \in 1 .. Len(ns) : t = <<fresh.option + h, fresh.field + i>>
    OBVIOUS
  <2>1. PICK p \in pairs : t \in Editor!NewOption(cs, p[2]) \X {cs[p[1]].id}
    OBVIOUS
  <2>2. p[1] \in 1 .. Len(ns) /\ cs[p[1]].id = fresh.field + p[1]
    BY <1>7, <1>11
  <2>3. PICK o \in Editor!NewOption(cs, p[2]) : t = <<o, cs[p[1]].id>>
    BY <2>1
  <2>4. \E h \in DOMAIN new : o = fresh.option + h
    BY <2>3 DEF Editor!NewOption, new
  <2>5. PICK h \in 1 .. k : o = fresh.option + h
    BY <1>8, <2>4
  <2>6. QED BY <2>2, <2>3, <2>5
<1>18. trigger \in SUBSET (Options \X Fields)
  <2> HIDE DEF trigger
  <2>1. QED BY <1>10, <1>14, <1>17
<1>19. form \in [Questionnaires -> Tenants \cup {0}]
  BY <1>1, <1>3, <1>14
<1>20. /\ e \in Editor!Databases
       /\ e.field = field /\ e.option = option /\ e.trigger = trigger /\ e.form = form
  <2> HIDE DEF field, option, trigger, form
  <2>1. QED BY <1>14, <1>15, <1>16, <1>18, <1>19, TablesTyped
<1>21. \A f \in Fields :
         e.field[f] = IF f - fresh.field \in 1 .. Len(ns) THEN row(f - fresh.field) ELSE db.field[f]
  <2> HIDE DEF e, row
  <2>1. QED BY <1>7, <1>20
<1>22. \A o \in Options :
         e.option[o] = IF o - fresh.option \in 1 .. k THEN cs[new[o - fresh.option].of].id ELSE db.option[o]
  <2> HIDE DEF e
  <2>1. QED BY <1>8, <1>20
<1>23. \A p \in Questionnaires : e.form[p] = IF p = q THEN b.tid ELSE db.form[p]
  <2> HIDE DEF e
  <2>1. QED BY <1>1, <1>14, <1>20
<1>24. ASSUME NEW i
       PROVE  /\ row(i).tid = b.tid /\ row(i).tmpl = cs[i].tmpl /\ row(i).group = cs[i].group
              /\ row(i).form = IF cs[i].depth = 0 THEN q ELSE 0
  <2> HIDE DEF e
  <2>1. QED OBVIOUS
<1>25. db' = e /\ Editor!Commit(w, e) /\ e \in Editor!Databases
  <2> HIDE DEF e
  <2>1. QED BY <1>9, <1>20
<1>26. \A t \in e.trigger : \/ t \in db.trigger
                            \/ \E h \in 1 .. k, i \in 1 .. Len(ns) : t = <<fresh.option + h, fresh.field + i>>
  <2> HIDE DEF e, trigger
  <2>1. QED BY <1>17, <1>20
<1> HIDE DEF e, row, field, option, trigger, form, pairs
<1>27. \A i \in 1 .. Len(ns) : e.field[fresh.field + i] = row(i)
  <2> SUFFICES ASSUME NEW i \in 1 .. Len(ns) PROVE e.field[fresh.field + i] = row(i)
    OBVIOUS
  <2>1. (fresh.field + i) - fresh.field = i
    BY <1>4, <1>7
  <2>2. QED BY <1>10, <1>21, <2>1
<1>28. \A f \in Fields : f <= fresh.field => e.field[f] = db.field[f]
  <2> SUFFICES ASSUME NEW f \in Fields, f <= fresh.field PROVE e.field[f] = db.field[f]
    OBVIOUS
  <2>1. f - fresh.field \notin 1 .. Len(ns)
    BY <1>4, Parameters
  <2>2. QED BY <1>21, <2>1
<1>29. \A f \in Fields : ~(f <= fresh.field) /\ e.field[f].tid # 0 => \E i \in 1 .. Len(ns) : f = fresh.field + i
  <2> SUFFICES ASSUME NEW f \in Fields, ~(f <= fresh.field), e.field[f].tid # 0
               PROVE  \E i \in 1 .. Len(ns) : f = fresh.field + i
    OBVIOUS
  <2>1. db.field[f].tid = 0
    BY <1>3 DEF Numbered
  <2>2. f - fresh.field \in 1 .. Len(ns)
    BY <1>21, <2>1
  <2>3. f \in Nat
    BY Parameters
  <2>4. f = fresh.field + (f - fresh.field)
    BY <1>4, <2>3
  <2>5. QED BY <2>2, <2>4
<1>30. CopiedRows(e, db, b, ns, fresh.field, q)
  <2>1. \A i \in 1 .. Len(ns) : /\ e.field[fresh.field + i].tid = b.tid /\ e.field[fresh.field + i].tmpl = cs[i].tmpl
                                /\ e.field[fresh.field + i].form = IF cs[i].depth = 0 THEN q ELSE 0
                                /\ e.field[fresh.field + i].group = cs[i].group
    BY <1>24, <1>27
  <2>2. QED BY <1>10, <1>11, <1>28, <1>29, <2>1 DEF CopiedRows
<1>31. \A o \in Options : o <= fresh.option => e.option[o] = db.option[o]
  <2> SUFFICES ASSUME NEW o \in Options, o <= fresh.option PROVE e.option[o] = db.option[o]
    OBVIOUS
  <2>1. o - fresh.option \notin 1 .. k
    BY <1>4, Parameters
  <2>2. QED BY <1>22, <2>1
<1>32. \A h \in 1 .. k : /\ e.option[fresh.option + h] \in Fields
                         /\ e.field[e.option[fresh.option + h]].tid = b.tid
  <2> SUFFICES ASSUME NEW h \in 1 .. k
               PROVE  /\ e.option[fresh.option + h] \in Fields
                      /\ e.field[e.option[fresh.option + h]].tid = b.tid
    OBVIOUS
  <2>1. (fresh.option + h) - fresh.option = h
    BY <1>4, <1>8
  <2>2. e.option[fresh.option + h] = cs[new[h].of].id
    BY <1>10, <1>22, <2>1
  <2>3. new[h].of \in 1 .. Len(ns)
    BY <1>8
  <2>4. e.option[fresh.option + h] = fresh.field + new[h].of
    BY <1>11, <2>2, <2>3
  <2>5. QED BY <1>10, <1>24, <1>27, <2>3, <2>4
<1>33. \A o \in Options : ~(o <= fresh.option) /\ e.option[o] # 0 =>
         o <= fresh.option + k /\ e.option[o] \in Fields /\ e.field[e.option[o]].tid = b.tid
  <2> SUFFICES ASSUME NEW o \in Options, ~(o <= fresh.option), e.option[o] # 0
               PROVE  o <= fresh.option + k /\ e.option[o] \in Fields /\ e.field[e.option[o]].tid = b.tid
    OBVIOUS
  <2> DEFINE h == o - fresh.option
  <2>1. db.option[o] = 0
    BY <1>3 DEF Numbered
  <2>2. h \in 1 .. k
    BY <1>22, <2>1
  <2>3. o \in Nat /\ h <= k
    BY <1>0, <2>2, Parameters
  <2>4. o = fresh.option + h /\ o <= fresh.option + k
    BY <1>4, <1>8, <2>3
  <2> HIDE DEF h
  <2>5. QED BY <1>32, <2>2, <2>4
<1>34. \A t \in e.trigger : \/ t \in db.trigger
                            \/ e.field[e.option[t[1]]].tid = b.tid /\ e.field[t[2]].tid = b.tid
  <2> SUFFICES ASSUME NEW t \in e.trigger, t \notin db.trigger
               PROVE  e.field[e.option[t[1]]].tid = b.tid /\ e.field[t[2]].tid = b.tid
    OBVIOUS
  <2>1. PICK h \in 1 .. k, i \in 1 .. Len(ns) : t = <<fresh.option + h, fresh.field + i>>
    BY <1>26
  <2>2. t[1] = fresh.option + h /\ t[2] = fresh.field + i
    BY <2>1
  <2>3. e.field[t[2]].tid = b.tid
    BY <1>24, <1>27, <2>2
  <2>4. QED BY <1>32, <2>2, <2>3
<1>35. CopiedTables(e, db, b, fresh.option, k, q)
  BY <1>23, <1>25, <1>31, <1>33, <1>34 DEF CopiedTables
<1>36. QED BY <1>1, <1>2, <1>5, <1>6, <1>7, <1>8, <1>25, <1>30, <1>35 DEF ns, cs, new, k, q

LEMMA DuplicateCommitLinks ==
    ASSUME LinksInv, NEW w \in Workers, Editor!DuplicateCommit(w) PROVE LinksInv'
<1> DEFINE b == editing[w]
           s == b.seen
           e == db'
           q == fresh.form + 1
           ns == Editor!Shown(b.seen, b.q, FALSE)
           k == Len(Editor!CopiedOptions(Editor!Copies(b)))
           n == fresh.field
<1>1. /\ Linked(s) /\ Since(s, db, fresh) /\ Duplicating(b)
      /\ ns \in Listing(0, Copied(b)) /\ Len(ns) \in Nat
      /\ fresh' = [field |-> n + Len(ns), option |-> fresh.option + k, form |-> q]
      /\ k \in Nat /\ q \in Questionnaires
      /\ Editor!Commit(w, e)
      /\ CopiedRows(e, db, b, ns, n, q)
      /\ CopiedTables(e, db, b, fresh.option, k, q)
  BY DuplicatedIs
<1>2. ns \in Seq([field : Copied(b), depth : Nat])
  BY <1>1 DEF Listing
<1> HIDE DEF ns, k
<1>3. \A i \in 1 .. Len(ns) : ns[i].field \in Fields /\ s.field[ns[i].field].tid \in {Root, b.tid}
  <2>1. \A i \in 1 .. Len(ns) : ns[i] \in [field : Copied(b), depth : Nat]
    BY <1>2, ElementOfSeq
  <2>2. QED BY <2>1 DEF Copied
<1>4. /\ Linked(db) /\ Numbered(db, fresh) /\ db \in Editor!Databases /\ fresh \in Numbers
      /\ b.tid \in Tenants /\ b.tid # 0 /\ Root # 0
      /\ n \in Nat /\ fresh.option \in Nat /\ fresh.form \in Nat
  BY <1>1, Parameters DEF LinksInv, Linked, Numbered, Numbers, Duplicating
<1>5. /\ Editor!Referenced(e)
      /\ DOMAIN editing' = Workers /\ \A v \in Workers : editing'[v] \in {editing[v], Editor!Idle}
  BY <1>1, Commits
<1>6. e \in Editor!Databases
  BY <1>1 DEF CopiedTables
<1> HIDE DEF e
<1>7. \A i \in 1 .. Len(ns) :
         /\ n + i \in Fields
         /\ e.field[n + i].tid = b.tid
         /\ e.field[n + i].tmpl = s.field[ns[i].field].tmpl
         /\ e.field[n + i].form = IF ns[i].depth = 0 THEN q ELSE 0
         /\ ns[i].depth = 0 => e.field[n + i].group = 0
         /\ ns[i].depth # 0 => \E j \in 1 .. i - 1 : e.field[n + i].group = n + j /\ ns[j].depth + 1 = ns[i].depth
  BY <1>1 DEF CopiedRows
<1>8. /\ \A f \in Fields : f <= n => e.field[f] = db.field[f]
      /\ \A f \in Fields : ~(f <= n) /\ e.field[f].tid # 0 => \E i \in 1 .. Len(ns) : f = n + i
  BY <1>1 DEF CopiedRows
<1>9. /\ \A o \in Options : o <= fresh.option => e.option[o] = db.option[o]
      /\ \A o \in Options : ~(o <= fresh.option) /\ e.option[o] # 0 => o <= fresh.option + k
      /\ \A t \in e.trigger : \/ t \in db.trigger
                              \/ e.field[e.option[t[1]]].tid = b.tid /\ e.field[t[2]].tid = b.tid
      /\ \A p \in Questionnaires : e.form[p] = IF p = q THEN b.tid ELSE db.form[p]
  BY <1>1 DEF CopiedTables
<1>10. \A f \in Fields : db.field[f].tid # 0 => f <= n
  BY <1>4 DEF Numbered
<1>11. \A p \in Questionnaires : p <= fresh.form => e.form[p] = db.form[p]
  <2> SUFFICES ASSUME NEW p \in Questionnaires, p <= fresh.form PROVE e.form[p] = db.form[p]
    OBVIOUS
  <2>1. p # q
    BY <1>4, Parameters
  <2>2. QED BY <1>9, <2>1
<1>12. ASSUME NEW g \in Editor!Rows(e)
       PROVE  /\ e.field[g].group # 0 => e.field[e.field[g].group].tid = e.field[g].tid
              /\ e.field[g].form # 0 => e.form[e.field[g].form] = e.field[g].tid
              /\ e.field[g].tmpl # 0 => e.field[e.field[g].tmpl].tid \in {Root, e.field[g].tid}
  <2>1. g \in Fields /\ e.field[g].tid # 0
    BY <1>6, RowFacts DEF Editor!Rows
  <2>2. CASE g <= n
    <3>1. e.field[g] = db.field[g] /\ db.field[g].tid # 0
      BY <1>8, <2>1, <2>2
    <3>2. /\ db.field[g].group # 0 =>
               db.field[g].group \in Fields /\ db.field[db.field[g].group].tid = db.field[g].tid
          /\ db.field[g].tmpl # 0 =>
               /\ db.field[g].tmpl \in Fields /\ db.field[db.field[g].tmpl].tid # 0
               /\ db.field[db.field[g].tmpl].tid \in {Root, db.field[g].tid}
          /\ db.field[g].form # 0 => db.field[g].form \in Questionnaires /\ db.form[db.field[g].form] = db.field[g].tid
      BY <1>4, <2>1, <3>1, LinkFacts
    <3>3. /\ db.field[g].group # 0 => e.field[db.field[g].group] = db.field[db.field[g].group]
          /\ db.field[g].tmpl # 0 => e.field[db.field[g].tmpl] = db.field[db.field[g].tmpl]
      BY <1>8, <1>10, <3>1, <3>2
    <3>4. db.field[g].form # 0 => e.form[db.field[g].form] = db.form[db.field[g].form]
      BY <1>4, <1>11, <3>1, <3>2 DEF Numbered
    <3>5. QED BY <3>1, <3>2, <3>3, <3>4
  <2>3. CASE ~(g <= n)
    <3>1. PICK i \in 1 .. Len(ns) : g = n + i
      BY <1>8, <2>1, <2>3
    <3>2. e.field[g].tid = b.tid
      BY <1>7, <3>1
    <3>3. e.field[g].group # 0 => e.field[e.field[g].group].tid = b.tid
      <4> SUFFICES ASSUME e.field[g].group # 0 PROVE e.field[e.field[g].group].tid = b.tid
        OBVIOUS
      <4>1. PICK j \in 1 .. i - 1 : e.field[g].group = n + j
        BY <1>7, <3>1
      <4>2. j \in 1 .. Len(ns)
        BY <1>1
      <4>3. QED BY <1>7, <4>1, <4>2
    <3>4. e.field[g].form # 0 => e.field[g].form = q /\ e.form[q] = b.tid
      <4>1. e.form[q] = b.tid
        BY <1>1, <1>9
      <4>2. e.field[g].form \in {q, 0}
        BY <1>7, <3>1
      <4>3. QED BY <4>1, <4>2
    <3>5. e.field[g].tmpl # 0 => e.field[e.field[g].tmpl].tid \in {Root, b.tid}
      <4> SUFFICES ASSUME e.field[g].tmpl # 0 PROVE e.field[e.field[g].tmpl].tid \in {Root, b.tid}
        OBVIOUS
      <4> DEFINE h == e.field[g].tmpl
                 f == ns[i].field
      <4>1. h = s.field[f].tmpl /\ f \in Fields /\ s.field[f].tid \in {Root, b.tid} /\ s.field[f].tid # 0
        BY <1>3, <1>4, <1>7, <3>1
      <4>2. Editor!There(e, h)
        BY <1>5, <1>12 DEF Editor!Referenced
      <4>3. h \in Fields /\ s.field[h].tid # 0 /\ s.field[h].tid \in {Root, s.field[f].tid}
        <5>1. s.field[f].tmpl # 0
          BY <4>1
        <5> HIDE DEF f, h
        <5>2. Linked(s) /\ f \in Fields /\ s.field[f].tid # 0
          BY <1>1, <4>1
        <5>3. s.field[f].tmpl \in Fields /\ s.field[s.field[f].tmpl].tid # 0
              /\ s.field[s.field[f].tmpl].tid \in {Root, s.field[f].tid}
          BY <5>1, <5>2, LinkFacts
        <5>4. QED BY <4>1, <5>3
      <4> HIDE DEF f, h
      <4>4. e.field[h].tid # 0
        BY <1>6, <4>2, <4>3, RowFacts
      <4>5. h <= n /\ db.field[h].tid \in {0, s.field[h].tid}
        BY <1>1, <4>3 DEF Since
      <4>6. e.field[h].tid = db.field[h].tid
        <5>1. \A x \in Fields : x <= n => e.field[x] = db.field[x]
          BY <1>8
        <5> HIDE DEF n
        <5>2. QED BY <4>3, <4>5, <5>1
      <4>7. e.field[h].tid = s.field[h].tid
        BY <4>4, <4>5, <4>6
      <4>8. s.field[f].tid \in {Root, b.tid} /\ s.field[h].tid \in {Root, s.field[f].tid}
        BY <4>1, <4>3
      <4>9. e.field[h].tid \in {Root, b.tid}
        BY <4>7, <4>8
      <4>10. QED BY <4>9 DEF h
    <3>6. QED BY <3>2, <3>3, <3>4, <3>5
  <2>4. QED BY <2>2, <2>3
<1>13. ASSUME NEW t \in e.trigger PROVE e.field[e.option[t[1]]].tid = e.field[t[2]].tid
  <2>1. CASE t \in db.trigger
    <3>1. /\ t[1] \in Options /\ t[2] \in Fields /\ db.option[t[1]] \in Fields /\ db.option[t[1]] # 0
          /\ db.field[t[2]].tid # 0
          /\ db.field[db.option[t[1]]].tid = db.field[t[2]].tid
      BY <1>4, <2>1, TriggerFacts
    <3>2. e.option[t[1]] = db.option[t[1]]
      BY <1>4, <1>9, <3>1 DEF Numbered
    <3>3. e.field[db.option[t[1]]] = db.field[db.option[t[1]]] /\ e.field[t[2]] = db.field[t[2]]
      BY <1>8, <1>10, <3>1
    <3>4. QED BY <3>1, <3>2, <3>3
  <2>2. CASE t \notin db.trigger
    BY <1>9, <2>2
  <2>3. QED BY <2>1, <2>2
<1>14. Linked(e)
  BY <1>5, <1>6, <1>12, <1>13 DEF Linked, Editor!Apart
<1>15. /\ fresh' \in Numbers /\ fresh'.field = n + Len(ns) /\ fresh'.form = q /\ fresh'.option = fresh.option + k
  BY <1>1, <1>4 DEF Numbers
<1>16. \A f \in Fields : e.field[f].tid # 0 => f <= fresh'.field
  <2> SUFFICES ASSUME NEW f \in Fields, e.field[f].tid # 0 PROVE f <= fresh'.field
    OBVIOUS
  <2>0. f \in Nat
    BY Parameters
  <2>1. CASE f <= n
    BY <1>1, <1>4, <1>15, <2>0, <2>1
  <2>2. CASE ~(f <= n)
    <3>1. PICK i \in 1 .. Len(ns) : f = n + i
      BY <1>8, <2>2
    <3>2. QED BY <1>1, <1>4, <1>15, <3>1
  <2>3. QED BY <2>1, <2>2
<1>17. \A o \in Options : e.option[o] # 0 => o <= fresh'.option
  <2> SUFFICES ASSUME NEW o \in Options, e.option[o] # 0 PROVE o <= fresh'.option
    OBVIOUS
  <2>0. o \in Nat
    BY Parameters
  <2>1. CASE o <= fresh.option
    BY <1>1, <1>4, <1>15, <2>0, <2>1
  <2>2. CASE ~(o <= fresh.option)
    BY <1>9, <1>15, <2>2
  <2>3. QED BY <2>1, <2>2
<1>18. \A p \in Questionnaires : e.form[p] # 0 => p <= fresh'.form
  <2> SUFFICES ASSUME NEW p \in Questionnaires, e.form[p] # 0 PROVE p <= fresh'.form
    OBVIOUS
  <2>1. CASE p = q
    BY <1>4, <1>15, <2>1
  <2>2. CASE p # q
    <3>1. p <= fresh.form /\ p \in Nat
      BY <1>4, <1>9, <2>2, Parameters DEF Numbered
    <3>2. QED BY <1>4, <1>15, <3>1
  <2>3. QED BY <2>1, <2>2
<1>19. Numbered(e, fresh')
  BY <1>15, <1>16, <1>17, <1>18 DEF Numbered
<1>20. Succeeds(db, fresh, e, fresh')
  <2>1. n <= fresh'.field /\ fresh.form <= fresh'.form
    BY <1>1, <1>4, <1>15
  <2>2. QED BY <1>8, <1>11, <2>1 DEF Succeeds
<1>21. Linked(db') /\ Numbered(db', fresh') /\ Succeeds(db, fresh, db', fresh')
  BY <1>14, <1>19, <1>20 DEF e
<1>22. QED BY <1>5, <1>21, EndLinks

-----------------------------------------------------------------------------
(* The links at first and after each step *)

LEMMA LinksAtFirst == Editor!Init => LinksInv
<1> SUFFICES ASSUME Editor!Init PROVE LinksInv
  OBVIOUS
<1>1. /\ db \in Seeds /\ editing = [w \in Workers |-> Editor!Idle]
      /\ fresh = [field |-> Editor!Cardinality(Editor!Rows(db)),
                  option |-> Editor!Cardinality({o \in Options : db.option[o] # 0}),
                  form |-> Editor!Cardinality({q \in Questionnaires : db.form[q] # 0})]
  BY DEF Editor!Init
<1> DEFINE rowsFirst == Editor!Rows(db)
           optionsFirst == {o \in Options : db.option[o] # 0}
           formsFirst == {q \in Questionnaires : db.form[q] # 0}
<1>2. /\ db \in Editor!Databases /\ Editor!Referenced(db) /\ Editor!Apart(db)
      /\ rowsFirst = 1 .. Editor!Cardinality(rowsFirst)
      /\ optionsFirst = 1 .. Editor!Cardinality(optionsFirst)
      /\ formsFirst = 1 .. Editor!Cardinality(formsFirst)
  BY <1>1, AdministrationAssumption DEF Editor!FormsAssumption
<1>3. Linked(db)
  BY <1>2 DEF Linked
<1>4. /\ Editor!Cardinality(rowsFirst) \in Nat /\ Editor!Cardinality(optionsFirst) \in Nat
      /\ Editor!Cardinality(formsFirst) \in Nat
  <2>1. PICK n \in Nat : Fields = 1 .. n
    BY Parameters
  <2>2. PICK m \in Nat : Options = 1 .. m
    BY Parameters
  <2>3. PICK l \in Nat : Questionnaires = 1 .. l
    BY AdministrationAssumption DEF Editor!FormsAssumption
  <2>4. rowsFirst \in SUBSET (1 .. n) /\ optionsFirst \in SUBSET (1 .. m) /\ formsFirst \in SUBSET (1 .. l)
    BY <2>1, <2>2, <2>3 DEF Editor!Rows
  <2> HIDE DEF rowsFirst, optionsFirst, formsFirst
  <2>5. Cardinality(rowsFirst) \in Nat /\ Cardinality(optionsFirst) \in Nat /\ Cardinality(formsFirst) \in Nat
    BY <2>4, Counted
  <2>6. QED BY <2>5, SameCount
<1>5. \A f \in Fields : db.field[f].tid # 0 => f \in rowsFirst
  BY <1>2, RowFacts
<1>6. /\ \A o \in Options : db.option[o] # 0 => o \in optionsFirst
      /\ \A q \in Questionnaires : db.form[q] # 0 => q \in formsFirst
  OBVIOUS
<1>7. /\ fresh.field = Editor!Cardinality(rowsFirst) /\ fresh.option = Editor!Cardinality(optionsFirst)
      /\ fresh.form = Editor!Cardinality(formsFirst) /\ fresh \in Numbers
  BY <1>1, <1>4 DEF Numbers
<1> HIDE DEF rowsFirst, optionsFirst, formsFirst
<1>8. /\ \A f \in rowsFirst : f <= fresh.field
      /\ \A o \in optionsFirst : o <= fresh.option
      /\ \A q \in formsFirst : q <= fresh.form
  BY <1>2, <1>4, <1>7
<1>9. Numbered(db, fresh)
  BY <1>5, <1>6, <1>7, <1>8 DEF Numbered
<1>10. \A w \in Workers : Busily(editing[w], db, fresh)
  BY <1>1 DEF Busily
<1>11. QED BY <1>1, <1>3, <1>9, <1>10 DEF LinksInv

LEMMA StepLinks == LinksInv /\ Editor!Next => LinksInv'
<1> SUFFICES ASSUME LinksInv, Editor!Next PROVE LinksInv'
  OBVIOUS
<1>1. PICK w \in Workers :
        \/ \E t \in Tenants :
             \/ Editor!CreateBegin(w, t) \/ Editor!UpdateBegin(w, t) \/ Editor!DuplicateBegin(w, t)
             \/ Editor!DeleteField(w, t) \/ Editor!CreateForm(w, t) \/ Editor!DeleteForm(w, t)
             \/ Editor!SetContext(w, t)
        \/ Editor!CreateCommit(w) \/ Editor!UpdateCommit(w) \/ Editor!DuplicateCommit(w) \/ Editor!Abort(w)
  BY DEF Editor!Next
<1>2. ASSUME NEW t \in Tenants, Editor!CreateBegin(w, t) PROVE LinksInv'
  BY <1>2, CreateBeginLinks
<1>3. ASSUME NEW t \in Tenants, Editor!UpdateBegin(w, t) PROVE LinksInv'
  BY <1>3, UpdateBeginLinks
<1>4. ASSUME NEW t \in Tenants, Editor!DuplicateBegin(w, t) PROVE LinksInv'
  BY <1>4, DuplicateBeginLinks
<1>5. ASSUME NEW t \in Tenants, Editor!DeleteField(w, t) PROVE LinksInv'
  BY <1>5, DeleteFieldLinks
<1>6. ASSUME NEW t \in Tenants, Editor!CreateForm(w, t) PROVE LinksInv'
  BY <1>6, CreateFormLinks
<1>7. ASSUME NEW t \in Tenants, Editor!DeleteForm(w, t) PROVE LinksInv'
  BY <1>7, DeleteFormLinks
<1>8. ASSUME NEW t \in Tenants, Editor!SetContext(w, t) PROVE LinksInv'
  BY <1>8, SetContextLinks
<1>9. CASE Editor!CreateCommit(w)
  BY <1>9, CreateCommitLinks
<1>10. CASE Editor!UpdateCommit(w)
  BY <1>10, UpdateCommitLinks
<1>11. CASE Editor!DuplicateCommit(w)
  BY <1>11, DuplicateCommitLinks
<1>12. CASE Editor!Abort(w)
  BY <1>12, AbortLinks
<1>13. QED BY <1>1, <1>2, <1>3, <1>4, <1>5, <1>6, <1>7, <1>8, <1>9, <1>10, <1>11, <1>12

LEMMA LinksInvariant == MCSpec => []LinksInv
<1>1. MCInit => LinksInv
  BY LinksAtFirst DEF MCInit
<1>2. LinksInv /\ [MCNext]_allVars => LinksInv'
  <2> SUFFICES ASSUME LinksInv, [MCNext]_allVars PROVE LinksInv'
    OBVIOUS
  <2>1. CASE Editor!Next
    BY <2>1, StepLinks
  <2>2. CASE UNCHANGED forms
    BY <2>2 DEF LinksInv, forms
  <2>3. QED BY <2>1, <2>2 DEF MCNext, allVars
<1>3. QED BY <1>1, <1>2, PTL DEF MCSpec

-----------------------------------------------------------------------------
(* Recordings *)

\* What a round has found, and the groups to look at next
Rounds == [seen : SUBSET Fields, next : SUBSET Fields]

LEMMA FirstTyped ==
    ASSUME NEW d \in Editor!Databases
    PROVE  [seen |-> {}, next |-> {f \in Editor!Rows(d) : d.field[f].voice}] \in Rounds
BY DEF Rounds, Editor!Rows

LEMMA GroupsTyped ==
    ASSUME NEW d \in Editor!Databases, NEW S \in SUBSET Fields
    PROVE  Editor!GroupsOf(d, S) \in SUBSET Fields
<1>1. \A f \in S : d.field[f].group \in Fields \cup {0}
  BY RowFacts
<1>2. QED BY <1>1 DEF Editor!GroupsOf

LEMMA RoundTyped ==
    ASSUME NEW d \in Editor!Databases
    PROVE  \A r \in Rounds : Editor!Round(d, r) \in Rounds
<1> SUFFICES ASSUME NEW r \in Rounds PROVE Editor!Round(d, r) \in Rounds
  OBVIOUS
<1> DEFINE new == Editor!Inheriting(d, r.next) \ r.seen
<1>1. r.seen \in SUBSET Fields /\ r.next \in SUBSET Fields
  BY DEF Rounds
<1>2. new \in SUBSET Fields
  BY <1>1 DEF Editor!Inheriting, Editor!Rows
<1> HIDE DEF new
<1>3. Editor!GroupsOf(d, new) \in SUBSET Fields
  BY <1>2, GroupsTyped
<1>4. Editor!Round(d, r) = [seen |-> r.seen \cup new, next |-> Editor!GroupsOf(d, new)]
  BY DEF Editor!Round, new
<1>5. QED BY <1>1, <1>2, <1>3, <1>4 DEF Rounds

LEMMA ReachedWalk ==
    ASSUME NEW d \in Editor!Databases
    PROVE  \E w \in [0 .. MaxDepth -> Rounds] :
             /\ w[0] = [seen |-> {}, next |-> {f \in Editor!Rows(d) : d.field[f].voice}]
             /\ \A i \in 1 .. MaxDepth : w[i] = Editor!Round(d, w[i - 1])
             /\ Editor!Reached(d) = w
<1> DEFINE n == MaxDepth
           base == [seen |-> {}, next |-> {f \in Editor!Rows(d) : d.field[f].voice}]
           step == [p \in (1 .. n) \X Rounds |-> Editor!Round(d, p[2])]
           Good(g) == g = [i \in 0 .. n |-> IF i = 0 THEN base ELSE Editor!Round(d, g[i - 1])]
           w == CHOOSE g : Good(g)
<1>1. n \in Nat /\ base \in Rounds
  BY Parameters, FirstTyped
<1>2. \A i \in 1 .. n : \A x \in Rounds : Editor!Round(d, x) \in Rounds
  BY RoundTyped
<1>3. step \in Steps(n, Rounds)
  BY <1>2 DEF Steps
<1>4. PICK g \in Walks(n, Rounds) : Follows(g, n, base, step)
  <2> HIDE DEF step, n, base
  <2> QED BY <1>1, <1>3, Recursion
<1>5. \A i \in 0 .. n : g[i] = IF i = 0 THEN base ELSE Editor!Round(d, g[i - 1])
  <2> SUFFICES ASSUME NEW i \in 0 .. n PROVE g[i] = IF i = 0 THEN base ELSE Editor!Round(d, g[i - 1])
    OBVIOUS
  <2>1. CASE i = 0
    BY <1>4, <2>1 DEF Follows
  <2>2. CASE i # 0
    <3>1. i \in 1 .. n /\ i - 1 \in 0 .. n
      BY <1>1, <2>2
    <3>2. g[i - 1] \in Rounds /\ g[i] = step[<<i, g[i - 1]>>]
      BY <1>4, <3>1 DEF Walks, Follows
    <3>3. <<i, g[i - 1]>> \in (1 .. n) \X Rounds
      BY <3>1, <3>2
    <3>4. QED BY <2>2, <3>2, <3>3
  <2>3. QED BY <2>1, <2>2
<1>6. Good(g)
  <2> HIDE DEF base, step
  <2> QED BY <1>4, <1>5 DEF Walks
<1>7. Good(w)
  BY <1>6
<1>8. Editor!Reached(d) = w
  BY DEF Editor!Reached
<1> HIDE DEF w
<1>9. w = [i \in 0 .. n |-> w[i]] /\ \A i \in 0 .. n : w[i] = IF i = 0 THEN base ELSE Editor!Round(d, w[i - 1])
  <2> HIDE DEF base
  <2>1. \A i \in 0 .. n : w[i] = IF i = 0 THEN base ELSE Editor!Round(d, w[i - 1])
    BY <1>7
  <2>2. QED BY <1>7, <2>1
<1>10. w[0] = base /\ \A i \in 1 .. n : w[i] = Editor!Round(d, w[i - 1])
  <2>1. 0 \in 0 .. n /\ \A i \in 1 .. n : i \in 0 .. n /\ i # 0
    BY <1>1
  <2> HIDE DEF base
  <2> QED BY <1>9, <2>1
<1>11. \A i \in 0 .. n : w[i] \in Rounds
  <2> DEFINE Typed == {i \in Nat : w[i] \in Rounds}
  <2>1. 0 \in Typed
    BY <1>1, <1>10
  <2>2. ASSUME NEW i \in 1 .. n, i - 1 \in Typed PROVE i \in Typed
    BY <1>2, <1>10, <2>2
  <2> HIDE DEF Typed
  <2>3. 0 .. n \subseteq Typed
    BY <1>1, <2>1, <2>2, Upwards
  <2>4. QED BY <2>3 DEF Typed
<1>12. QED BY <1>8, <1>9, <1>10, <1>11

\* What is found once is found later, and with it what is around it.
LEMMA ReachedFacts ==
    ASSUME NEW d \in Editor!Databases
    PROVE  /\ \A n \in 1 .. MaxDepth :
                /\ Editor!Reached(d)[n - 1].seen \subseteq Editor!Reached(d)[n].seen
                /\ \A f \in Editor!Reached(d)[n - 1].seen : d.field[f].group # 0 =>
                     Editor!Inheriting(d, {d.field[f].group}) \subseteq Editor!Reached(d)[n].seen
           /\ MaxDepth # 0 =>
                Editor!Inheriting(d, {f \in Editor!Rows(d) : d.field[f].voice}) \subseteq Editor!Reached(d)[1].seen
<1>1. PICK w \in [0 .. MaxDepth -> Rounds] :
        /\ w[0] = [seen |-> {}, next |-> {f \in Editor!Rows(d) : d.field[f].voice}]
        /\ \A i \in 1 .. MaxDepth : w[i] = Editor!Round(d, w[i - 1])
        /\ Editor!Reached(d) = w
  BY ReachedWalk
<1>2. ASSUME NEW n \in 1 .. MaxDepth
      PROVE  /\ w[n].seen = w[n - 1].seen \cup Editor!Inheriting(d, w[n - 1].next)
             /\ w[n].next = Editor!GroupsOf(d, Editor!Inheriting(d, w[n - 1].next) \ w[n - 1].seen)
  <2>1. w[n] = Editor!Round(d, w[n - 1])
    BY <1>1
  <2>2. QED BY <2>1 DEF Editor!Round
<1> DEFINE Near(n) == \A f \in w[n].seen : d.field[f].group # 0 =>
                        Editor!Inheriting(d, {d.field[f].group}) \subseteq w[n].seen \cup Editor!Inheriting(d, w[n].next)
           T == {n \in Nat : Near(n)}
<1>3. 0 \in T
  BY <1>1
<1>4. ASSUME NEW n \in 1 .. MaxDepth, n - 1 \in T PROVE n \in T
  <2> SUFFICES ASSUME NEW f \in w[n].seen, d.field[f].group # 0
               PROVE  Editor!Inheriting(d, {d.field[f].group}) \subseteq w[n].seen \cup Editor!Inheriting(d, w[n].next)
    OBVIOUS
  <2>1. CASE f \in w[n - 1].seen
    <3>1. Editor!Inheriting(d, {d.field[f].group}) \subseteq w[n - 1].seen \cup Editor!Inheriting(d, w[n - 1].next)
      BY <1>4, <2>1
    <3>2. QED BY <1>2, <3>1
  <2>2. CASE f \notin w[n - 1].seen
    <3>1. f \in Editor!Inheriting(d, w[n - 1].next) \ w[n - 1].seen
      BY <1>2, <2>2
    <3>2. d.field[f].group \in w[n].next
      BY <1>2, <3>1 DEF Editor!GroupsOf
    <3>3. QED BY <3>2 DEF Editor!Inheriting
  <2>3. QED BY <2>1, <2>2
<1> HIDE DEF T
<1>5. 0 .. MaxDepth \subseteq T
  BY <1>3, <1>4, Parameters, Upwards
<1>6. ASSUME NEW n \in 1 .. MaxDepth
      PROVE  /\ w[n - 1].seen \subseteq w[n].seen
             /\ \A f \in w[n - 1].seen : d.field[f].group # 0 =>
                  Editor!Inheriting(d, {d.field[f].group}) \subseteq w[n].seen
  <2>1. n - 1 \in 0 .. MaxDepth
    BY Parameters
  <2>2. Near(n - 1)
    BY <1>5, <2>1 DEF T
  <2>3. QED BY <1>2, <2>2
<1>7. MaxDepth # 0 => Editor!Inheriting(d, {f \in Editor!Rows(d) : d.field[f].voice}) \subseteq w[1].seen
  <2>1. MaxDepth # 0 => 1 \in 1 .. MaxDepth /\ 1 - 1 = 0
    BY Parameters
  <2>2. MaxDepth # 0 => w[1].seen = w[0].seen \cup Editor!Inheriting(d, w[0].next)
    BY <1>2, <2>1
  <2>3. QED BY <1>1, <2>2
<1>8. QED BY <1>1, <1>6, <1>7

\* What is heard with a field shown at depth k: whoever is to answer by voice below
\* it is as many rounds away as levels.
Heard(d, f, k) ==
    {x \in Shown : /\ k <= x.depth
                   /\ x.depth < MaxDepth /\ Editor!Type(d, x.field) => f \in Editor!Reached(d)[(x.depth - k) + 1].seen}

\* A field is found with the one it takes its form from.
LEMMA SourceFound ==
    ASSUME NEW d \in Editor!Databases, NEW f \in Fields, f \in Editor!Rows(d)
    PROVE  f \in Editor!Inheriting(d, {Editor!Source(d, f)})
BY DEF Editor!Inheriting, Editor!Source

LEMMA SourceTyped ==
    ASSUME NEW d \in Editor!Databases, NEW f \in Fields
    PROVE  Editor!Source(d, f) \in Fields /\ Editor!Source(d, f) # 0
<1>1. d.field[f].tmpl \in Fields \cup {0} /\ f # 0 /\ 0 \notin Fields
  BY RowFacts, Parameters
<1>2. QED BY <1>1 DEF Editor!Source

LEMMA HeardBelow ==
    ASSUME NEW d \in Editor!Databases, NEW f \in Fields, f \in Editor!Rows(d), NEW k \in Nat,
           NEW c \in Editor!Inside(d, Editor!Source(d, f))
    PROVE  Heard(d, c, k + 1) \subseteq Heard(d, f, k)
<1> SUFFICES ASSUME NEW x \in Heard(d, c, k + 1) PROVE x \in Heard(d, f, k)
  OBVIOUS
<1>1. x \in Shown /\ x.depth \in Nat /\ k + 1 <= x.depth
  BY DEF Heard, Shown
<1>2. k <= x.depth
  BY <1>1
<1>3. ASSUME x.depth < MaxDepth, Editor!Type(d, x.field)
      PROVE  f \in Editor!Reached(d)[(x.depth - k) + 1].seen
  <2> DEFINE n == (x.depth - k) + 1
  <2>1. n \in 1 .. MaxDepth /\ n - 1 = (x.depth - (k + 1)) + 1
    BY <1>1, <1>3, Parameters
  <2>2. c \in Editor!Reached(d)[(x.depth - (k + 1)) + 1].seen
    BY <1>3 DEF Heard
  <2> HIDE DEF n
  <2>3. c \in Editor!Reached(d)[n - 1].seen
    BY <2>1, <2>2
  <2>4. d.field[c].group = Editor!Source(d, f) /\ Editor!Source(d, f) # 0
    BY SourceTyped DEF Editor!Inside
  <2>5. Editor!Inheriting(d, {d.field[c].group}) \subseteq Editor!Reached(d)[n].seen
    BY <2>1, <2>3, <2>4, ReachedFacts
  <2>6. f \in Editor!Reached(d)[n].seen
    BY <2>4, <2>5, SourceFound
  <2>7. QED BY <2>6 DEF n
<1>4. QED BY <1>1, <1>2, <1>3 DEF Heard

LEMMA HeardHere ==
    ASSUME NEW d \in Editor!Databases, NEW f \in Fields, f \in Editor!Rows(d), NEW n \in 1 .. MaxDepth
    PROVE  Editor!Node(f, n) \in Heard(d, f, MaxDepth - n)
<1> DEFINE x == Editor!Node(f, n)
<1>1. n \in 0 .. MaxDepth /\ MaxDepth # 0
  BY Parameters
<1>2. x \in Shown /\ x.field = f /\ x.depth = MaxDepth - n
  BY <1>1, NodeTyped
<1>3. MaxDepth - n <= x.depth /\ (x.depth - (MaxDepth - n)) + 1 = 1
  BY <1>2, Parameters
<1> HIDE DEF x
<1>4. ASSUME Editor!Type(d, f) PROVE f \in Editor!Reached(d)[1].seen
  <2> DEFINE s == Editor!Source(d, f)
  <2>1. s \in Fields /\ d.field[s].voice
    BY <1>4, SourceTyped DEF Editor!Type
  <2>2. s \in Editor!Rows(d)
    BY <2>1, RowFacts
  <2> HIDE DEF s
  <2>3. {s} \subseteq {g \in Editor!Rows(d) : d.field[g].voice}
    BY <2>1, <2>2
  <2>4. f \in Editor!Inheriting(d, {s})
    BY SourceFound DEF s
  <2>5. f \in Editor!Inheriting(d, {g \in Editor!Rows(d) : d.field[g].voice})
    BY <2>3, <2>4 DEF Editor!Inheriting
  <2>6. QED BY <1>1, <2>5, ReachedFacts
<1>5. QED BY <1>2, <1>3, <1>4 DEF Heard, x

LEMMA NodesHeard ==
    ASSUME NEW d \in Editor!Databases
    PROVE  \A f \in Fields : f \in Editor!Rows(d) => Editor!Nodes(d, TRUE)[MaxDepth][f] \in Seq(Heard(d, f, 0))
<1>1. PICK w \in [0 .. MaxDepth -> NodeLists] :
        /\ w[0] = [f \in Fields |-> <<Editor!Node(f, 0)>>]
        /\ \A i \in 1 .. MaxDepth : w[i] = Editor!Opened(d, TRUE, i, w[i - 1])
        /\ Editor!Nodes(d, TRUE) = w
  BY NodesWalk
<1> DEFINE Good == {n \in Nat : \A f \in Fields : f \in Editor!Rows(d) => w[n][f] \in Seq(Heard(d, f, MaxDepth - n))}
<1>2. 0 \in Good
  <2> SUFFICES ASSUME NEW f \in Fields, f \in Editor!Rows(d) PROVE w[0][f] \in Seq(Heard(d, f, MaxDepth - 0))
    OBVIOUS
  <2> DEFINE x == Editor!Node(f, 0)
  <2>0. 0 \in 0 .. MaxDepth
    BY Parameters
  <2>1. w[0][f] = <<x>>
    BY <1>1
  <2>2. x \in Shown /\ x.depth = MaxDepth - 0
    BY <2>0, NodeTyped
  <2>3. MaxDepth - 0 <= x.depth /\ ~(x.depth < MaxDepth)
    BY <2>2, Parameters
  <2> HIDE DEF x
  <2>4. x \in Heard(d, f, MaxDepth - 0)
    BY <2>2, <2>3 DEF Heard
  <2>5. QED BY <2>1, <2>4, SingleList
<1>3. ASSUME NEW n \in 1 .. MaxDepth, n - 1 \in Good PROVE n \in Good
  <2> SUFFICES ASSUME NEW f \in Fields, f \in Editor!Rows(d) PROVE w[n][f] \in Seq(Heard(d, f, MaxDepth - n))
    BY Parameters
  <2> DEFINE x == Editor!Node(f, n)
             s == OfChildren(d, f, TRUE, w[n - 1])
             k == MaxDepth - n
             P == Heard(d, f, k)
  <2>1. w[n][f] = <<x>> \o s
    <3>1. w[n] = Editor!Opened(d, TRUE, n, w[n - 1])
      BY <1>1
    <3>2. QED BY <3>1 DEF Editor!Opened, OfChildren
  <2>2. x \in P
    BY HeardHere
  <2>3. MaxDepth - (n - 1) = k + 1 /\ k \in Nat
    BY Parameters
  <2> HIDE DEF k, x
  <2>4. ASSUME NEW g \in Editor!Inside(d, Editor!Source(d, f)) PROVE w[n - 1][g] \in Seq(P)
    <3>1. g \in Fields /\ g \in Editor!Rows(d)
      BY DEF Editor!Inside, Editor!Rows
    <3>2. w[n - 1][g] \in Seq(Heard(d, g, k + 1))
      BY <1>3, <2>3, <3>1
    <3>3. Heard(d, g, k + 1) \subseteq P
      BY <2>3, HeardBelow
    <3> HIDE DEF P
    <3>4. QED BY <3>2, <3>3
  <2> HIDE DEF P, Good
  <2>5. Closed(Seq(P)) /\ << >> \in Seq(P)
    BY SeqClosed
  <2>6. s \in Seq(P)
    BY <2>4, <2>5, ChildrenIn
  <2> HIDE DEF s
  <2>7. <<x>> \o s \in Seq(P)
    BY <2>2, <2>6, SingleList, ConcatProperties
  <2>8. QED BY <2>1, <2>7 DEF P, k
<1> HIDE DEF Good
<1>4. 0 .. MaxDepth \subseteq Good
  BY <1>2, <1>3, Parameters, Upwards
<1>5. MaxDepth \in Good /\ MaxDepth - MaxDepth = 0
  BY <1>4, Parameters
<1>6. QED BY <1>1, <1>5 DEF Good

LEMMA ReachedUp ==
    ASSUME NEW d \in Editor!Databases, NEW m \in 0 .. MaxDepth
    PROVE  Editor!Reached(d)[m].seen \subseteq Editor!Reached(d)[MaxDepth].seen
<1> DEFINE T == {n \in Nat : m <= n => Editor!Reached(d)[m].seen \subseteq Editor!Reached(d)[n].seen}
<1>1. 0 \in T
  <2>1. m <= 0 => m = 0
    OBVIOUS
  <2>2. QED BY <2>1
<1>2. ASSUME NEW n \in 1 .. MaxDepth, n - 1 \in T PROVE n \in T
  <2>1. Editor!Reached(d)[n - 1].seen \subseteq Editor!Reached(d)[n].seen
    BY ReachedFacts
  <2>2. m <= n => m <= n - 1 \/ m = n
    OBVIOUS
  <2>3. QED BY <1>2, <2>1, <2>2
<1> HIDE DEF T
<1>3. 0 .. MaxDepth \subseteq T
  BY <1>1, <1>2, Parameters, Upwards
<1>4. MaxDepth \in T
  BY <1>3, Parameters
<1>5. QED BY <1>4, Parameters DEF T

LEMMA SeqOfMore == ASSUME NEW A, NEW B, A \subseteq B PROVE Seq(A) \subseteq Seq(B)
OBVIOUS

LEMMA VoiceGranted == LinksInv => Editor!VoiceIsGranted
<1> SUFFICES ASSUME LinksInv, NEW t \in Tenants, NEW q \in {db.context[t].main, db.context[t].extra} \ {0},
                    NEW node \in Editor!Range(Editor!Shown(db, q, TRUE)),
                    node.depth < MaxDepth, Editor!Type(db, node.field)
             PROVE  t \in Editor!UsingVoice(db)
  BY DEF Editor!VoiceIsGranted
<1>1. db \in Editor!Databases
  BY DEF LinksInv, Linked
<1> DEFINE last == Editor!Reached(db)[MaxDepth].seen
           found == \E f \in last : db.field[f].form = q
           P == {x \in Shown : x.depth < MaxDepth /\ Editor!Type(db, x.field) => found}
<1>2. ASSUME NEW f \in Fields, f \in Editor!Rows(db), db.field[f].form = q
      PROVE  Editor!Nodes(db, TRUE)[MaxDepth][f] \in Seq(P)
  <2>1. Editor!Nodes(db, TRUE)[MaxDepth][f] \in Seq(Heard(db, f, 0))
    BY <1>1, <1>2, NodesHeard
  <2>2. ASSUME NEW x \in Heard(db, f, 0) PROVE x \in P
    <3>1. x \in Shown /\ x.depth \in Nat
      BY DEF Heard, Shown
    <3>2. ASSUME x.depth < MaxDepth, Editor!Type(db, x.field) PROVE found
      <4>1. f \in Editor!Reached(db)[(x.depth - 0) + 1].seen
        BY <3>2 DEF Heard
      <4>2. (x.depth - 0) + 1 \in 0 .. MaxDepth
        BY <3>1, <3>2, Parameters
      <4>3. f \in last
        BY <1>1, <4>1, <4>2, ReachedUp
      <4>4. QED BY <1>2, <4>3
    <3>3. QED BY <3>1, <3>2
  <2> HIDE DEF P
  <2>3. Heard(db, f, 0) \subseteq P
    BY <2>2
  <2>4. Seq(Heard(db, f, 0)) \subseteq Seq(P)
    BY <2>3, SeqOfMore
  <2>5. QED BY <2>1, <2>4
<1> HIDE DEF P
<1>3. Closed(Seq(P)) /\ << >> \in Seq(P)
  BY SeqClosed
<1>4. Editor!Shown(db, q, TRUE) \in Seq(P)
  BY <1>1, <1>2, <1>3, ShownIn
<1>5. \E i \in DOMAIN Editor!Shown(db, q, TRUE) : node = Editor!Shown(db, q, TRUE)[i]
  BY DEF Editor!Range
<1>6. node \in P
  <2> DEFINE shown == Editor!Shown(db, q, TRUE)
  <2>1. PICK i \in DOMAIN shown : node = shown[i]
    BY <1>5
  <2>2. shown \in Seq(P)
    BY <1>4
  <2> HIDE DEF shown
  <2>3. i \in 1 .. Len(shown)
    BY <2>1, <2>2, LenProperties
  <2>4. QED BY <2>1, <2>2, <2>3, ElementOfSeq
<1>7. found
  BY <1>6 DEF P
<1>8. PICK f \in last : db.field[f].form = q
  BY <1>7
<1>9. q \in {db.context[t].main, db.context[t].extra} \cap ({db.field[g].form : g \in last} \ {0})
  BY <1>8
<1>10. QED BY <1>9 DEF Editor!UsingVoice

-----------------------------------------------------------------------------
(* Levels *)

LEMMA NestingAllowed == MaxNesting \in Nat /\ MaxNesting # 0 /\ 0 <= MaxNesting - 1
<1>1. MaxNesting \in Nat \ {0}
  BY AdministrationAssumption DEF Editor!FormsAssumption
<1>2. QED BY <1>1

\* Each field is at a level, one more than its group's.
Levels(d) ==
    {L \in [Fields -> 0 .. MaxNesting - 1] :
       \A f \in Fields : L[f] = IF d.field[f].group = 0 THEN 0 ELSE L[d.field[f].group] + 1}

Nests(d) == Levels(d) # {}

LEMMA AroundTyped ==
    ASSUME NEW d \in Editor!Databases
    PROVE  \A S \in SUBSET Fields : Editor!Around(d, S) \in SUBSET Fields
BY GroupsTyped DEF Editor!Around

LEMMA AboveWalk ==
    ASSUME NEW d \in Editor!Databases, NEW f \in Fields \cup {0}
    PROVE  \E w \in [0 .. MaxNesting -> SUBSET Fields] :
             /\ w[0] = {f} \ {0}
             /\ \A i \in 1 .. MaxNesting : w[i] = Editor!Around(d, w[i - 1])
             /\ Editor!Above(d, f) = w[MaxNesting]
<1> DEFINE n == MaxNesting
           base == {f} \ {0}
           step == [p \in (1 .. n) \X SUBSET Fields |-> Editor!Around(d, p[2])]
           Good(g) == g = [i \in 0 .. n |-> IF i = 0 THEN base ELSE Editor!Around(d, g[i - 1])]
           w == CHOOSE g : Good(g)
<1>1. n \in Nat /\ base \in SUBSET Fields
  BY Parameters
<1>2. \A i \in 1 .. n : \A x \in SUBSET Fields : Editor!Around(d, x) \in SUBSET Fields
  BY AroundTyped
<1>3. step \in Steps(n, SUBSET Fields)
  BY <1>2 DEF Steps
<1>4. PICK g \in Walks(n, SUBSET Fields) : Follows(g, n, base, step)
  <2> HIDE DEF step, n, base
  <2> QED BY <1>1, <1>3, Recursion
<1>5. \A i \in 0 .. n : g[i] = IF i = 0 THEN base ELSE Editor!Around(d, g[i - 1])
  <2> SUFFICES ASSUME NEW i \in 0 .. n PROVE g[i] = IF i = 0 THEN base ELSE Editor!Around(d, g[i - 1])
    OBVIOUS
  <2>1. CASE i = 0
    BY <1>4, <2>1 DEF Follows
  <2>2. CASE i # 0
    <3>1. i \in 1 .. n /\ i - 1 \in 0 .. n
      BY <1>1, <2>2
    <3>2. g[i - 1] \in SUBSET Fields /\ g[i] = step[<<i, g[i - 1]>>]
      BY <1>4, <3>1 DEF Walks, Follows
    <3>3. <<i, g[i - 1]>> \in (1 .. n) \X SUBSET Fields
      BY <3>1, <3>2
    <3>4. QED BY <2>2, <3>2, <3>3
  <2>3. QED BY <2>1, <2>2
<1>6. Good(g)
  <2> HIDE DEF base, step
  <2> QED BY <1>4, <1>5 DEF Walks
<1>7. Good(w)
  BY <1>6
<1>8. Editor!Above(d, f) = w[MaxNesting]
  BY DEF Editor!Above
<1> HIDE DEF w
<1>9. w = [i \in 0 .. n |-> w[i]] /\ \A i \in 0 .. n : w[i] = IF i = 0 THEN base ELSE Editor!Around(d, w[i - 1])
  <2> HIDE DEF base
  <2>1. \A i \in 0 .. n : w[i] = IF i = 0 THEN base ELSE Editor!Around(d, w[i - 1])
    BY <1>7
  <2>2. QED BY <1>7, <2>1
<1>10. w[0] = base /\ \A i \in 1 .. n : w[i] = Editor!Around(d, w[i - 1])
  <2>1. 0 \in 0 .. n /\ \A i \in 1 .. n : i \in 0 .. n /\ i # 0
    BY <1>1
  <2> HIDE DEF base
  <2> QED BY <1>9, <2>1
<1>11. \A i \in 0 .. n : w[i] \in SUBSET Fields
  <2> DEFINE Typed == {i \in Nat : w[i] \in SUBSET Fields}
  <2>1. 0 \in Typed
    BY <1>1, <1>10
  <2>2. ASSUME NEW i \in 1 .. n, i - 1 \in Typed PROVE i \in Typed
    BY <1>2, <1>10, <2>2
  <2> HIDE DEF Typed
  <2>3. 0 .. n \subseteq Typed
    BY <1>1, <2>1, <2>2, Upwards
  <2>4. QED BY <2>3 DEF Typed
<1>12. QED BY <1>8, <1>9, <1>10, <1>11

LEMMA LevelFacts ==
    ASSUME NEW d \in Editor!Databases, NEW L \in Levels(d), NEW f \in Fields
    PROVE  /\ L[f] \in Nat /\ L[f] < MaxNesting
           /\ d.field[f].group = 0 => L[f] = 0
           /\ d.field[f].group # 0 => d.field[f].group \in Fields /\ L[f] = L[d.field[f].group] + 1
<1>1. L[f] \in 0 .. MaxNesting - 1
  BY DEF Levels
<1>2. L[f] = IF d.field[f].group = 0 THEN 0 ELSE L[d.field[f].group] + 1
  BY DEF Levels
<1>3. d.field[f].group \in Fields \cup {0}
  BY RowFacts
<1>4. QED BY <1>1, <1>2, <1>3, NestingAllowed

\* After n rounds upwards from g: a field of each level, n levels up or to the top.
Climbed(d, L, g, n, S) ==
    /\ S \in SUBSET Fields /\ g \in S
    /\ \A x \in S : L[x] <= L[g] /\ L[g] <= L[x] + n
    /\ \A x \in S, y \in S : L[x] = L[y] => x = y
    /\ \A x \in S : L[g] < L[x] + n => d.field[x].group \in S \cup {0}
    /\ \A l \in 0 .. L[g] : L[g] <= l + n => \E x \in S : L[x] = l

LEMMA Climb ==
    ASSUME NEW d \in Editor!Databases, NEW L \in Levels(d), NEW g \in Fields, NEW n \in Nat,
           NEW S, Climbed(d, L, g, n, S)
    PROVE  Climbed(d, L, g, n + 1, Editor!Around(d, S))
<1> DEFINE U == Editor!Around(d, S)
<1>1. S \in SUBSET Fields /\ g \in S
  BY DEF Climbed
<1>2. \A x \in Fields : /\ L[x] \in Nat
                        /\ d.field[x].group = 0 => L[x] = 0
                        /\ d.field[x].group # 0 => d.field[x].group \in Fields /\ L[x] = L[d.field[x].group] + 1
  BY LevelFacts
<1>3. U \in SUBSET Fields /\ S \subseteq U
  BY <1>1, AroundTyped DEF Editor!Around
<1>4. \A x \in S : d.field[x].group \in U \cup {0}
  BY DEF Editor!Around, Editor!GroupsOf
<1>5. \A y \in U : y \in S \/ \E x \in S : y = d.field[x].group /\ y # 0
  BY DEF Editor!Around, Editor!GroupsOf
<1> HIDE DEF U
<1>6. ASSUME NEW y \in U, y \notin S
      PROVE  \E x \in S : y = d.field[x].group /\ L[x] = L[y] + 1 /\ L[y] + (n + 1) = L[g]
  <2>1. PICK x \in S : y = d.field[x].group /\ y # 0
    BY <1>5, <1>6
  <2>2. x \in Fields /\ y \in Fields
    BY <1>1, <1>3
  <2>3. L[x] = L[y] + 1 /\ L[x] \in Nat /\ L[y] \in Nat /\ L[g] \in Nat
    BY <1>1, <1>2, <2>1, <2>2
  <2>4. ~(L[g] < L[x] + n) /\ L[g] <= L[x] + n
    BY <1>6, <2>1 DEF Climbed
  <2>5. QED BY <2>1, <2>3, <2>4
<1>7. \A x \in U : L[x] \in Nat /\ x \in Fields
  BY <1>2, <1>3
<1>8. L[g] \in Nat
  BY <1>1, <1>2
<1>9. ASSUME NEW x \in U PROVE L[x] <= L[g] /\ L[g] <= L[x] + (n + 1)
  <2>1. CASE x \in S
    <3>1. L[x] <= L[g] /\ L[g] <= L[x] + n
      BY <2>1 DEF Climbed
    <3>2. QED BY <1>7, <1>8, <3>1
  <2>2. CASE x \notin S
    BY <1>6, <1>7, <1>8, <2>2
  <2>3. QED BY <2>1, <2>2
<1>10. ASSUME NEW x \in U, NEW y \in U, L[x] = L[y] PROVE x = y
  <2>1. CASE x \in S /\ y \in S
    BY <1>10, <2>1 DEF Climbed
  <2>2. ASSUME NEW a \in S, NEW c \in U, c \notin S, L[a] = L[c] PROVE FALSE
    <3>1. L[c] + (n + 1) = L[g]
      BY <1>6, <2>2
    <3>2. L[g] <= L[a] + n
      BY DEF Climbed
    <3>3. L[a] \in Nat /\ L[c] \in Nat
      BY <1>3, <1>7
    <3>4. QED BY <1>8, <2>2, <3>1, <3>2, <3>3
  <2>3. CASE x \notin S /\ y \notin S
    <3>1. PICK a \in S : x = d.field[a].group /\ L[a] = L[x] + 1
      BY <1>6, <2>3
    <3>2. PICK c \in S : y = d.field[c].group /\ L[c] = L[y] + 1
      BY <1>6, <2>3
    <3>3. L[a] = L[c]
      BY <1>10, <3>1, <3>2
    <3>4. a = c
      BY <3>3 DEF Climbed
    <3>5. QED BY <3>1, <3>2, <3>4
  <2>4. QED BY <1>10, <2>1, <2>2, <2>3
<1>11. ASSUME NEW x \in U, L[g] < L[x] + (n + 1) PROVE d.field[x].group \in U \cup {0}
  <2>1. CASE x \in S
    BY <1>4, <2>1
  <2>2. CASE x \notin S
    BY <1>6, <1>7, <1>8, <1>11, <2>2
  <2>3. QED BY <2>1, <2>2
<1>12. ASSUME NEW l \in 0 .. L[g], L[g] <= l + (n + 1) PROVE \E x \in U : L[x] = l
  <2>1. CASE L[g] <= l + n
    <3>1. \E x \in S : L[x] = l
      BY <2>1 DEF Climbed
    <3>2. QED BY <1>3, <3>1
  <2>2. CASE ~(L[g] <= l + n)
    <3> DEFINE m == l + 1
    <3>1. m \in 0 .. L[g] /\ L[g] <= m + n /\ l \in Nat /\ m # 0
      BY <1>8, <1>12, <2>2
    <3> HIDE DEF m
    <3>2. PICK x \in S : L[x] = m
      BY <3>1 DEF Climbed
    <3>3. x \in Fields /\ d.field[x].group # 0
      BY <1>1, <1>2, <3>1, <3>2
    <3>4. d.field[x].group \in U /\ L[d.field[x].group] \in Nat /\ L[x] = L[d.field[x].group] + 1
      BY <1>2, <1>4, <1>7, <3>3
    <3>5. L[d.field[x].group] = l
      BY <3>1, <3>2, <3>4 DEF m
    <3>6. QED BY <3>4, <3>5
  <2>3. QED BY <2>1, <2>2
<1>13. Climbed(d, L, g, n + 1, U)
  BY <1>1, <1>3, <1>9, <1>10, <1>11, <1>12 DEF Climbed
<1>14. QED BY <1>13 DEF U

\* The fields above one: one at each level up to its own, and their groups.
LEMMA AboveFacts ==
    ASSUME NEW d \in Editor!Databases, NEW L \in Levels(d), NEW g \in Fields
    PROVE  /\ Editor!Above(d, g) \in SUBSET Fields /\ g \in Editor!Above(d, g)
           /\ \A x \in Editor!Above(d, g) : L[x] <= L[g] /\ d.field[x].group \in Editor!Above(d, g) \cup {0}
           /\ Cardinality(Editor!Above(d, g)) = L[g] + 1
<1>0. g \in Fields \cup {0} /\ g # 0
  BY Parameters
<1>1. PICK w \in [0 .. MaxNesting -> SUBSET Fields] :
             /\ w[0] = {g} \ {0}
             /\ \A i \in 1 .. MaxNesting : w[i] = Editor!Around(d, w[i - 1])
             /\ Editor!Above(d, g) = w[MaxNesting]
  BY <1>0, AboveWalk
<1> DEFINE T == {n \in Nat : Climbed(d, L, g, n, w[n])}
<1>2. L[g] \in Nat /\ L[g] < MaxNesting
  BY LevelFacts
<1>3. 0 \in T
  <2>1. w[0] = {g}
    BY <1>0, <1>1
  <2>2. \A l \in 0 .. L[g] : L[g] <= l + 0 => l = L[g]
    BY <1>2
  <2>3. L[g] <= L[g] + 0 /\ ~(L[g] < L[g] + 0) /\ L[g] <= L[g]
    BY <1>2
  <2>4. Climbed(d, L, g, 0, {g})
    BY <2>2, <2>3 DEF Climbed
  <2>5. QED BY <2>1, <2>4
<1>4. ASSUME NEW n \in 1 .. MaxNesting, n - 1 \in T PROVE n \in T
  <2>1. n - 1 \in Nat /\ (n - 1) + 1 = n /\ n \in Nat
    BY NestingAllowed
  <2>2. Climbed(d, L, g, n - 1, w[n - 1])
    BY <1>4
  <2>3. Climbed(d, L, g, (n - 1) + 1, Editor!Around(d, w[n - 1]))
    BY <2>1, <2>2, Climb
  <2>4. w[n] = Editor!Around(d, w[n - 1])
    BY <1>1
  <2>5. QED BY <2>1, <2>3, <2>4
<1> HIDE DEF T
<1>5. 0 .. MaxNesting \subseteq T
  BY <1>3, <1>4, NestingAllowed, Upwards
<1>6. Climbed(d, L, g, MaxNesting, w[MaxNesting])
  BY <1>5, NestingAllowed DEF T
<1> DEFINE S == Editor!Above(d, g)
<1>7. Climbed(d, L, g, MaxNesting, S)
  BY <1>1, <1>6
<1> HIDE DEF S
<1>8. S \in SUBSET Fields /\ g \in S /\ \A x \in S : L[x] <= L[g]
  BY <1>7 DEF Climbed
<1>9. \A x \in S : L[x] \in Nat
  BY <1>8, LevelFacts
<1>10. \A x \in S : L[g] < L[x] + MaxNesting
  BY <1>2, <1>9, NestingAllowed
<1>11. \A x \in S : d.field[x].group \in S \cup {0}
  BY <1>7, <1>10 DEF Climbed
<1>12. \A l \in 0 .. L[g] : \E x \in S : L[x] = l
  <2>1. \A l \in 0 .. L[g] : L[g] <= l + MaxNesting
    BY <1>2, NestingAllowed
  <2>2. QED BY <1>7, <2>1 DEF Climbed
<1> DEFINE level == [x \in S |-> L[x]]
<1>13. level \in [S -> 0 .. L[g]]
  BY <1>2, <1>8, <1>9
<1>14. \A x \in S, y \in S : level[x] = level[y] => x = y
  BY <1>7 DEF Climbed
<1>15. \A l \in 0 .. L[g] : \E x \in S : level[x] = l
  BY <1>12
<1> HIDE DEF level
<1>16. level \in Injection(S, 0 .. L[g])
  BY <1>13, <1>14 DEF Injection, IsInjective
<1>17. level \in Surjection(S, 0 .. L[g])
  BY <1>13, <1>15 DEF Surjection
<1>18. IsFiniteSet(0 .. L[g]) /\ Cardinality(0 .. L[g]) = L[g] + 1
  BY <1>2, FS_Interval
<1>19. Cardinality(S) = L[g] + 1
  BY <1>16, <1>17, <1>18, FS_Injection
<1>20. QED BY <1>8, <1>11, <1>19 DEF S

LEMMA AboveNone == ASSUME NEW d \in Editor!Databases PROVE Editor!Above(d, 0) = {} /\ Editor!Cardinality({}) = 0
<1>1. PICK w \in [0 .. MaxNesting -> SUBSET Fields] :
             /\ w[0] = {0} \ {0}
             /\ \A i \in 1 .. MaxNesting : w[i] = Editor!Around(d, w[i - 1])
             /\ Editor!Above(d, 0) = w[MaxNesting]
  BY AboveWalk
<1> DEFINE T == {n \in Nat : w[n] = {}}
<1>2. 0 \in T
  BY <1>1
<1>3. ASSUME NEW n \in 1 .. MaxNesting, n - 1 \in T PROVE n \in T
  <2>1. w[n] = Editor!Around(d, {})
    BY <1>1, <1>3
  <2>2. QED BY <2>1, NestingAllowed DEF Editor!Around, Editor!GroupsOf
<1> HIDE DEF T
<1>4. 0 .. MaxNesting \subseteq T
  BY <1>2, <1>3, NestingAllowed, Upwards
<1>5. w[MaxNesting] = {}
  BY <1>4, NestingAllowed DEF T
<1>6. QED BY <1>1, <1>5, SameCount, FS_EmptySet

\* Fields at levels are in no loop of groups, and not too deep.
LEMMA NestedWell ==
    ASSUME NEW d \in Editor!Databases, Nests(d), NEW f \in Fields
    PROVE  f \notin Editor!Above(d, d.field[f].group) /\ Editor!Depth(d, f) < MaxNesting
<1>1. PICK L \in Levels(d) : TRUE
  BY DEF Nests
<1> DEFINE g == d.field[f].group
<1>2. Editor!Depth(d, f) = Cardinality(Editor!Above(d, g))
  BY SameCount DEF Editor!Depth
<1>3. CASE g = 0
  <2>1. Editor!Above(d, g) = {} /\ Cardinality({}) = 0
    BY <1>3, AboveNone, SameCount
  <2>2. QED BY <1>2, <2>1, NestingAllowed
<1>4. CASE g # 0
  <2>1. g \in Fields /\ L[f] = L[g] + 1 /\ L[f] \in Nat /\ L[f] < MaxNesting
    BY <1>4, LevelFacts
  <2> HIDE DEF g
  <2>2. L[g] \in Nat
    BY <2>1, LevelFacts
  <2>3. (\A x \in Editor!Above(d, g) : L[x] <= L[g]) /\ Cardinality(Editor!Above(d, g)) = L[g] + 1
    BY <2>1, AboveFacts
  <2>4. f \notin Editor!Above(d, g)
    BY <2>1, <2>2, <2>3
  <2>5. Editor!Depth(d, f) < MaxNesting
    BY <1>2, <2>1, <2>3
  <2>6. QED BY <2>4, <2>5 DEF g
<1>5. QED BY <1>3, <1>4

-----------------------------------------------------------------------------
(* What is below a field, and how deep *)

\* A level of what is below, and what was met down to it
Floors == [level : SUBSET Fields, visited : SUBSET Fields]

LEMMA LevelTyped ==
    ASSUME NEW d \in Editor!Databases, NEW t
    PROVE  /\ \A f \in Fields : [level |-> {f}, visited |-> {f}] \in Floors
           /\ \A b \in Floors : Editor!Deeper(d, t, b) \in Floors
<1>1. \A f \in Fields : [level |-> {f}, visited |-> {f}] \in Floors
  BY DEF Floors
<1>2. ASSUME NEW b \in Floors PROVE Editor!Deeper(d, t, b) \in Floors
  <2> DEFINE level == {g \in Editor!Rows(d) : d.field[g].tid = t /\ d.field[g].group \in b.level} \ b.visited
  <2>1. b.visited \in SUBSET Fields
    BY DEF Floors
  <2>2. level \in SUBSET Fields
    BY DEF Editor!Rows
  <2>3. Editor!Deeper(d, t, b) = [level |-> level, visited |-> b.visited \cup level]
    BY DEF Editor!Deeper
  <2> HIDE DEF level
  <2>4. QED BY <2>1, <2>2, <2>3 DEF Floors
<1>3. QED BY <1>1, <1>2

LEMMA BelowWalk ==
    ASSUME NEW d \in Editor!Databases, NEW t, NEW f \in Fields
    PROVE  \E w \in [0 .. MaxNesting -> Floors] :
             /\ w[0] = [level |-> {f}, visited |-> {f}]
             /\ \A i \in 1 .. MaxNesting : w[i] = Editor!Deeper(d, t, w[i - 1])
             /\ Editor!Below(d, t, f) = w
<1> DEFINE n == MaxNesting
           base == [level |-> {f}, visited |-> {f}]
           step == [p \in (1 .. n) \X Floors |-> Editor!Deeper(d, t, p[2])]
           Good(g) == g = [i \in 0 .. n |-> IF i = 0 THEN base ELSE Editor!Deeper(d, t, g[i - 1])]
           w == CHOOSE g : Good(g)
<1>1. n \in Nat /\ base \in Floors
  BY Parameters, LevelTyped
<1>2. \A i \in 1 .. n : \A x \in Floors : Editor!Deeper(d, t, x) \in Floors
  BY LevelTyped
<1>3. step \in Steps(n, Floors)
  BY <1>2 DEF Steps
<1>4. PICK g \in Walks(n, Floors) : Follows(g, n, base, step)
  <2> HIDE DEF step, n, base
  <2> QED BY <1>1, <1>3, Recursion
<1>5. \A i \in 0 .. n : g[i] = IF i = 0 THEN base ELSE Editor!Deeper(d, t, g[i - 1])
  <2> SUFFICES ASSUME NEW i \in 0 .. n PROVE g[i] = IF i = 0 THEN base ELSE Editor!Deeper(d, t, g[i - 1])
    OBVIOUS
  <2>1. CASE i = 0
    BY <1>4, <2>1 DEF Follows
  <2>2. CASE i # 0
    <3>1. i \in 1 .. n /\ i - 1 \in 0 .. n
      BY <1>1, <2>2
    <3>2. g[i - 1] \in Floors /\ g[i] = step[<<i, g[i - 1]>>]
      BY <1>4, <3>1 DEF Walks, Follows
    <3>3. <<i, g[i - 1]>> \in (1 .. n) \X Floors
      BY <3>1, <3>2
    <3>4. QED BY <2>2, <3>2, <3>3
  <2>3. QED BY <2>1, <2>2
<1>6. Good(g)
  <2> HIDE DEF base, step
  <2> QED BY <1>4, <1>5 DEF Walks
<1>7. Good(w)
  BY <1>6
<1>8. Editor!Below(d, t, f) = w
  BY DEF Editor!Below
<1> HIDE DEF w
<1>9. w = [i \in 0 .. n |-> w[i]] /\ \A i \in 0 .. n : w[i] = IF i = 0 THEN base ELSE Editor!Deeper(d, t, w[i - 1])
  <2> HIDE DEF base
  <2>1. \A i \in 0 .. n : w[i] = IF i = 0 THEN base ELSE Editor!Deeper(d, t, w[i - 1])
    BY <1>7
  <2>2. QED BY <1>7, <2>1
<1>10. w[0] = base /\ \A i \in 1 .. n : w[i] = Editor!Deeper(d, t, w[i - 1])
  <2>1. 0 \in 0 .. n /\ \A i \in 1 .. n : i \in 0 .. n /\ i # 0
    BY <1>1
  <2> HIDE DEF base
  <2> QED BY <1>9, <2>1
<1>11. \A i \in 0 .. n : w[i] \in Floors
  <2> DEFINE Typed == {i \in Nat : w[i] \in Floors}
  <2>1. 0 \in Typed
    BY <1>1, <1>10
  <2>2. ASSUME NEW i \in 1 .. n, i - 1 \in Typed PROVE i \in Typed
    BY <1>2, <1>10, <2>2
  <2> HIDE DEF Typed
  <2>3. 0 .. n \subseteq Typed
    BY <1>1, <2>1, <2>2, Upwards
  <2>4. QED BY <2>3 DEF Typed
<1>12. QED BY <1>8, <1>9, <1>10, <1>11

\* Closed downwards
Heir(d, f, C) == f \in C /\ \A y \in Fields : d.field[y].group \in C => y \in C

\* A field and all that is inside it, however far down
Under(d, f) == {x \in Fields : \A C \in SUBSET Fields : Heir(d, f, C) => x \in C}

LEMMA UnderFacts ==
    ASSUME NEW d \in Editor!Databases, NEW f \in Fields
    PROVE  /\ Under(d, f) \in SUBSET Fields /\ Heir(d, f, Under(d, f))
           /\ \A x \in Under(d, f) : x # f => d.field[x].group \in Under(d, f)
           /\ \A C \in SUBSET Fields : Heir(d, f, C) => Under(d, f) \subseteq C
<1> DEFINE D == Under(d, f)
<1>1. D \in SUBSET Fields /\ \A C \in SUBSET Fields : Heir(d, f, C) => D \subseteq C
  BY DEF Under
<1>2. f \in D
  BY DEF Under, Heir
<1>3. ASSUME NEW y \in Fields, d.field[y].group \in D PROVE y \in D
  <2> SUFFICES ASSUME NEW C \in SUBSET Fields, Heir(d, f, C) PROVE y \in C
    BY DEF Under
  <2>1. d.field[y].group \in C
    BY <1>1, <1>3
  <2>2. QED BY <2>1 DEF Heir
<1> HIDE DEF D
<1>4. Heir(d, f, D)
  BY <1>2, <1>3 DEF Heir
<1>5. ASSUME NEW x \in D, x # f, d.field[x].group \notin D PROVE FALSE
  <2>1. Heir(d, f, D \ {x}) /\ D \ {x} \in SUBSET Fields
    BY <1>1, <1>4, <1>5 DEF Heir
  <2>2. D \subseteq D \ {x}
    BY <1>1, <2>1
  <2>3. QED BY <2>2
<1>6. QED BY <1>1, <1>4, <1>5 DEF D

\* Nothing below a field is above it.
LEMMA UnderOrAbove ==
    ASSUME NEW d \in Editor!Databases, Nests(d), NEW f \in Fields, NEW g \in Fields, f \notin Editor!Above(d, g)
    PROVE  g \notin Under(d, f)
<1>1. PICK L \in Levels(d) : TRUE
  BY DEF Nests
<1> DEFINE A == Editor!Above(d, g)
           C == Fields \ A
<1>2. g \in A /\ \A x \in A : d.field[x].group \in A \cup {0}
  BY <1>1, AboveFacts
<1> HIDE DEF A
<1>3. Heir(d, f, C)
  <2>1. f \in C
    BY DEF A
  <2>2. ASSUME NEW y \in Fields, d.field[y].group \in C PROVE y \in C
    BY <1>2, <2>2, Parameters
  <2>3. QED BY <2>1, <2>2 DEF Heir
<1>4. Under(d, f) \subseteq C
  BY <1>3, UnderFacts
<1>5. QED BY <1>2, <1>4

\* Each level below a field of a tenant, as the walk downwards finds it.
LEMMA BelowFacts ==
    ASSUME NEW d, Linked(d), NEW L \in Levels(d), NEW f \in Fields, d.field[f].tid # 0,
           NEW x \in Under(d, f)
    PROVE  /\ L[f] <= L[x]
           /\ (L[x] - L[f]) + 1 <= Editor!Height(d, d.field[f].tid, f)
<1> DEFINE t == d.field[f].tid
<1>0. d \in Editor!Databases
  BY DEF Linked
<1>1. PICK w \in [0 .. MaxNesting -> Floors] :
        /\ w[0] = [level |-> {f}, visited |-> {f}]
        /\ \A i \in 1 .. MaxNesting : w[i] = Editor!Deeper(d, t, w[i - 1])
        /\ Editor!Below(d, t, f) = w
  BY <1>0, BelowWalk
<1>2. \A y \in Fields : L[y] \in Nat /\ L[y] < MaxNesting
  BY <1>0, LevelFacts
<1>3. ASSUME NEW n \in 1 .. MaxNesting
      PROVE  /\ w[n].level = {g \in Editor!Rows(d) : d.field[g].tid = t /\ d.field[g].group \in w[n - 1].level} \ w[n - 1].visited
             /\ w[n].visited = w[n - 1].visited \cup w[n].level
             /\ w[n - 1].level \in SUBSET Fields
  <2>1. w[n] = Editor!Deeper(d, t, w[n - 1])
    BY <1>1
  <2>2. n - 1 \in 0 .. MaxNesting
    BY NestingAllowed
  <2>3. w[n - 1].level \in SUBSET Fields
    BY <1>1, <2>2 DEF Floors
  <2>4. QED BY <2>1, <2>3 DEF Editor!Deeper
\* A level holds what is that many levels below.
<1> DEFINE T == {n \in Nat : /\ \A y \in w[n].level : y \in Fields /\ L[y] = L[f] + n
                             /\ \A y \in w[n].visited : y \in Fields /\ L[y] <= L[f] + n}
<1>4. 0 \in T
  BY <1>1, <1>2
<1>5. ASSUME NEW n \in 1 .. MaxNesting, n - 1 \in T PROVE n \in T
  <2>1. ASSUME NEW y \in w[n].level PROVE y \in Fields /\ L[y] = L[f] + n
    <3>1. y \in Fields /\ d.field[y].group \in w[n - 1].level /\ d.field[y].group \in Fields
      BY <1>3 DEF Editor!Rows
    <3>2. L[d.field[y].group] = L[f] + (n - 1)
      BY <1>5, <3>1
    <3>3. d.field[y].group # 0
      BY <3>1, Parameters
    <3>4. L[y] = L[d.field[y].group] + 1
      BY <1>0, <3>1, <3>3, LevelFacts
    <3>5. QED BY <1>2, <3>1, <3>2, <3>4
  <2>2. ASSUME NEW y \in w[n].visited PROVE y \in Fields /\ L[y] <= L[f] + n
    <3>1. CASE y \in w[n].level
      BY <1>2, <2>1, <3>1
    <3>2. CASE y \notin w[n].level
      <4>1. y \in w[n - 1].visited
        BY <1>3, <3>2
      <4>2. y \in Fields /\ L[y] <= L[f] + (n - 1)
        BY <1>5, <4>1
      <4>3. QED BY <1>2, <4>2
    <3>3. QED BY <3>1, <3>2
  <2>3. n \in Nat
    BY NestingAllowed
  <2>4. QED BY <2>1, <2>2, <2>3
<1> HIDE DEF T
<1>6. 0 .. MaxNesting \subseteq T
  BY <1>4, <1>5, NestingAllowed, Upwards
<1>7. \A n \in 0 .. MaxNesting : \A y \in w[n].visited : L[y] <= L[f] + n
  BY <1>6 DEF T
\* All that is under the field is met.
<1> DEFINE C == {y \in Fields : d.field[y].tid = t /\ L[f] <= L[y] /\ y \in w[L[y] - L[f]].level}
<1>8. Heir(d, f, C)
  <2>1. f \in C
    <3>1. L[f] - L[f] = 0 /\ L[f] <= L[f]
      BY <1>2
    <3>2. QED BY <1>1, <3>1
  <2>2. ASSUME NEW y \in Fields, d.field[y].group \in C PROVE y \in C
    <3> DEFINE g == d.field[y].group
               n == (L[g] - L[f]) + 1
    <3>1. g \in Fields /\ d.field[g].tid = t /\ L[f] <= L[g] /\ g \in w[L[g] - L[f]].level
      BY <2>2
    <3>2. g # 0
      BY <3>1, Parameters
    <3>3. d.field[y].tid # 0
      <4>1. d.field[y].tid = 0 => d.field[y].group = 0
        BY <1>0, RowFacts
      <4>2. QED BY <3>2, <4>1
    <3>4. d.field[y].tid = t /\ y \in Editor!Rows(d)
      BY <1>0, <3>1, <3>2, <3>3, LinkFacts, RowFacts
    <3>5. L[y] = L[g] + 1
      BY <1>0, <3>2, LevelFacts
    <3>6. n \in 1 .. MaxNesting /\ n - 1 = L[g] - L[f] /\ n = L[y] - L[f] /\ n - 1 \in 0 .. MaxNesting
          /\ L[f] <= L[y]
      BY <1>2, <3>1, <3>5, NestingAllowed
    <3> HIDE DEF n
    <3>7. y \notin w[n - 1].visited
      <4>1. L[y] = L[f] + n
        BY <1>2, <3>6
      <4>2. ~(L[y] <= L[f] + (n - 1))
        BY <1>2, <3>6, <4>1
      <4>3. QED BY <1>7, <3>6, <4>2
    <3>8. y \in w[n].level
      BY <1>3, <3>1, <3>4, <3>6, <3>7
    <3>9. QED BY <3>4, <3>6, <3>8
  <2>3. QED BY <2>1, <2>2 DEF Heir
<1>9. x \in C
  <2>1. C \in SUBSET Fields
    OBVIOUS
  <2> HIDE DEF C
  <2>2. QED BY <1>0, <1>8, <2>1, UnderFacts
<1> DEFINE k == L[x] - L[f]
<1>10. L[f] <= L[x] /\ k \in Nat /\ k <= MaxNesting /\ x \in w[k].level
  <2>1. x \in Fields /\ L[f] <= L[x] /\ x \in w[k].level
    BY <1>9
  <2>2. L[x] \in Nat /\ L[f] \in Nat /\ L[x] < MaxNesting
    BY <1>2, <2>1
  <2> HIDE DEF C
  <2>3. QED BY <2>1, <2>2, NestingAllowed
<1> HIDE DEF C, k
\* No level above a level that is not empty is.
<1> DEFINE full == {n \in 0 .. MaxNesting : w[n].level # {}}
           V == {n \in Nat : n <= k => w[k - n].level # {}}
<1>11. 0 \in V
  BY <1>10
<1>12. ASSUME NEW n \in 1 .. k, n - 1 \in V PROVE n \in V
  <2>1. w[k - (n - 1)].level # {} /\ k - (n - 1) \in 1 .. MaxNesting /\ (k - (n - 1)) - 1 = k - n
    BY <1>10, <1>12, NestingAllowed
  <2>2. w[(k - (n - 1)) - 1].level # {}
    BY <1>3, <2>1
  <2>3. n \in Nat
    BY <1>10
  <2>4. QED BY <2>1, <2>2, <2>3
<1> HIDE DEF V
<1>13. 0 .. k \subseteq V
  BY <1>10, <1>11, <1>12, Upwards
<1>14. ASSUME NEW n \in 0 .. k PROVE n \in full
  <2>1. k - n \in 0 .. k /\ k - (k - n) = n /\ n \in 0 .. MaxNesting
    BY <1>10, NestingAllowed
  <2>2. w[k - (k - n)].level # {}
    BY <1>13, <2>1 DEF V
  <2>3. QED BY <2>1, <2>2
<1>15. IsFiniteSet(full) /\ full \in SUBSET (0 .. MaxNesting)
  <2>1. IsFiniteSet(0 .. MaxNesting)
    BY NestingAllowed, FS_Interval
  <2>2. full \in SUBSET (0 .. MaxNesting)
    OBVIOUS
  <2> HIDE DEF full
  <2>3. QED BY <2>1, <2>2, FS_Subset
<1> HIDE DEF full
<1>16. Cardinality(0 .. k) = k + 1 /\ 0 .. k \in SUBSET full
  BY <1>10, <1>14, FS_Interval
<1>17. k + 1 <= Cardinality(full)
  <2>1. Cardinality(0 .. k) <= Cardinality(full)
    BY <1>15, <1>16, FS_Subset, Zenon
  <2>2. QED BY <1>16, <2>1
<1>18. f # 0
  BY Parameters
<1>19. Editor!Height(d, t, f) = Cardinality(full)
  <2>1. Editor!Height(d, t, f) = Editor!Cardinality({n \in 0 .. MaxNesting : Editor!Below(d, t, f)[n].level # {}})
    BY <1>18 DEF Editor!Height
  <2>2. {n \in 0 .. MaxNesting : Editor!Below(d, t, f)[n].level # {}} = full
    BY <1>1 DEF full
  <2>3. QED BY <2>1, <2>2, SameCount
<1>20. QED BY <1>10, <1>17, <1>19 DEF k

-----------------------------------------------------------------------------
(* Groups stay nested *)

LEMMA LevelsAre ==
    ASSUME NEW d, NEW L \in [Fields -> Nat], \A f \in Fields : L[f] < MaxNesting,
           \A f \in Fields : L[f] = IF d.field[f].group = 0 THEN 0 ELSE L[d.field[f].group] + 1
    PROVE  Nests(d)
<1>1. \A f \in Fields : L[f] \in 0 .. MaxNesting - 1
  BY NestingAllowed
<1>2. L \in [Fields -> 0 .. MaxNesting - 1]
  BY <1>1
<1>3. L \in Levels(d)
  BY <1>2 DEF Levels
<1>4. QED BY <1>3 DEF Nests

\* Nesting is of the groups alone.
LEMMA SameNests ==
    ASSUME NEW s, NEW d, Nests(s), \A f \in Fields : d.field[f].group = s.field[f].group
    PROVE  Nests(d)
BY DEF Nests, Levels

\* What a deletion leaves, by the foreign keys
LEMMA LessNests ==
    ASSUME NEW d \in Editor!Databases, NEW e \in Editor!Databases, Nests(d), Editor!Referenced(e),
           \A f \in Fields : e.field[f] \in {d.field[f], Editor!Gone}
    PROVE  Nests(e)
<1>1. PICK L \in Levels(d) : TRUE
  BY DEF Nests
<1> DEFINE M == [f \in Fields |-> IF e.field[f].tid = 0 THEN 0 ELSE L[f]]
<1>2. \A f \in Fields : L[f] \in Nat /\ L[f] < MaxNesting
  BY <1>1, LevelFacts
<1>3. M \in [Fields -> Nat] /\ \A f \in Fields : M[f] < MaxNesting
  BY <1>2, NestingAllowed
<1>4. ASSUME NEW f \in Fields PROVE M[f] = IF e.field[f].group = 0 THEN 0 ELSE M[e.field[f].group] + 1
  <2>1. CASE e.field[f].tid = 0
    BY <2>1, RowFacts
  <2>2. CASE e.field[f].tid # 0
    <3>0. f \in Editor!Rows(e)
      BY <2>2, RowFacts
    <3>1. e.field[f] = d.field[f] /\ M[f] = L[f] /\ f \in Editor!Rows(e)
      BY <2>2, <3>0 DEF Editor!Gone
    <3>2. CASE e.field[f].group = 0
      BY <1>1, <3>1, <3>2, LevelFacts
    <3>3. CASE e.field[f].group # 0
      <4> DEFINE g == e.field[f].group
      <4>1. g \in Fields /\ L[f] = L[g] + 1
        BY <1>1, <3>1, <3>3, LevelFacts
      <4>2. Editor!There(e, g)
        BY <3>1, <3>3 DEF Editor!Referenced
      <4> HIDE DEF g, M
      <4>3. e.field[g].tid # 0
        BY <4>1, <4>2, RowFacts
      <4>4. M[g] = L[g]
        BY <4>1, <4>3 DEF M
      <4>5. QED BY <3>1, <3>3, <4>1, <4>4 DEF g
    <3>4. QED BY <3>2, <3>3
  <2>3. QED BY <2>1, <2>2
<1> HIDE DEF M
<1>5. QED BY <1>3, <1>4, LevelsAre

\* A new field in a group that is not too deep
LEMMA NewNests ==
    ASSUME NEW d, Linked(d), Nests(d), NEW f \in Fields, d.field[f].tid = 0, NEW g \in Fields \cup {0}, NEW t,
           Editor!NestsWell(d, t, 0, g), g # f, NEW e,
           \A x \in Fields : e.field[x].group = IF x = f THEN g ELSE d.field[x].group
    PROVE  Nests(e)
<1>0. d \in Editor!Databases
  BY DEF Linked
<1>1. PICK L \in Levels(d) : TRUE
  BY DEF Nests
<1>2. \A x \in Fields : L[x] \in Nat /\ L[x] < MaxNesting
  BY <1>0, <1>1, LevelFacts
<1>3. g # 0 => L[g] + 2 <= MaxNesting
  <2> SUFFICES ASSUME g # 0 PROVE L[g] + 2 <= MaxNesting
    OBVIOUS
  <2>1. Editor!Cardinality(Editor!Above(d, g)) + Editor!Height(d, t, 0) <= MaxNesting
    BY DEF Editor!NestsWell
  <2>2. Editor!Height(d, t, 0) = 1
    BY DEF Editor!Height
  <2>3. Editor!Cardinality(Editor!Above(d, g)) = L[g] + 1
    BY <1>0, <1>1, AboveFacts, SameCount
  <2>4. g \in Fields
    OBVIOUS
  <2>5. QED BY <1>2, <2>1, <2>2, <2>3, <2>4
<1>4. ASSUME NEW x \in Fields PROVE d.field[x].group # f
  <2>1. CASE d.field[x].tid = 0
    BY <1>0, <2>1, RowFacts, Parameters
  <2>2. CASE d.field[x].tid # 0
    BY <2>2, LinkFacts, Parameters
  <2>3. QED BY <2>1, <2>2
<1> DEFINE M == [x \in Fields |-> IF x = f THEN IF g = 0 THEN 0 ELSE L[g] + 1 ELSE L[x]]
<1>5. M \in [Fields -> Nat] /\ \A x \in Fields : M[x] < MaxNesting
  <2>0. g # 0 => g \in Fields /\ L[g] \in Nat
    BY <1>2
  <2>1. g # 0 => g \in Fields /\ L[g] \in Nat /\ L[g] + 1 < MaxNesting
    BY <1>3, <2>0, NestingAllowed
  <2>2. QED BY <1>2, <2>1, NestingAllowed
<1>6. ASSUME NEW x \in Fields PROVE M[x] = IF e.field[x].group = 0 THEN 0 ELSE M[e.field[x].group] + 1
  <2>1. CASE x = f
    BY <2>1
  <2>2. CASE x # f
    <3>1. e.field[x].group = d.field[x].group /\ M[x] = L[x] /\ d.field[x].group # f
      BY <1>4, <2>2
    <3>2. /\ d.field[x].group = 0 => L[x] = 0
          /\ d.field[x].group # 0 => d.field[x].group \in Fields /\ L[x] = L[d.field[x].group] + 1
      BY <1>0, <1>1, LevelFacts
    <3>3. d.field[x].group # 0 => M[d.field[x].group] = L[d.field[x].group]
      BY <3>1, <3>2
    <3> HIDE DEF M
    <3>4. QED BY <3>1, <3>2, <3>3
  <2>3. QED BY <2>1, <2>2
<1> HIDE DEF M
<1>7. QED BY <1>5, <1>6, LevelsAre

\* A field moved, with what is under it, to a group that is not under it, where there
\* is room for it
LEMMA MoveNests ==
    ASSUME NEW d, Linked(d), Nests(d), NEW f \in Fields, d.field[f].tid # 0, NEW g \in Fields \cup {0},
           Editor!NestsWell(d, d.field[f].tid, f, g), NEW e,
           \A x \in Fields : e.field[x].group = IF x = f THEN g ELSE d.field[x].group
    PROVE  Nests(e)
<1>0. d \in Editor!Databases /\ f # 0 /\ 0 \notin Fields
  BY Parameters DEF Linked
<1>1. PICK L \in Levels(d) : TRUE
  BY DEF Nests
<1>2. \A x \in Fields : L[x] \in Nat /\ L[x] < MaxNesting
  BY <1>0, <1>1, LevelFacts
<1> DEFINE D == Under(d, f)
           base == IF g = 0 THEN 0 ELSE L[g] + 1
           h == Editor!Height(d, d.field[f].tid, f)
<1>3. /\ D \in SUBSET Fields /\ f \in D
      /\ \A x \in D : x # f => d.field[x].group \in D
      /\ \A x \in Fields : d.field[x].group \in D => x \in D
  BY <1>0, UnderFacts DEF Heir
<1>4. \A x \in D : L[f] <= L[x] /\ (L[x] - L[f]) + 1 <= h
  BY <1>1, BelowFacts
<1> HIDE DEF D, h
<1>5. base \in Nat /\ g \notin D /\ \A x \in D : base + (L[x] - L[f]) < MaxNesting
  <2>1. CASE g = 0
    <3>1. ASSUME NEW x \in D PROVE 0 + (L[x] - L[f]) < MaxNesting
      <4>1. L[x] \in Nat /\ L[f] \in Nat /\ L[x] < MaxNesting /\ L[f] <= L[x]
        BY <1>2, <1>3, <1>4
      <4>2. QED BY <4>1, NestingAllowed
    <3>2. QED BY <1>0, <1>3, <2>1, <3>1
  <2>2. CASE g # 0
    <3>1. f \notin Editor!Above(d, g) /\ Editor!Cardinality(Editor!Above(d, g)) + h <= MaxNesting
      BY <1>0, <2>2 DEF Editor!NestsWell, h
    <3>2. g \in Fields
      BY <2>2
    <3>3. Editor!Cardinality(Editor!Above(d, g)) = L[g] + 1
      BY <1>0, <1>1, <3>2, AboveFacts, SameCount
    <3>4. g \notin D
      BY <1>0, <3>1, <3>2, UnderOrAbove DEF D
    <3>5. base = L[g] + 1 /\ base + h <= MaxNesting /\ base \in Nat
      BY <1>2, <2>2, <3>1, <3>2, <3>3
    <3>6. ASSUME NEW x \in D PROVE base + (L[x] - L[f]) < MaxNesting
      <4>1. L[x] \in Nat /\ L[f] \in Nat /\ L[f] <= L[x] /\ (L[x] - L[f]) + 1 <= h
        BY <1>2, <1>3, <1>4
      <4> HIDE DEF base
      <4>2. h \in Nat
        <5>1. IsFiniteSet(0 .. MaxNesting)
          BY NestingAllowed, FS_Interval
        <5>2. h = Cardinality({n \in 0 .. MaxNesting : Editor!Below(d, d.field[f].tid, f)[n].level # {}})
          BY <1>0, SameCount DEF Editor!Height, h
        <5>3. QED BY <5>1, <5>2, FS_Subset, FS_CardinalityType
      <4>3. QED BY <3>5, <4>1, <4>2, NestingAllowed
    <3>7. QED BY <3>4, <3>5, <3>6
  <2>3. QED BY <2>1, <2>2
<1> DEFINE M == [x \in Fields |-> IF x \in D THEN base + (L[x] - L[f]) ELSE L[x]]
<1>6. \A x \in D : base + (L[x] - L[f]) \in Nat
  <2> HIDE DEF base
  <2>1. \A x \in D : L[x] \in Nat /\ L[f] \in Nat /\ L[f] <= L[x]
    BY <1>2, <1>3, <1>4
  <2>2. QED BY <1>5, <2>1
<1>7. M \in [Fields -> Nat] /\ \A x \in Fields : M[x] < MaxNesting
  <2> HIDE DEF base
  <2>1. QED BY <1>2, <1>5, <1>6
<1>8. ASSUME NEW x \in Fields PROVE M[x] = IF e.field[x].group = 0 THEN 0 ELSE M[e.field[x].group] + 1
  <2>1. CASE x = f
    <3>1. e.field[x].group = g /\ M[x] = base + (L[f] - L[f])
      BY <1>3, <2>1
    <3>2. base + (L[f] - L[f]) = base
      <4> HIDE DEF base
      <4>1. QED BY <1>2, <1>5
    <3>3. g # 0 => M[g] = L[g]
      BY <1>5
    <3> HIDE DEF M
    <3>4. QED BY <3>1, <3>2, <3>3
  <2>2. CASE x # f
    <3>1. e.field[x].group = d.field[x].group
      BY <2>2
    <3>2. /\ d.field[x].group = 0 => L[x] = 0
          /\ d.field[x].group # 0 => d.field[x].group \in Fields /\ L[x] = L[d.field[x].group] + 1
      BY <1>0, <1>1, LevelFacts
    <3>3. x \in D <=> d.field[x].group \in D
      BY <1>3, <2>2
    <3>4. CASE d.field[x].group = 0
      <4>1. x \notin D
        BY <1>0, <1>3, <3>3, <3>4
      <4>2. M[x] = L[x]
        BY <4>1
      <4> HIDE DEF M
      <4>3. QED BY <3>1, <3>2, <3>4, <4>2
    <3>5. CASE d.field[x].group # 0 /\ x \in D
      <4>1. M[x] = base + (L[x] - L[f]) /\ M[d.field[x].group] = base + (L[d.field[x].group] - L[f])
        BY <1>3, <3>2, <3>3, <3>5
      <4>2. L[x] = L[d.field[x].group] + 1 /\ L[d.field[x].group] \in Nat /\ L[f] \in Nat
        BY <1>2, <3>2, <3>5
      <4> HIDE DEF M, base
      <4>3. M[x] = M[d.field[x].group] + 1
        BY <1>5, <4>1, <4>2
      <4>4. QED BY <3>1, <3>5, <4>3
    <3>6. CASE d.field[x].group # 0 /\ x \notin D
      <4>1. M[x] = L[x] /\ M[d.field[x].group] = L[d.field[x].group]
        BY <3>2, <3>3, <3>6
      <4> HIDE DEF M
      <4>2. QED BY <3>1, <3>2, <3>6, <4>1
    <3>7. QED BY <3>4, <3>5, <3>6
  <2>3. QED BY <2>1, <2>2
<1> HIDE DEF M
<1>9. QED BY <1>7, <1>8, LevelsAre

\* A copy nests as what it shows.
LEMMA CopyNests ==
    ASSUME NEW d, Linked(d), Nests(d), NEW n \in Nat, \A f \in Fields : d.field[f].tid # 0 => f <= n,
           NEW b, NEW ns, NEW T, ns \in Seq([field : T, depth : Nat]), NEW q, NEW e \in Editor!Databases,
           CopiedRows(e, d, b, ns, n, q), \A i \in 1 .. Len(ns) : ns[i].depth < MaxNesting
    PROVE  Nests(e)
<1>0. d \in Editor!Databases
  BY DEF Linked
<1>1. PICK L \in Levels(d) : TRUE
  BY DEF Nests
<1>2. \A x \in Fields : L[x] \in Nat /\ L[x] < MaxNesting /\ x \in Nat
  BY <1>0, <1>1, LevelFacts, Parameters
<1>3. Len(ns) \in Nat /\ \A i \in 1 .. Len(ns) : ns[i].depth \in Nat
  <2>1. \A i \in 1 .. Len(ns) : ns[i] \in [field : T, depth : Nat]
    BY ElementOfSeq
  <2>2. QED BY <2>1, LenProperties
<1>4. /\ \A i \in 1 .. Len(ns) :
           /\ n + i \in Fields
           /\ ns[i].depth = 0 => e.field[n + i].group = 0
           /\ ns[i].depth # 0 => \E j \in 1 .. i - 1 : e.field[n + i].group = n + j /\ ns[j].depth + 1 = ns[i].depth
      /\ \A f \in Fields : f <= n => e.field[f] = d.field[f]
      /\ \A f \in Fields : ~(f <= n) /\ e.field[f].tid # 0 => \E i \in 1 .. Len(ns) : f = n + i
  BY DEF CopiedRows
<1> DEFINE M == [x \in Fields |-> IF x <= n THEN L[x] ELSE IF x - n \in 1 .. Len(ns) THEN ns[x - n].depth ELSE 0]
<1>5. M \in [Fields -> Nat] /\ \A x \in Fields : M[x] < MaxNesting
  BY <1>2, <1>3, NestingAllowed
<1>6. \A i \in 1 .. Len(ns) : M[n + i] = ns[i].depth
  <2> SUFFICES ASSUME NEW i \in 1 .. Len(ns) PROVE M[n + i] = ns[i].depth
    OBVIOUS
  <2>1. ~(n + i <= n) /\ (n + i) - n = i /\ n + i \in Fields
    BY <1>4
  <2>2. QED BY <2>1
<1>7. \A x \in Fields : x <= n => M[x] = L[x]
  OBVIOUS
<1>8. \A x \in Fields : ~(x <= n) /\ (\A i \in 1 .. Len(ns) : x # n + i) => M[x] = 0
  <2> SUFFICES ASSUME NEW x \in Fields, ~(x <= n), \A i \in 1 .. Len(ns) : x # n + i PROVE M[x] = 0
    OBVIOUS
  <2>1. x = n + (x - n)
    BY <1>2
  <2>2. x - n \notin 1 .. Len(ns)
    BY <2>1
  <2>3. QED BY <2>2
<1> HIDE DEF M
<1>9. ASSUME NEW x \in Fields PROVE M[x] = IF e.field[x].group = 0 THEN 0 ELSE M[e.field[x].group] + 1
  <2>1. CASE x <= n
    <3>1. e.field[x] = d.field[x] /\ M[x] = L[x]
      BY <1>4, <1>7, <2>1
    <3>2. /\ d.field[x].group = 0 => L[x] = 0
          /\ d.field[x].group # 0 => d.field[x].group \in Fields /\ L[x] = L[d.field[x].group] + 1
      BY <1>0, <1>1, LevelFacts
    <3>3. d.field[x].group # 0 => d.field[x].group <= n
      <4> SUFFICES ASSUME d.field[x].group # 0 PROVE d.field[x].group <= n
        OBVIOUS
      <4>1. d.field[x].tid # 0
        BY <1>0, RowFacts
      <4>2. d.field[d.field[x].group].tid # 0
        BY <4>1, LinkFacts
      <4>3. QED BY <3>2, <4>2
    <3>4. d.field[x].group # 0 => M[d.field[x].group] = L[d.field[x].group]
      BY <1>7, <3>2, <3>3
    <3>5. QED BY <3>1, <3>2, <3>4
  <2>2. CASE ~(x <= n)
    <3>1. CASE e.field[x].tid = 0
      <4>1. e.field[x].group = 0
        BY <3>1, RowFacts
      <4>2. CASE \E i \in 1 .. Len(ns) : x = n + i
        <5>1. PICK i \in 1 .. Len(ns) : x = n + i
          BY <4>2
        <5>2. ns[i].depth = 0
          <6>1. ASSUME ns[i].depth # 0 PROVE FALSE
            <7>1. PICK j \in 1 .. i - 1 : e.field[x].group = n + j
              BY <1>4, <5>1, <6>1
            <7>2. QED BY <4>1, <7>1
          <6>2. QED BY <6>1
        <5>3. QED BY <1>6, <4>1, <5>1, <5>2
      <4>3. CASE ~(\E i \in 1 .. Len(ns) : x = n + i)
        BY <1>8, <2>2, <4>1, <4>3
      <4>4. QED BY <4>2, <4>3
    <3>2. CASE e.field[x].tid # 0
      <4>1. PICK i \in 1 .. Len(ns) : x = n + i
        BY <1>4, <2>2, <3>2
      <4>2. CASE ns[i].depth = 0
        BY <1>4, <1>6, <4>1, <4>2
      <4>3. CASE ns[i].depth # 0
        <5>1. PICK j \in 1 .. i - 1 : e.field[x].group = n + j /\ ns[j].depth + 1 = ns[i].depth
          BY <1>4, <4>1, <4>3
        <5>2. j \in 1 .. Len(ns) /\ n + j # 0
          BY <1>3
        <5>3. M[n + j] = ns[j].depth /\ M[x] = ns[i].depth
          BY <1>6, <4>1, <5>2
        <5>4. QED BY <5>1, <5>2, <5>3
      <4>4. QED BY <4>2, <4>3
    <3>3. QED BY <3>1, <3>2
  <2>3. QED BY <2>1, <2>2
<1>10. QED BY <1>5, <1>9, LevelsAre

\* What is levelled at first nests.
LEMMA LevelledNests ==
    ASSUME NEW d, Linked(d), Editor!Levelled(d)
    PROVE  Nests(d)
<1>0. d \in Editor!Databases
  BY DEF Linked
<1>1. ASSUME NEW f \in Fields
      PROVE  Editor!Depth(d, f) \in Nat /\ (d.field[f].group = 0 => Editor!Depth(d, f) = 0)
  <2> DEFINE g == d.field[f].group
  <2>1. g \in Fields \cup {0}
    BY <1>0, RowFacts
  <2>2. PICK n \in Nat : Fields = 1 .. n
    BY Parameters
  <2>3. Editor!Above(d, g) \in SUBSET Fields
    <3> HIDE DEF g
    <3>1. PICK w \in [0 .. MaxNesting -> SUBSET Fields] : Editor!Above(d, g) = w[MaxNesting]
      BY <1>0, <2>1, AboveWalk
    <3>2. QED BY <3>1, NestingAllowed
  <2>4. Editor!Depth(d, f) = Cardinality(Editor!Above(d, g))
    BY SameCount DEF Editor!Depth
  <2> HIDE DEF g
  <2>5. Cardinality(Editor!Above(d, g)) \in Nat
    BY <2>2, <2>3, Counted
  <2>6. g = 0 => Cardinality(Editor!Above(d, g)) = 0
    BY <1>0, AboveNone, SameCount
  <2>7. QED BY <2>4, <2>5, <2>6 DEF g
<1>2. ASSUME NEW f \in Fields, d.field[f].tid # 0
      PROVE  /\ Editor!Depth(d, f) < MaxNesting
             /\ d.field[f].group # 0 => /\ d.field[f].group \in Fields /\ d.field[d.field[f].group].tid # 0
                                        /\ Editor!Depth(d, f) = Editor!Depth(d, d.field[f].group) + 1
  <2>1. f \in Editor!Rows(d)
    BY <1>0, <1>2, RowFacts
  <2>2. QED BY <1>2, <2>1, LinkFacts DEF Editor!Levelled
<1> DEFINE M == [f \in Fields |-> IF d.field[f].tid = 0 THEN 0 ELSE Editor!Depth(d, f)]
<1>3. M \in [Fields -> Nat] /\ \A f \in Fields : M[f] < MaxNesting
  BY <1>1, <1>2, NestingAllowed
<1>4. ASSUME NEW f \in Fields PROVE M[f] = IF d.field[f].group = 0 THEN 0 ELSE M[d.field[f].group] + 1
  <2>1. CASE d.field[f].tid = 0
    BY <1>0, <2>1, RowFacts
  <2>2. CASE d.field[f].tid # 0
    BY <1>1, <1>2, <2>2
  <2>3. QED BY <2>1, <2>2
<1> HIDE DEF M
<1>5. QED BY <1>3, <1>4, LevelsAre

-----------------------------------------------------------------------------
(* The identity is asked once *)

LEMMA AtMostOne ==
    ASSUME NEW n \in Nat, NEW S \in SUBSET (1 .. n)
    PROVE  Cardinality(S) <= 1 <=> \A x \in S, y \in S : x = y
<1>1. IsFiniteSet(S) /\ Cardinality(S) \in Nat
  BY Counted
<1>2. ASSUME Cardinality(S) <= 1, NEW x \in S, NEW y \in S PROVE x = y
  <2> SUFFICES ASSUME x # y PROVE FALSE
    OBVIOUS
  <2>1. IsFiniteSet({x}) /\ Cardinality({x}) = 1
    BY FS_Singleton
  <2>2. Cardinality({x} \cup {y}) = 2
    <3>1. Cardinality({x} \cup {y}) = Cardinality({x}) + 1
      BY <2>1, FS_AddElement
    <3>2. QED BY <2>1, <3>1
  <2>3. {x} \cup {y} \in SUBSET S
    OBVIOUS
  <2>4. Cardinality({x} \cup {y}) <= Cardinality(S)
    BY <1>1, <2>3, FS_Subset
  <2>5. QED BY <1>1, <1>2, <2>2, <2>4
<1>3. ASSUME \A x \in S, y \in S : x = y PROVE Cardinality(S) <= 1
  <2>1. CASE S = {}
    BY <2>1, FS_EmptySet
  <2>2. CASE S # {}
    <3>1. PICK x \in S : S = {x}
      BY <1>3, <2>2
    <3>2. QED BY <3>1, FS_Singleton
  <2>3. QED BY <2>1, <2>2
<1>4. QED BY <1>2, <1>3

\* A question for the identity, in a questionnaire
Asks(d, f, q) == d.field[f].tid # 0 /\ d.field[f].tmpl = Identity /\ d.field[f].form = q

AskedOnce(d, m) ==
    \A q \in Questionnaires \ m : \A f \in Fields, g \in Fields : Asks(d, f, q) /\ Asks(d, g, q) => f = g

LEMMA AskedLess ==
    ASSUME NEW d, NEW m, NEW e, NEW k, AskedOnce(d, m), m \subseteq k,
           \A q \in Questionnaires \ k : \A f \in Fields : Asks(e, f, q) => Asks(d, f, q)
    PROVE  AskedOnce(e, k)
BY DEF AskedOnce

LEMMA AskedCount ==
    ASSUME NEW d \in Editor!Databases, NEW q
    PROVE  Editor!Cardinality(Editor!IdentityIn(d, q)) <= 1
             <=> \A f \in Fields, g \in Fields : Asks(d, f, q) /\ Asks(d, g, q) => f = g
<1>1. PICK n \in Nat : Fields = 1 .. n
  BY Parameters
<1> DEFINE S == Editor!IdentityIn(d, q)
<1>2. \A f \in Fields : f \in S <=> Asks(d, f, q)
  BY RowFacts DEF Editor!IdentityIn, Asks
<1>3. S \in SUBSET Fields
  BY DEF Editor!IdentityIn, Editor!Rows
<1> HIDE DEF S
<1>4. Cardinality(S) <= 1 <=> \A x \in S, y \in S : x = y
  BY <1>1, <1>3, AtMostOne
<1>5. Editor!Cardinality(S) = Cardinality(S)
  BY SameCount
<1>6. QED BY <1>2, <1>3, <1>4, <1>5 DEF S

-----------------------------------------------------------------------------
(* Both, but for a race *)

NestInv == crossed \/ (Nests(db) /\ AskedOnce(db, moved))

\* Some rows are gone, the others as they were.
LEMMA LessNested ==
    ASSUME LinksInv, LinksInv', NestInv, UNCHANGED <<crossed, moved>>,
           \A f \in Fields : db'.field[f] \in {db.field[f], Editor!Gone}
    PROVE  NestInv'
<1> SUFFICES ASSUME ~crossed PROVE Nests(db') /\ AskedOnce(db', moved)
  BY DEF NestInv
<1>1. /\ db \in Editor!Databases /\ db' \in Editor!Databases /\ Editor!Referenced(db')
      /\ Nests(db) /\ AskedOnce(db, moved)
  BY DEF LinksInv, Linked, NestInv
<1>2. Nests(db')
  BY <1>1, LessNests
<1>3. \A q \in Questionnaires \ moved : \A f \in Fields : Asks(db', f, q) => Asks(db, f, q)
  BY DEF Asks, Editor!Gone
<1>4. QED BY <1>1, <1>2, <1>3, AskedLess

LEMMA SameNested ==
    ASSUME LinksInv, LinksInv', NestInv, UNCHANGED <<crossed, moved>>, db'.field = db.field PROVE NestInv'
BY LessNested

LEMMA DeleteNested ==
    ASSUME LinksInv, LinksInv', NestInv, NEW w \in Workers, NEW t \in Tenants,
           Editor!DeleteField(w, t) \/ Editor!DeleteForm(w, t)
    PROVE  NestInv'
<1>1. PICK d : /\ d \in Editor!Databases /\ Editor!AtOnce(w, Editor!Cascaded(d))
               /\ \A f \in Fields : d.field[f] \in {db.field[f], Editor!Gone}
  <2>0. db \in Editor!Databases
    BY DEF LinksInv, Linked
  <2>1. /\ db.field \in [Fields -> Editor!Row \cup {Editor!Gone}] /\ db.option \in [Options -> Fields \cup {0}]
        /\ db.trigger \in SUBSET (Options \X Fields) /\ db.form \in [Questionnaires -> Tenants \cup {0}]
        /\ db.context \in [Tenants -> [main : Questionnaires \cup {0}, extra : Questionnaires \cup {0}]]
    BY <2>0, TableFacts
  <2>2. CASE Editor!DeleteField(w, t)
    <3>1. PICK f \in Editor!Rows(db) :
            Editor!AtOnce(w, Editor!Cascaded(Editor!Database([db.field EXCEPT ![f] = Editor!Gone], db.option,
                                                             db.trigger, db.form, db.context)))
      BY <2>2 DEF Editor!DeleteField
    <3> DEFINE field == [db.field EXCEPT ![f] = Editor!Gone]
    <3>2. field \in [Fields -> Editor!Row \cup {Editor!Gone}]
      BY <2>1
    <3>3. \A g \in Fields : field[g] \in {db.field[g], Editor!Gone}
      BY <2>1
    <3> HIDE DEF field
    <3>4. /\ Editor!Database(field, db.option, db.trigger, db.form, db.context) \in Editor!Databases
          /\ Editor!Database(field, db.option, db.trigger, db.form, db.context).field = field
      BY <2>1, <3>2, TablesTyped
    <3>5. QED BY <3>1, <3>3, <3>4 DEF field
  <2>3. CASE Editor!DeleteForm(w, t)
    <3>1. PICK q \in Questionnaires :
            Editor!AtOnce(w, Editor!Cascaded(Editor!Database(db.field, db.option, db.trigger,
                                                             [db.form EXCEPT ![q] = 0], db.context)))
      BY <2>3 DEF Editor!DeleteForm
    <3> DEFINE form == [db.form EXCEPT ![q] = 0]
    <3>2. form \in [Questionnaires -> Tenants \cup {0}]
      BY <2>1
    <3> HIDE DEF form
    <3>3. /\ Editor!Database(db.field, db.option, db.trigger, form, db.context) \in Editor!Databases
          /\ Editor!Database(db.field, db.option, db.trigger, form, db.context).field = db.field
      BY <2>1, <3>2, TablesTyped
    <3>4. QED BY <3>1, <3>3 DEF form
  <2>4. QED BY <2>2, <2>3
<1>2. db' = Editor!Cascaded(d) /\ UNCHANGED <<crossed, moved>>
  BY <1>1 DEF Editor!AtOnce
<1>3. \A f \in Fields : Editor!Cascaded(d).field[f] \in {d.field[f], Editor!Gone}
  BY <1>1, CascadeFacts
<1>4. \A f \in Fields : db'.field[f] \in {db.field[f], Editor!Gone}
  BY <1>1, <1>2, <1>3
<1>5. QED BY <1>2, <1>4, LessNested

LEMMA FormNested ==
    ASSUME LinksInv, LinksInv', NestInv, NEW w \in Workers, NEW t \in Tenants,
           Editor!CreateForm(w, t) \/ Editor!SetContext(w, t)
    PROVE  NestInv'
<1>1. PICK form, context : Editor!AtOnce(w, Editor!Database(db.field, db.option, db.trigger, form, context))
  <2>1. CASE Editor!CreateForm(w, t)
    BY <2>1 DEF Editor!CreateForm
  <2>2. CASE Editor!SetContext(w, t)
    BY <2>2 DEF Editor!SetContext
  <2>3. QED BY <2>1, <2>2
<1>2. db' = Editor!Database(db.field, db.option, db.trigger, form, context) /\ UNCHANGED <<crossed, moved>>
  BY <1>1 DEF Editor!AtOnce
<1>3. db'.field = db.field
  BY <1>2 DEF Editor!Database
<1>4. QED BY <1>2, <1>3, SameNested

LEMMA CreateNested ==
    ASSUME LinksInv, LinksInv', NestInv, NEW w \in Workers, Editor!CreateCommit(w)
    PROVE  NestInv'
<1> DEFINE b == editing[w]
           r == b.r
           s == b.seen
           f == fresh.field + 1
           row == [tid |-> b.tid, form |-> r.form, group |-> r.group, tmpl |-> r.tmpl,
                   inst |-> r.inst, voice |-> r.voice]
<1>1. /\ b.op = "create" /\ f \in Fields /\ Editor!Commit(w, Editor!Created(b))
      /\ crossed' = (crossed \/ (r.group # 0 /\ Editor!Groups(s) # Editor!Groups(db))
                             \/ (r.tmpl = Identity /\ Editor!IdentityIn(db, r.form) # {}))
      /\ moved' = moved
  BY DEF Editor!CreateCommit
<1> SUFFICES ASSUME ~crossed, r.group # 0 => Editor!Groups(s) = Editor!Groups(db),
                    r.tmpl = Identity => Editor!IdentityIn(db, r.form) = {}
             PROVE  Nests(db') /\ AskedOnce(db', moved)
  BY <1>1 DEF NestInv
<1>2. Linked(s) /\ Since(s, db, fresh) /\ Creating(b)
  BY <1>1 DEF LinksInv, Busily, Editor!Idle, Updating, Duplicating
<1>3. /\ b.tid # 0 /\ r.group \in Fields \cup {0} /\ OwnAll(s, b.tid, r)
      /\ Editor!NestsWell(s, b.tid, 0, r.group)
  BY <1>2, Parameters DEF Creating, Requests
<1>4. /\ Linked(db) /\ Numbered(db, fresh) /\ db \in Editor!Databases /\ fresh.field \in Nat
      /\ Nests(db) /\ AskedOnce(db, moved)
  BY DEF LinksInv, Linked, Numbered, Numbers, NestInv
<1>5. ~(f <= fresh.field) /\ db.field[f].tid = 0 /\ s.field[f].tid = 0
  <2>1. ~(f <= fresh.field)
    BY <1>4
  <2>2. QED BY <1>1, <1>2, <1>4, <2>1 DEF Numbered, Since
<1>6. r.group # f
  <2>1. r.group # 0 => r.group <= fresh.field
    BY <1>2, <1>3 DEF OwnAll, Since
  <2>2. QED BY <1>1, <1>5, <2>1, Parameters
<1>7. /\ db'.field[f] = row /\ \A g \in Fields : g # f => db'.field[g] = db.field[g]
  <2>1. db' = Editor!Created(b)
    BY <1>1 DEF Editor!Commit
  <2>2. db'.field = [db.field EXCEPT ![f] = row]
    BY <2>1 DEF Editor!Created, Editor!Database
  <2>3. DOMAIN db.field = Fields
    BY <1>4, TableFacts
  <2> HIDE DEF row, f
  <2>4. QED BY <1>1, <2>2, <2>3
<1>8. row.group = r.group /\ row.form = r.form /\ row.tmpl = r.tmpl
  OBVIOUS
<1> HIDE DEF row, f
<1>9. Nests(db')
  <2>1. CASE r.group = 0
    <3>1. Editor!NestsWell(db, b.tid, 0, r.group)
      BY <2>1 DEF Editor!NestsWell
    <3>2. \A x \in Fields : db'.field[x].group = IF x = f THEN r.group ELSE db.field[x].group
      BY <1>7, <1>8
    <3>3. QED BY <1>1, <1>3, <1>4, <1>5, <1>6, <3>1, <3>2, NewNests
  <2>2. CASE r.group # 0
    <3>1. \A x \in Fields : db.field[x].group = s.field[x].group
      <4>1. Editor!Groups(s) = Editor!Groups(db)
        BY <2>2
      <4>2. \A x \in Fields : Editor!Groups(s)[x] = s.field[x].group /\ Editor!Groups(db)[x] = db.field[x].group
        BY DEF Editor!Groups
      <4>3. QED BY <4>1, <4>2
    <3>2. Nests(s)
      BY <1>4, <3>1, SameNests
    <3>3. \A x \in Fields : db'.field[x].group = IF x = f THEN r.group ELSE s.field[x].group
      BY <1>7, <1>8, <3>1
    <3>4. QED BY <1>1, <1>2, <1>3, <1>5, <1>6, <3>2, <3>3, NewNests
  <2>3. QED BY <2>1, <2>2
<1>10. AskedOnce(db', moved)
  <2> SUFFICES ASSUME NEW q \in Questionnaires \ moved, NEW x \in Fields, NEW y \in Fields,
                      Asks(db', x, q), Asks(db', y, q)
               PROVE  x = y
    BY DEF AskedOnce
  <2>1. \A g \in Fields : g # f /\ Asks(db', g, q) => Asks(db, g, q)
    BY <1>7 DEF Asks
  <2>2. Asks(db', f, q) => \A g \in Fields : ~Asks(db, g, q)
    <3> SUFFICES ASSUME Asks(db', f, q), NEW g \in Fields, Asks(db, g, q) PROVE FALSE
      OBVIOUS
    <3>1. r.tmpl = Identity /\ r.form = q
      BY <1>7, <1>8 DEF Asks
    <3>2. g \in Editor!Rows(db)
      BY <1>4, RowFacts DEF Asks
    <3>3. g \in Editor!IdentityIn(db, q)
      BY <3>2 DEF Asks, Editor!IdentityIn
    <3>4. QED BY <3>1, <3>3
  <2>3. QED BY <1>4, <2>1, <2>2 DEF AskedOnce
<1>11. QED BY <1>9, <1>10

LEMMA UpdatedRows ==
    ASSUME LinksInv, NEW w \in Workers, NEW b, b = editing[w], Editor!UpdateCommit(w), Updating(b),
           b.seen.field[b.f].inst # "reference"
    PROVE  \E d \in Editor!Databases :
             /\ db' = Editor!Cascaded(d) /\ d.field[b.f] = Editor!Moved(b)
             /\ \A g \in Fields : g # b.f => d.field[g] = db.field[g]
<1> DEFINE row == Editor!Moved(b)
           field == [db.field EXCEPT ![b.f] = row]
           option == Editor!UpdatedOptions(b)
           d == Editor!Database(field, option, Editor!Reset(b), db.form, db.context)
<1>1. Editor!There(db, b.f) /\ Editor!Commit(w, Editor!Updated(b))
  BY DEF Editor!UpdateCommit
<1>2. db' = Editor!Cascaded(d)
  <2>1. db' = Editor!Updated(b)
    BY <1>1 DEF Editor!Commit
  <2>2. QED BY <2>1 DEF Editor!Updated
<1>3. db \in Editor!Databases /\ b.f \in Fields /\ b.r \in Requests
  BY DEF LinksInv, Linked, Updating
<1>4. db.field[b.f] \in Editor!Row
  BY <1>1, <1>3, RowFacts
<1>5. row \in Editor!Row
  BY <1>3, <1>4 DEF Editor!Moved, Editor!Row, Requests
<1>6. /\ db.field \in [Fields -> Editor!Row \cup {Editor!Gone}] /\ db.option \in [Options -> Fields \cup {0}]
      /\ db.form \in [Questionnaires -> Tenants \cup {0}]
      /\ db.context \in [Tenants -> [main : Questionnaires \cup {0}, extra : Questionnaires \cup {0}]]
  BY <1>3, TableFacts
<1> HIDE DEF row
<1>7. field \in [Fields -> Editor!Row \cup {Editor!Gone}]
  BY <1>5, <1>6
<1>8. option \in [Options -> Fields \cup {0}]
  BY <1>3, <1>6 DEF Editor!UpdatedOptions
<1>9. Editor!Reset(b) \in SUBSET (Options \X Fields)
  BY ResetTyped
<1>10. field[b.f] = row /\ \A g \in Fields : g # b.f => field[g] = db.field[g]
  BY <1>3, <1>6
<1> HIDE DEF field, option
<1>11. d \in Editor!Databases /\ d.field = field
  BY <1>6, <1>7, <1>8, <1>9, TablesTyped
<1> HIDE DEF d
<1>12. QED BY <1>2, <1>10, <1>11 DEF row

LEMMA UpdateNested ==
    ASSUME LinksInv, LinksInv', NestInv, NEW w \in Workers, Editor!UpdateCommit(w)
    PROVE  NestInv'
<1> DEFINE b == editing[w]
           r == b.r
           s == b.seen
           f == b.f
           was == s.field[f]
<1>1. /\ b.op = "update" /\ Editor!There(db, f) /\ Editor!Commit(w, Editor!Updated(b))
      /\ crossed' = (crossed \/ (r.group # 0 /\ Editor!Groups(s) # Editor!Groups(db)))
      /\ moved' = moved \cup {q \in Questionnaires :
                     ~(Editor!IdentityIn(Editor!Updated(b), q) \subseteq Editor!IdentityIn(db, q))}
      /\ db' = Editor!Updated(b)
  BY DEF Editor!UpdateCommit, Editor!Commit
<1> SUFFICES ASSUME ~crossed, r.group # 0 => Editor!Groups(s) = Editor!Groups(db)
             PROVE  Nests(db') /\ AskedOnce(db', moved')
  BY <1>1 DEF NestInv
<1>2. Linked(s) /\ Since(s, db, fresh) /\ Updating(b)
  BY <1>1 DEF LinksInv, Busily, Editor!Idle, Creating, Duplicating
<1>3. /\ b.tid # 0 /\ r.group \in Fields \cup {0} /\ f \in Fields /\ was.tid = b.tid
      /\ Editor!NestsWell(s, b.tid, f, r.group)
  BY <1>2, Parameters DEF Updating, Requests
<1>4. /\ Linked(db) /\ db \in Editor!Databases /\ db' \in Editor!Databases /\ Editor!Referenced(db')
      /\ Nests(db) /\ AskedOnce(db, moved) /\ moved \subseteq moved'
  BY <1>1 DEF LinksInv, Linked, NestInv
<1>5. AskedOnce(db', moved')
  <2>1. ASSUME NEW q \in Questionnaires \ moved', NEW g \in Fields, Asks(db', g, q) PROVE Asks(db, g, q)
    <3>1. g \in Editor!IdentityIn(db', q)
      BY <1>4, <2>1, RowFacts DEF Asks, Editor!IdentityIn
    <3>2. Editor!IdentityIn(db', q) \subseteq Editor!IdentityIn(db, q)
      BY <1>1, <2>1
    <3>3. QED BY <1>4, <3>1, <3>2, RowFacts DEF Asks, Editor!IdentityIn
  <2>2. QED BY <1>4, <2>1, AskedLess
<1>6. CASE was.inst = "reference"
  <2>1. db'.field = db.field
    BY <1>1, <1>6 DEF Editor!Updated, Editor!Database
  <2>2. QED BY <1>4, <1>5, <2>1, SameNests
<1>7. CASE was.inst # "reference"
  <2>1. PICK d \in Editor!Databases :
             /\ db' = Editor!Cascaded(d) /\ d.field[f] = Editor!Moved(b)
             /\ \A g \in Fields : g # f => d.field[g] = db.field[g]
    BY <1>2, <1>7, UpdatedRows
  <2>2. d.field[f].group = IF r.group # was.group THEN r.group ELSE db.field[f].group
    BY <2>1 DEF Editor!Moved
  <2>3. Nests(d)
    <3>1. CASE r.group # 0
      <4>1. \A x \in Fields : db.field[x].group = s.field[x].group
        <5>1. Editor!Groups(s) = Editor!Groups(db)
          BY <3>1
        <5>2. \A x \in Fields : Editor!Groups(s)[x] = s.field[x].group /\ Editor!Groups(db)[x] = db.field[x].group
          BY DEF Editor!Groups
        <5>3. QED BY <5>1, <5>2
      <4>2. Nests(s)
        BY <1>4, <4>1, SameNests
      <4>3. d.field[f].group = r.group
        BY <1>3, <2>2, <4>1
      <4>4. \A x \in Fields : d.field[x].group = IF x = f THEN r.group ELSE s.field[x].group
        BY <2>1, <4>1, <4>3
      <4>5. QED BY <1>2, <1>3, <4>2, <4>4, MoveNests
    <3>2. CASE r.group = 0 /\ was.group # 0
      <4>1. \A x \in Fields : d.field[x].group = IF x = f THEN 0 ELSE db.field[x].group
        BY <2>1, <2>2, <3>2
      <4>2. Editor!NestsWell(db, db.field[f].tid, f, 0) /\ db.field[f].tid # 0 /\ 0 \in Fields \cup {0}
        BY <1>1, <1>3, <1>4, RowFacts DEF Editor!NestsWell
      <4>3. QED BY <1>3, <1>4, <4>1, <4>2, MoveNests
    <3>3. CASE r.group = 0 /\ was.group = 0
      <4>1. \A x \in Fields : d.field[x].group = db.field[x].group
        BY <2>1, <2>2, <3>3
      <4>2. QED BY <1>4, <4>1, SameNests
    <3>4. QED BY <3>1, <3>2, <3>3
  <2>4. \A g \in Fields : db'.field[g] \in {d.field[g], Editor!Gone}
    BY <2>1, CascadeFacts
  <2>5. Nests(db')
    BY <1>4, <2>3, <2>4, LessNests
  <2>6. QED BY <1>5, <2>5
<1>8. QED BY <1>5, <1>6, <1>7

LEMMA DuplicateNested ==
    ASSUME LinksInv, LinksInv', NestInv, NEW w \in Workers, Editor!DuplicateCommit(w)
    PROVE  NestInv'
<1> DEFINE b == editing[w]
           q == fresh.form + 1
           ns == Editor!Shown(b.seen, b.q, FALSE)
           cs == Editor!Copies(b)
           k == Len(Editor!CopiedOptions(cs))
           n == fresh.field
<1>1. /\ Editor!Duplicable(b, cs) /\ CopyFacts(cs, ns, b, n)
      /\ ns \in Listing(0, Copied(b)) /\ Len(ns) \in Nat
      /\ q \in Questionnaires /\ UNCHANGED <<crossed, moved>>
      /\ CopiedRows(db', db, b, ns, n, q)
  BY DuplicatedIs
<1> SUFFICES ASSUME ~crossed PROVE Nests(db') /\ AskedOnce(db', moved)
  BY <1>1 DEF NestInv
<1>2. ns \in Seq([field : Copied(b), depth : Nat])
  BY <1>1 DEF Listing
<1> HIDE DEF ns, cs
<1>3. /\ Linked(db) /\ db \in Editor!Databases /\ db' \in Editor!Databases /\ Numbered(db, fresh)
      /\ Nests(db) /\ AskedOnce(db, moved) /\ n \in Nat /\ fresh.form \in Nat
  BY DEF LinksInv, Linked, Numbered, Numbers, NestInv
<1>4. DOMAIN cs = 1 .. Len(ns) /\ \A i \in 1 .. Len(ns) :
        cs[i].depth = ns[i].depth /\ cs[i].tmpl = b.seen.field[ns[i].field].tmpl
  BY <1>1 DEF CopyFacts
<1>5. \A i \in 1 .. Len(ns) : ns[i].depth < MaxNesting
  BY <1>1, <1>4 DEF Editor!Duplicable
<1>6. \A f \in Fields : db.field[f].tid # 0 => f <= n
  BY <1>3 DEF Numbered
<1>7. Nests(db')
  <2> HIDE DEF n, q
  <2>1. QED BY <1>1, <1>2, <1>3, <1>5, <1>6, CopyNests
<1>8. ASSUME NEW x \in Fields, NEW p \in Questionnaires, Asks(db', x, p)
      PROVE  \/ p # q /\ Asks(db, x, p)
             \/ p = q /\ \E i \in 1 .. Len(ns) : x = n + i /\ cs[i].tmpl = Identity
  <2>1. CASE x <= n
    <3>1. db'.field[x] = db.field[x]
      BY <1>1, <2>1 DEF CopiedRows
    <3>2. Asks(db, x, p)
      BY <1>8, <3>1 DEF Asks
    <3>3. db.field[x].tid # 0 /\ db.field[x].form = p /\ p # 0
      BY <3>2, Parameters DEF Asks
    <3>4. db.form[p] # 0
      BY <1>3, <3>3, LinkFacts
    <3>5. p <= fresh.form
      BY <1>3, <3>4 DEF Numbered
    <3>6. QED BY <1>3, <3>2, <3>5
  <2>2. CASE ~(x <= n)
    <3>1. PICK i \in 1 .. Len(ns) : x = n + i
      BY <1>1, <1>8, <2>2 DEF CopiedRows, Asks
    <3>2. db'.field[n + i].tmpl = cs[i].tmpl /\ db'.field[n + i].form \in {q, 0}
      BY <1>1, <1>4 DEF CopiedRows
    <3>3. db'.field[x].tmpl = Identity /\ db'.field[x].form = p /\ p # 0
      BY <1>8, Parameters DEF Asks
    <3>4. QED BY <3>1, <3>2, <3>3
  <2>3. QED BY <2>1, <2>2
<1>9. \A i \in 1 .. Len(ns), j \in 1 .. Len(ns) : cs[i].tmpl = Identity /\ cs[j].tmpl = Identity => i = j
  <2> DEFINE S == {i \in DOMAIN cs : cs[i].tmpl = Identity}
  <2>1. Editor!Cardinality(S) <= 1
    BY <1>1 DEF Editor!Duplicable
  <2>2. S \in SUBSET (1 .. Len(ns))
    BY <1>4
  <2>3. \A i \in 1 .. Len(ns) : cs[i].tmpl = Identity => i \in S
    BY <1>4
  <2> HIDE DEF S
  <2>4. Cardinality(S) <= 1
    BY <2>1, SameCount
  <2>5. \A i \in S, j \in S : i = j
    BY <1>1, <2>2, <2>4, AtMostOne
  <2>6. QED BY <2>3, <2>5
<1>10. AskedOnce(db', moved)
  <2> SUFFICES ASSUME NEW p \in Questionnaires \ moved, NEW x \in Fields, NEW y \in Fields,
                      Asks(db', x, p), Asks(db', y, p)
               PROVE  x = y
    BY DEF AskedOnce
  <2>1. CASE p # q
    <3>1. Asks(db, x, p) /\ Asks(db, y, p)
      BY <1>8, <2>1
    <3>2. QED BY <1>3, <3>1 DEF AskedOnce
  <2>2. CASE p = q
    <3>1. PICK i \in 1 .. Len(ns) : x = n + i /\ cs[i].tmpl = Identity
      BY <1>8, <2>2
    <3>2. PICK j \in 1 .. Len(ns) : y = n + j /\ cs[j].tmpl = Identity
      BY <1>8, <2>2
    <3>3. i = j
      BY <1>9, <3>1, <3>2
    <3>4. QED BY <3>1, <3>2, <3>3
  <2>3. QED BY <2>1, <2>2
<1>11. QED BY <1>7, <1>10

-----------------------------------------------------------------------------
(* The invariant, and what it says of the questionnaires *)

LEMMA NestAtFirst == Editor!Init => NestInv
<1> SUFFICES ASSUME Editor!Init PROVE Nests(db) /\ AskedOnce(db, moved)
  BY DEF NestInv
<1>1. db \in Seeds
  BY DEF Editor!Init
<1>2. db \in Editor!Databases /\ Editor!Levelled(db)
      /\ \A q \in Questionnaires : Editor!Cardinality(Editor!IdentityIn(db, q)) <= 1
  BY <1>1, AdministrationAssumption DEF Editor!FormsAssumption
<1>3. Linked(db)
  BY LinksAtFirst DEF LinksInv
<1>4. Nests(db)
  BY <1>2, <1>3, LevelledNests
<1>5. AskedOnce(db, moved)
  <2> SUFFICES ASSUME NEW q \in Questionnaires
               PROVE  \A f \in Fields, g \in Fields : Asks(db, f, q) /\ Asks(db, g, q) => f = g
    BY DEF AskedOnce
  <2>1. Editor!Cardinality(Editor!IdentityIn(db, q)) <= 1
    BY <1>2
  <2>2. QED BY <1>2, <2>1, AskedCount
<1>6. QED BY <1>4, <1>5

LEMMA StepNested == LinksInv /\ LinksInv' /\ NestInv /\ Editor!Next => NestInv'
<1> SUFFICES ASSUME LinksInv, LinksInv', NestInv, Editor!Next PROVE NestInv'
  OBVIOUS
<1>1. PICK w \in Workers :
        \/ \E t \in Tenants :
             \/ Editor!CreateBegin(w, t) \/ Editor!UpdateBegin(w, t) \/ Editor!DuplicateBegin(w, t)
             \/ Editor!DeleteField(w, t) \/ Editor!CreateForm(w, t) \/ Editor!DeleteForm(w, t)
             \/ Editor!SetContext(w, t)
        \/ Editor!CreateCommit(w) \/ Editor!UpdateCommit(w) \/ Editor!DuplicateCommit(w) \/ Editor!Abort(w)
  BY DEF Editor!Next
<1>2. ASSUME UNCHANGED <<db, crossed, moved>> PROVE NestInv'
  BY <1>2 DEF NestInv
<1>3. ASSUME NEW t \in Tenants, Editor!CreateBegin(w, t) PROVE NestInv'
  BY <1>2, <1>3 DEF Editor!CreateBegin, Editor!Begin
<1>4. ASSUME NEW t \in Tenants, Editor!UpdateBegin(w, t) PROVE NestInv'
  BY <1>2, <1>4 DEF Editor!UpdateBegin, Editor!Begin
<1>5. ASSUME NEW t \in Tenants, Editor!DuplicateBegin(w, t) PROVE NestInv'
  BY <1>2, <1>5 DEF Editor!DuplicateBegin, Editor!Begin
<1>6. ASSUME NEW t \in Tenants, Editor!DeleteField(w, t) \/ Editor!DeleteForm(w, t) PROVE NestInv'
  BY <1>6, DeleteNested
<1>7. ASSUME NEW t \in Tenants, Editor!CreateForm(w, t) \/ Editor!SetContext(w, t) PROVE NestInv'
  BY <1>7, FormNested
<1>8. CASE Editor!CreateCommit(w)
  BY <1>8, CreateNested
<1>9. CASE Editor!UpdateCommit(w)
  BY <1>9, UpdateNested
<1>10. CASE Editor!DuplicateCommit(w)
  BY <1>10, DuplicateNested
<1>11. CASE Editor!Abort(w)
  BY <1>2, <1>11 DEF Editor!Abort
<1>12. QED BY <1>1, <1>3, <1>4, <1>5, <1>6, <1>7, <1>8, <1>9, <1>10, <1>11

LEMMA NestInvariant == MCSpec => []NestInv
<1>1. MCInit => NestInv
  BY NestAtFirst DEF MCInit
<1>2. LinksInv /\ LinksInv' /\ NestInv /\ [MCNext]_allVars => NestInv'
  <2> SUFFICES ASSUME LinksInv, LinksInv', NestInv, [MCNext]_allVars PROVE NestInv'
    OBVIOUS
  <2>1. CASE Editor!Next
    BY <2>1, StepNested
  <2>2. CASE UNCHANGED forms
    BY <2>2 DEF NestInv, forms
  <2>3. QED BY <2>1, <2>2 DEF MCNext, allVars
<1>3. QED BY <1>1, <1>2, LinksInvariant, PTL DEF MCSpec

LEMMA NestingKept == LinksInv /\ NestInv => Editor!WellNested
<1> SUFFICES ASSUME LinksInv, NestInv, ~crossed
             PROVE  /\ \A f \in Editor!Rows(db) : /\ f \notin Editor!Above(db, db.field[f].group)
                                                  /\ Editor!Depth(db, f) < MaxNesting
                    /\ \A q \in Questionnaires \ moved : Editor!Cardinality(Editor!IdentityIn(db, q)) <= 1
  BY DEF Editor!WellNested
<1>1. Linked(db) /\ db \in Editor!Databases /\ Nests(db) /\ AskedOnce(db, moved)
  BY DEF LinksInv, Linked, NestInv
<1>2. \A f \in Editor!Rows(db) : f \notin Editor!Above(db, db.field[f].group) /\ Editor!Depth(db, f) < MaxNesting
  <2>1. Editor!Rows(db) \subseteq Fields
    BY DEF Editor!Rows
  <2>2. QED BY <1>1, <2>1, NestedWell
<1>3. ASSUME NEW q \in Questionnaires \ moved PROVE Editor!Cardinality(Editor!IdentityIn(db, q)) <= 1
  <2>1. \A f \in Fields, g \in Fields : Asks(db, f, q) /\ Asks(db, g, q) => f = g
    BY <1>1 DEF AskedOnce
  <2>2. QED BY <1>1, <2>1, AskedCount
<1>4. QED BY <1>2, <1>3

LEMMA Sound == LinksInv /\ NestInv => FormsSound
<1> SUFFICES ASSUME LinksInv, NestInv PROVE Editor!QuestionnairesSound /\ Editor!VoiceIsGranted
  BY DEF FormsSound
<1>1. Editor!WellNested
  BY NestingKept
<1>2. Editor!TenantsApart
  BY DEF LinksInv, Linked, Editor!TenantsApart
<1>3. Editor!VoiceIsGranted
  BY VoiceGranted
<1>4. QED BY <1>1, <1>2, <1>3 DEF Editor!QuestionnairesSound

\* Whatever administrators create, move, copy and delete, at the same time or not:
\* groups nest without a loop and no deeper than allowed, the identity is asked once,
\* a tenant's rows are linked to its own or to templates of the root, and the
\* microphone is allowed where a question is answered by voice (db_create_field,
\* db_update_field, duplicate_questionnaire, db_get_tenants_using_voice).
THEOREM QuestionnairesStaySound == MCSpec => []FormsSound
BY LinksInvariant, NestInvariant, Sound, PTL

=============================================================================
