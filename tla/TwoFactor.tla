------------------------------ MODULE TwoFactor ------------------------------
(***************************************************************************)
(* The codes of the second factor of a user.  A code belongs to a step of  *)
(* the clock and is good a step before and after; State.totp_verify keeps  *)
(* the last code it accepted in a store whose entries expire, and runs on  *)
(* several threads under one lock.                                         *)
(***************************************************************************)
EXTENDS TempStore, Integers

CONSTANTS CodeLife,   \* the timeout of TwoFactorTokens, in steps of half a minute
          MaxTimers,  \* bounds the codes accepted within a timeout
          Horizon     \* bounds the clock, in ticks, two to a step

\* An entry outlives the code it remembers.
CodesAssumption == CodeLife \in Nat /\ CodeLife >= 3

VARIABLES now,
          used,       \* State.TwoFactorTokens, of one secret
          last,       \* the code accepted last
          forgotten   \* whether the timer of an earlier entry took its entry away

vars == <<now, used, last, forgotten>>

Secret == "secret"
NoCode == -2
Step(t) == t \div 2
Codes == 0 .. Step(Horizon) + 1

Init == now = 0 /\ used = Empty /\ last = NoCode /\ forgotten = FALSE

\* Mutant: the window is two steps wide.
MutGood(code) == code \in Step(now) - 2 .. Step(now) + 2

\* totpVerify, with a window of one step
Good(code) == code \in Step(now) - 1 .. Step(now) + 1

Looked == Postponed(used, Secret, now + 2 * CodeLife)

Again(code) == Secret \in KeysOf(used) /\ Value(used, Secret) = code

Accept(code) ==
    /\ ~Again(code) /\ Good(code) /\ Cardinality(used.timer) < MaxTimers
    /\ used' = Put(Looked, Secret, code, now + 2 * CodeLife, 0)
    /\ last' = code
    /\ forgotten' = FALSE
    /\ UNCHANGED now

Refuse(code) ==
    /\ Again(code) \/ ~Good(code)
    /\ used' = Looked
    /\ UNCHANGED <<now, last, forgotten>>

Fire ==
    /\ \E t \in Due(used, now) :
         /\ used' = Fired(used, t)
         /\ forgotten' = (forgotten \/ (Secret \in KeysOf(used) /\ EntryOf(used, Secret).timer # t))
    /\ UNCHANGED <<now, last>>

Tick ==
    /\ now < Horizon /\ Due(used, now) = {}
    /\ now' = now + 1
    /\ UNCHANGED <<used, last, forgotten>>

Next == (\E code \in Codes : Accept(code) \/ Refuse(code)) \/ Fire \/ Tick

Spec == Init /\ [][Next]_vars

-----------------------------------------------------------------------------
\* The code that was accepted last is not accepted a second time as long as it is good,
\* unless the entry that remembers it was written over another one, whose timer then
\* took it away.  (A code accepted before it is forgotten, and may be good again.)
CodeNotRepeated == [][\A code \in Codes : Accept(code) => code # last \/ forgotten]_vars
=============================================================================
