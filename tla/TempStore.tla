------------------------------ MODULE TempStore ------------------------------
(***************************************************************************)
(* TempDict: a dictionary in memory whose entries expire.  A timer is set  *)
(* when an entry is written and deletes by key: the timer of an entry that *)
(* was overwritten is not cancelled, and deletes what it finds.  A store   *)
(* that is full drops its oldest entry.                                    *)
(***************************************************************************)
EXTENDS Naturals, FiniteSets, Sequences, SequencesExt

Empty == [entry |-> << >>, timer |-> {}]

KeysOf(s) == {s.entry[i].key : i \in DOMAIN s.entry}
Place(s, key) == CHOOSE i \in DOMAIN s.entry : s.entry[i].key = key
EntryOf(s, key) == s.entry[Place(s, key)]
Value(s, key) == EntryOf(s, key).value

\* The timers of a store are told apart by what they were set for.
Timer(key, value, due) == [key |-> key, value |-> value, due |-> due]

\* The entry goes, and its timer with it.
Without(s, key) ==
    IF key \notin KeysOf(s) THEN s
    ELSE [entry |-> RemoveAt(s.entry, Place(s, key)),
          timer |-> s.timer \ {EntryOf(s, key).timer}]

\* A store of size 0 has no limit.
Full(s, key, size) == size # 0 /\ key \notin KeysOf(s) /\ Len(s.entry) >= size

\* An entry that is overwritten keeps its place, and leaves its timer behind.
Put(s, key, value, due, size) ==
    LET t == IF Full(s, key, size) THEN Without(s, Head(s.entry).key) ELSE s
        e == [key |-> key, value |-> value, timer |-> Timer(key, value, due)]
    IN  [entry |-> IF key \in KeysOf(t)
                   THEN [i \in DOMAIN t.entry |-> IF t.entry[i].key = key THEN e ELSE t.entry[i]]
                   ELSE Append(t.entry, e),
         timer |-> t.timer \cup {e.timer}]

\* reset_timeout: a timer that has not fired is put off.
Postponed(s, key, due) ==
    IF key \notin KeysOf(s) \/ EntryOf(s, key).timer \notin s.timer THEN s
    ELSE LET old == EntryOf(s, key).timer
             new == [old EXCEPT !.due = due]
         IN  [entry |-> [i \in DOMAIN s.entry |->
                            IF s.entry[i].key = key THEN [s.entry[i] EXCEPT !.timer = new]
                            ELSE s.entry[i]],
              timer |-> (s.timer \ {old}) \cup {new}]

\* The timers that may have fired by now, and those that must before time goes on.
Due(s, now) == {t \in s.timer : t.due <= now}

\* A timer fires and deletes by key.
Fired(s, t) == Without([s EXCEPT !.timer = @ \ {t}], t.key)
=============================================================================
