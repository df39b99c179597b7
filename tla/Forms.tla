-------------------------------- MODULE Forms --------------------------------
(***************************************************************************)
(* The questionnaires of the tenants and their editor.                     *)
(*                                                                         *)
(* A field is in a questionnaire, in the group of another field or, as a   *)
(* template, on its own; a reference is shown as the template it points    *)
(* to, with what is inside.  An option of a field may be the condition     *)
(* (trigger) for another field to be shown.  A questionnaire is taken with *)
(* one step.  Labels, attributes and overrides of templates are left out.  *)
(*                                                                         *)
(* An editor's transaction checks before it holds the write lock: it is    *)
(* begun by one step, which reads, and ended by another, which writes.     *)
(* Identifiers are random in the code, or a request's; here a new one was   *)
(* never used.                                                             *)
(***************************************************************************)
EXTENDS Naturals, FiniteSets, FiniteSetsExt, SequencesExt

CONSTANTS Tenants, Root, Fields, Options, Questionnaires, Workers,
          Identity,      \* the template of the whistleblower's identity
          MaxNesting,    \* MAX_FIELD_GROUP_NESTING
          MaxDepth,      \* MAX_SERIALIZATION_DEPTH
          Seeds,         \* what the database may hold at first
          MaxOps         \* bounds the model

\* Fields, options and questionnaires are positive numbers: 0 is none.

VARIABLES
    db,        \* field, option, trigger, form (questionnaires) and context rows
    busy,      \* the transaction of each worker
    fresh,     \* the identifiers handed out so far
    ops,       \* transactions begun (bounds the model)
    raced,     \* whether a transaction wrote what another had changed the grounds of
    moved      \* questionnaires an update brought the identity question to

vars == <<db, busy, fresh, ops, raced, moved>>

Database(field, option, trigger, form, context) ==
    [field |-> field, option |-> option, trigger |-> trigger, form |-> form, context |-> context]

Kinds == {"template", "instance", "reference"}
Row == [tid : Tenants, inst : Kinds, form : Questionnaires \cup {0},
        group : Fields \cup {0}, tmpl : Fields \cup {0}, voice : BOOLEAN]
Gone == [tid |-> 0, inst |-> "none", form |-> 0, group |-> 0, tmpl |-> 0, voice |-> FALSE]
There(d, f) == d.field[f] # Gone
Rows(d) == {f \in Fields : There(d, f)}

Databases == [field : [Fields -> Row \cup {Gone}], option : [Options -> Fields \cup {0}],
              trigger : SUBSET (Options \X Fields), form : [Questionnaires -> Tenants \cup {0}],
              context : [Tenants -> [main : Questionnaires \cup {0}, extra : Questionnaires \cup {0}]]]
Idle == [op |-> "idle"]

OptionsOf(d, f) == {o \in Options : d.option[o] = f}
ConditionsOf(d, f) == {t[1] : t \in {t \in d.trigger : t[2] = f}}
Inside(d, f) == {g \in Rows(d) : d.field[g].group = f}
Ordered(S) == [i \in 1 .. Cardinality(S) |-> CHOOSE x \in S : Cardinality({y \in S : y < x}) = i - 1]

\* What the foreign keys with cascade leave: the rows S, but those whose group is
\* not among them, with their options and triggers.
Kept(d, S) == {f \in S : d.field[f].group \in S \cup {0}}
Stay(d, S) ==
    LET left[n \in 0 .. Cardinality(Fields)] == IF n = 0 THEN S ELSE Kept(d, left[n - 1])
    IN  left[Cardinality(Fields)]

Cascaded(d) ==
    LET stay == Stay(d, {f \in Rows(d) : d.field[f].form # 0 => d.form[d.field[f].form] # 0})
        option == [o \in Options |-> IF d.option[o] \in stay THEN d.option[o] ELSE 0]
    IN  Database([f \in Fields |-> IF f \in stay THEN d.field[f] ELSE Gone],
                 option, {t \in d.trigger : t[2] \in stay /\ option[t[1]] # 0}, d.form, d.context)

\* The foreign keys as they are checked at the commit.
Referenced(d) ==
    /\ \A f \in Rows(d) : LET r == d.field[f] IN
         /\ r.form # 0 => d.form[r.form] # 0
         /\ r.group # 0 => There(d, r.group)
         /\ r.tmpl # 0 => There(d, r.tmpl)
    /\ \A t \in d.trigger : d.option[t[1]] # 0 /\ There(d, t[2])
    /\ \A t \in Tenants : d.context[t].main # 0 => d.form[d.context[t].main] # 0

-----------------------------------------------------------------------------
\* check_field_association.

GroupsOf(d, S) == {d.field[f].group : f \in S} \ {0}

Around(d, S) == S \cup GroupsOf(d, S)

\* The field, the group it is in and those above, as far up as makes a difference.
Above(d, f) ==
    LET up[n \in 0 .. MaxNesting] == IF n = 0 THEN {f} \ {0} ELSE Around(d, up[n - 1])
    IN  up[MaxNesting]

\* One level further down: a tenant's rows in the groups of a level
Deeper(d, t, b) ==
    LET level == {g \in Rows(d) : d.field[g].tid = t /\ d.field[g].group \in b.level} \ b.visited
    IN  [level |-> level, visited |-> b.visited \cup level]

\* What is n levels below f, and what is no further
Below(d, t, f) ==
    LET down[n \in 0 .. MaxNesting] ==
          IF n = 0 THEN [level |-> {f}, visited |-> {f}] ELSE Deeper(d, t, down[n - 1])
    IN  down

\* db_field_subtree_height: the levels that are not empty; f is 0 for a field yet to be.
Height(d, t, f) ==
    IF f = 0 THEN 1 ELSE Cardinality({n \in 0 .. MaxNesting : Below(d, t, f)[n].level # {}})

\* Mutant: what a moved group holds is not counted.
MutNestsWell(d, t, f, group) ==
    group # 0 => /\ f # 0 => f \notin Above(d, group)
                 /\ Cardinality(Above(d, group)) + 1 <= MaxNesting

NestsWell(d, t, f, group) ==
    group # 0 => /\ f # 0 => f \notin Above(d, group)
                 /\ Cardinality(Above(d, group)) + Height(d, t, f) <= MaxNesting

\* What is not there passes here, and fails with its foreign key.
OwnLinks(d, t, r) ==
    /\ r.group # 0 => d.field[r.group].tid \in {0, t}
    /\ r.tmpl # 0 => d.field[r.tmpl].tid \in {0, Root, t}
    /\ r.form # 0 => d.form[r.form] \in {0, t}
    /\ \A o \in r.on : d.option[o] # 0 => d.field[d.option[o]].tid = t

Associable(d, t, f, r) == OwnLinks(d, t, r) /\ NestsWell(d, t, f, r.group)

\* db_create_option_trigger: the option is there, and the tenant's.
Available(d, t, on) == \A o \in on : d.option[o] # 0 /\ d.field[d.option[o]].tid = t

-----------------------------------------------------------------------------
\* serialize_field and serialize_step: the fields shown, each with its depth, a
\* group before what is inside.  Without templates, references are not opened.

Source(d, f) == IF d.field[f].tmpl # 0 THEN d.field[f].tmpl ELSE f
Opens(d, f, templates) == d.field[f].inst # "reference" \/ templates

Node(f, n) == [field |-> f, depth |-> MaxDepth - n]
Children(d, f, templates) == IF Opens(d, f, templates) THEN Ordered(Inside(d, Source(d, f))) ELSE << >>

\* Each field with what is inside, given what is inside its children
Opened(d, templates, n, inner) ==
    [f \in Fields |->
       LET children == Children(d, f, templates)
       IN  <<Node(f, n)>> \o FlattenSeq([i \in DOMAIN children |-> inner[children[i]]])]

\* A field and n levels of what is inside
Nodes(d, templates) ==
    LET nodes[n \in 0 .. MaxDepth] ==
          IF n = 0 THEN [f \in Fields |-> <<Node(f, 0)>>] ELSE Opened(d, templates, n, nodes[n - 1])
    IN  nodes

Shown(d, q, templates) ==
    LET top == Ordered({f \in Rows(d) : d.field[f].form = q})
        nodes == Nodes(d, templates)[MaxDepth]
    IN  FlattenSeq([i \in DOMAIN top |-> nodes[top[i]]])

ShownOptions(d, f) == Ordered(OptionsOf(d, Source(d, f)))
Type(d, f) == d.field[Source(d, f)].voice

\* A questionnaire as a whistleblower sees it, without the identifiers.
Public(d, q) ==
    LET nodes == Shown(d, q, TRUE)
    IN  [i \in DOMAIN nodes |->
           LET f == nodes[i].field
               on == ConditionsOf(d, f)
           IN  [depth |-> nodes[i].depth, voice |-> Type(d, f), options |-> Len(ShownOptions(d, f)),
                on |-> {<<j, {k \in DOMAIN ShownOptions(d, nodes[j].field) :
                                ShownOptions(d, nodes[j].field)[k] \in on}>> : j \in DOMAIN nodes}]]

-----------------------------------------------------------------------------
\* A tenant's rows are linked to its own, but for templates of the root tenant.
Apart(d) ==
    /\ \A f \in Rows(d) : LET r == d.field[f] IN
         /\ r.group # 0 => d.field[r.group].tid = r.tid
         /\ r.form # 0 => d.form[r.form] = r.tid
         /\ r.tmpl # 0 => d.field[r.tmpl].tid \in {Root, r.tid}
    /\ \A t \in d.trigger : d.field[d.option[t[1]]].tid = d.field[t[2]].tid

\* How many groups a field is in
Depth(d, f) == Cardinality(Above(d, d.field[f].group))

\* One more than its group is in, and not too many
Levelled(d) ==
    \A f \in Rows(d) : LET g == d.field[f].group IN
      /\ Depth(d, f) < MaxNesting
      /\ g # 0 => Depth(d, f) = Depth(d, g) + 1

IdentityIn(d, q) == {f \in Rows(d) : d.field[f].tmpl = Identity /\ d.field[f].form = q}

\* The numbers used are 1, 2, ... and what is there at first is sound.
FormsAssumption ==
    /\ Cardinality(Fields) \in Nat /\ Fields = 1 .. Cardinality(Fields)
    /\ Cardinality(Options) \in Nat /\ Options = 1 .. Cardinality(Options)
    /\ Cardinality(Questionnaires) \in Nat /\ Questionnaires = 1 .. Cardinality(Questionnaires)
    /\ Root \in Tenants /\ 0 \notin Tenants
    /\ MaxNesting \in Nat \ {0} /\ MaxDepth \in Nat
    /\ \A d \in Seeds :
         /\ d \in Databases /\ Referenced(d) /\ Apart(d) /\ Levelled(d)
         /\ \A q \in Questionnaires : Cardinality(IdentityIn(d, q)) <= 1
         /\ Rows(d) = 1 .. Cardinality(Rows(d))
         /\ LET used == {o \in Options : d.option[o] # 0} IN used = 1 .. Cardinality(used)
         /\ LET used == {q \in Questionnaires : d.form[q] # 0} IN used = 1 .. Cardinality(used)

-----------------------------------------------------------------------------
Init ==
    /\ db \in Seeds
    /\ busy = [w \in Workers |-> Idle]
    /\ fresh = [field |-> Cardinality(Rows(db)),
                option |-> Cardinality({o \in Options : db.option[o] # 0}),
                form |-> Cardinality({q \in Questionnaires : db.form[q] # 0})]
    /\ ops = 0
    /\ raced = FALSE
    /\ moved = {}

Begin(w, request) ==
    /\ busy[w] = Idle /\ ops < MaxOps
    /\ busy' = [busy EXCEPT ![w] = request]
    /\ ops' = ops + 1
    /\ UNCHANGED <<db, fresh, raced, moved>>

\* The exception, or the foreign key, that rolls the transaction back.
Abort(w) ==
    /\ busy[w] # Idle
    /\ busy' = [busy EXCEPT ![w] = Idle]
    /\ UNCHANGED <<db, fresh, ops, raced, moved>>

Commit(w, d) ==
    /\ Referenced(d)
    /\ db' = d
    /\ busy' = [busy EXCEPT ![w] = Idle]
    /\ UNCHANGED ops

\* A transaction that reads nothing that matters before it holds the lock.
AtOnce(w, d) ==
    /\ busy[w] = Idle /\ ops < MaxOps
    /\ Referenced(d)
    /\ db' = d
    /\ ops' = ops + 1
    /\ UNCHANGED <<busy, raced, moved>>

\* Where a field is put: in a questionnaire, in a group, or as a template.
Forms == {q \in Questionnaires : db.form[q] # 0}
Places == [form : Forms, group : {0}] \cup [form : {0}, group : Rows(db)] \cup [form : {0}, group : {0}]

\* A request brings all of a row but the tenant, and the conditions.
Request(r, on) == [form |-> r.form, group |-> r.group, tmpl |-> r.tmpl, inst |-> r.inst,
                   voice |-> r.voice, on |-> on]
Conditions == {{}} \cup {{o} : o \in {o \in Options : db.option[o] # 0}}

Groups(d) == [f \in Fields |-> d.field[f].group]

\* A field as the client asks for it, by itself or as another one.
Asked(p, m) ==
    [form |-> p.form, group |-> p.group, tmpl |-> m, voice |-> m # 0 /\ db.field[m].voice,
     inst |-> IF m # 0 THEN "reference" ELSE IF p.group # 0 THEN db.field[p.group].inst
              ELSE IF p.form # 0 THEN "instance" ELSE "template"]

\* Any row may be asked for as a template, any kind and any type; here, one thing
\* differs from what the client asks for, and not in a group (bounds the model).
Offered == {f \in Rows(db) : db.field[f].inst = "template" /\ db.field[f].group = 0} \cup {0}
Additions ==
    LET usual == {Asked(p, m) : p \in Places, m \in Offered}
        top == {p \in Places : p.group = 0}
        plain == {Asked(p, 0) : p \in top}
    IN  {Request(r, on) : r \in usual, on \in Conditions}
        \cup {Request(Asked(p, m), {}) : p \in top, m \in Rows(db)}
        \cup {Request([r EXCEPT !.inst = i], {}) : r \in plain, i \in Kinds}
        \cup {Request([r EXCEPT !.voice = TRUE], {}) : r \in plain}

CreateBegin(w, t) ==
    /\ busy[w] = Idle /\ ops < MaxOps
    /\ \E r \in Additions :
      /\ Associable(db, t, 0, r)
      /\ r.tmpl = Identity => r.form # 0 /\ IdentityIn(db, r.form) = {}
      /\ Begin(w, [op |-> "create", tid |-> t, r |-> r, seen |-> db])

\* The conditions of a field with a template are not stored with it, but by an update.
Created(b) ==
    LET r == b.r  f == fresh.field + 1
        row == [tid |-> b.tid, form |-> r.form, group |-> r.group, tmpl |-> r.tmpl,
                inst |-> r.inst, voice |-> r.voice]
    IN  Database([db.field EXCEPT ![f] = row], db.option,
                 db.trigger \cup IF r.tmpl = 0 THEN {<<o, f>> : o \in r.on} ELSE {}, db.form, db.context)

CreateCommit(w) ==
    LET b == busy[w] IN
    /\ b.op = "create"
    /\ fresh.field + 1 \in Fields
    /\ b.r.tmpl = 0 => Available(db, b.tid, b.r.on)
    /\ Commit(w, Created(b))
    /\ fresh' = [fresh EXCEPT !.field = @ + 1]
    /\ raced' = (raced \/ (b.r.group # 0 /\ Groups(b.seen) # Groups(db))
                       \/ (b.r.tmpl = Identity /\ IdentityIn(db, b.r.form) # {}))
    /\ UNCHANGED moved

\* An update brings the row, the conditions and the options to keep, of those
\* shown, and may bring a new one; one thing changes at a time (bounds the model).
Edits(f) ==
    LET row == db.field[f]
        on == ConditionsOf(db, f)
        all == IF row.inst = "reference" THEN {} ELSE Range(ShownOptions(db, f))
        edit(r, conditions, keep, add) == [r |-> Request(r, conditions), keep |-> keep, add |-> add]
        other == {[row EXCEPT !.form = p.form, !.group = p.group] : p \in Places}
                 \cup {[row EXCEPT !.tmpl = m] : m \in Offered}
                 \cup {[row EXCEPT !.inst = i] : i \in Kinds} \cup {[row EXCEPT !.voice = ~@]}
    IN  {edit(r, on, all, FALSE) : r \in other}
        \cup {edit(row, conditions, all, FALSE) : conditions \in Conditions}
        \cup {edit(row, on, keep, row.inst # "reference") : keep \in SUBSET all}
        \cup {edit(row, on, keep, FALSE) : keep \in SUBSET all}

UpdateBegin(w, t) ==
    /\ busy[w] = Idle /\ ops < MaxOps
    /\ \E f \in Rows(db) :
         /\ db.field[f].tid = t
         /\ \E e \in Edits(f) :
              /\ Associable(db, t, f, e.r)
              /\ Begin(w, [op |-> "update", tid |-> t, f |-> f, r |-> e.r, keep |-> e.keep,
                           add |-> e.add, seen |-> db])

\* db_update_fieldoptions: nothing is removed if nothing is left.
UpdatedOptions(b) ==
    LET gone == IF b.keep = {} /\ ~b.add THEN {} ELSE OptionsOf(db, b.f) \ b.keep
        new == IF b.add THEN {fresh.option + 1} ELSE {}
    IN  [o \in Options |-> IF o \in new THEN b.f ELSE IF o \in gone THEN 0 ELSE db.option[o]]

\* Only the columns that differ from those read are written.
Moved(b) ==
    LET was == b.seen.field[b.f]
        row == db.field[b.f]
    IN  [tid |-> row.tid,
         inst |-> IF b.r.inst # was.inst THEN b.r.inst ELSE row.inst,
         tmpl |-> IF b.r.tmpl # was.tmpl THEN b.r.tmpl ELSE row.tmpl,
         voice |-> IF b.r.voice # was.voice THEN b.r.voice ELSE row.voice,
         form |-> IF b.r.form # was.form THEN b.r.form ELSE row.form,
         group |-> IF b.r.group # was.group THEN b.r.group ELSE row.group]

Reset(b) == {t \in db.trigger : t[2] # b.f} \cup {<<o, b.f>> : o \in b.r.on}

\* Of what was read as a reference only the conditions change.
Updated(b) ==
    IF b.seen.field[b.f].inst = "reference"
    THEN Database(db.field, db.option, Reset(b), db.form, db.context)
    ELSE Cascaded(Database([db.field EXCEPT ![b.f] = Moved(b)], UpdatedOptions(b), Reset(b),
                           db.form, db.context))

\* An option of another field would be inserted a second time.
UpdateCommit(w) ==
    LET b == busy[w] IN
    /\ b.op = "update"
    /\ There(db, b.f)
    /\ Available(db, b.tid, b.r.on)
    /\ b.keep \subseteq OptionsOf(db, b.f)
    /\ b.add => fresh.option + 1 \in Options
    /\ Commit(w, Updated(b))
    /\ fresh' = [fresh EXCEPT !.option = IF b.add THEN @ + 1 ELSE @]
    /\ raced' = (raced \/ (b.r.group # 0 /\ Groups(b.seen) # Groups(db)))
    /\ moved' = moved \cup {q \in Questionnaires : ~(IdentityIn(Updated(b), q) \subseteq IdentityIn(db, q))}

\* What a deletion has read of the templates, the foreign keys check again.
DeleteField(w, t) ==
    \E f \in Rows(db) :
      /\ db.field[f].tid = t
      /\ db.field[f].inst = "template" =>
           \A g \in Rows(db) : ~(db.field[g].tid = t /\ db.field[g].tmpl = f)
      /\ AtOnce(w, Cascaded(Database([db.field EXCEPT ![f] = Gone], db.option, db.trigger,
                                     db.form, db.context)))
      /\ UNCHANGED fresh

CreateForm(w, t) ==
    /\ fresh.form + 1 \in Questionnaires
    /\ AtOnce(w, Database(db.field, db.option, db.trigger, [db.form EXCEPT ![fresh.form + 1] = t], db.context))
    /\ fresh' = [fresh EXCEPT !.form = @ + 1]

DeleteForm(w, t) ==
    \E q \in Questionnaires :
      /\ db.form[q] = t
      /\ AtOnce(w, Cascaded(Database(db.field, db.option, db.trigger, [db.form EXCEPT ![q] = 0], db.context)))
      /\ UNCHANGED fresh

\* The second questionnaire of a context is no foreign key.
SetContext(w, t) ==
    \E main \in Forms, extra \in Forms \cup {0} :
      /\ {db.form[q] : q \in {main, extra} \ {0}} \subseteq {0, Root, t}
      /\ AtOnce(w, Database(db.field, db.option, db.trigger, db.form,
                         [db.context EXCEPT ![t] = [main |-> main, extra |-> extra]]))
      /\ UNCHANGED fresh

-----------------------------------------------------------------------------
\* duplicate_questionnaire: what is shown, without templates, made again.

DuplicateBegin(w, t) ==
    \E q \in Questionnaires :
      /\ db.form[q] \in {Root, t}
      /\ Begin(w, [op |-> "duplicate", tid |-> t, q |-> q, seen |-> db])

\* The fields of the copy: each with its number, its group, the field it is made
\* from, and the options it is made with.
Copies(b) ==
    LET nodes == Shown(b.seen, b.q, FALSE)
        above(i) == {j \in 1 .. i - 1 : nodes[j].depth + 1 = nodes[i].depth}
    IN  [i \in DOMAIN nodes |->
           LET f == nodes[i].field IN
           [from |-> f, id |-> fresh.field + i, depth |-> nodes[i].depth,
            group |-> IF above(i) = {} THEN 0 ELSE fresh.field + Max(above(i)),
            tmpl |-> b.seen.field[f].tmpl,
            shown |-> ShownOptions(b.seen, f)]]

Plain(c) == c.tmpl = 0

\* The options the copies get, in the order they are made.
CopiedOptions(cs) ==
    FlattenSeq([i \in DOMAIN cs |->
        IF Plain(cs[i]) THEN [k \in DOMAIN cs[i].shown |-> [of |-> i, from |-> cs[i].shown[k]]]
        ELSE << >>])

\* id_map: the last copy that shows an option.
Mapped(cs, o) == {i \in DOMAIN cs : o \in Range(cs[i].shown)}

\* Mutant: the copy is shown on the options of the original.
MutNewOption(cs, o) == {o}

NewOption(cs, o) ==
    LET new == CopiedOptions(cs) IN
    {fresh.option + k : k \in {k \in DOMAIN new : new[k] = [of |-> Max(Mapped(cs, o)), from |-> o]}}

\* All the conditions must be found, and those of plain fields on options made
\* before; those of the other fields are not made.
Duplicable(b, cs) ==
    /\ \A i \in DOMAIN cs :
         /\ cs[i].depth < MaxNesting
         /\ cs[i].tmpl = Identity => cs[i].depth = 0
         /\ \A o \in ConditionsOf(b.seen, cs[i].from) :
              /\ b.seen.option[o] \in {cs[j].from : j \in DOMAIN cs}
              /\ Mapped(cs, o) # {}
              /\ Plain(cs[i]) => Plain(cs[Max(Mapped(cs, o))]) /\ Max(Mapped(cs, o)) <= i
    /\ Cardinality({i \in DOMAIN cs : cs[i].tmpl = Identity}) <= 1

Duplicated(b, cs) ==
    LET q == fresh.form + 1
        new == CopiedOptions(cs)
        row(i) == [tid |-> b.tid, inst |-> "instance", tmpl |-> cs[i].tmpl,
                   form |-> IF cs[i].depth = 0 THEN q ELSE 0, group |-> cs[i].group,
                   voice |-> Type(b.seen, cs[i].from)]
    IN  Database(
          [f \in Fields |-> IF f - fresh.field \in DOMAIN cs THEN row(f - fresh.field) ELSE db.field[f]],
          [o \in Options |-> IF o - fresh.option \in DOMAIN new THEN cs[new[o - fresh.option].of].id
                             ELSE db.option[o]],
          db.trigger \cup UNION {NewOption(cs, p[2]) \X {cs[p[1]].id} :
              p \in {p \in (DOMAIN cs) \X Options :
                  Plain(cs[p[1]]) /\ p[2] \in ConditionsOf(b.seen, cs[p[1]].from)}},
          [db.form EXCEPT ![q] = b.tid], db.context)

DuplicateCommit(w) ==
    /\ busy[w].op = "duplicate"
    /\ LET b == busy[w]  cs == Copies(b)  new == CopiedOptions(cs) IN
       /\ fresh.form + 1 \in Questionnaires
       /\ fresh.field + Len(cs) \in Fields \cup {0} /\ fresh.option + Len(new) \in Options \cup {0}
       /\ Duplicable(b, cs)
       /\ Commit(w, Duplicated(b, cs))
       /\ fresh' = [field |-> fresh.field + Len(cs), option |-> fresh.option + Len(new),
                    form |-> fresh.form + 1]
       /\ UNCHANGED <<raced, moved>>

Next ==
    \E w \in Workers :
      \/ \E t \in Tenants :
           \/ CreateBegin(w, t) \/ UpdateBegin(w, t) \/ DuplicateBegin(w, t)
           \/ DeleteField(w, t) \/ CreateForm(w, t) \/ DeleteForm(w, t) \/ SetContext(w, t)
      \/ CreateCommit(w) \/ UpdateCommit(w) \/ DuplicateCommit(w) \/ Abort(w)

Spec == Init /\ [][Next]_vars

-----------------------------------------------------------------------------
\* db_get_tenants_using_voice: from the voice fields upwards, through groups and
\* templates, to the questionnaires.
Inheriting(d, S) == S \cup {f \in Rows(d) : d.field[f].tmpl \in S}

\* A round finds those that inherit; their groups are next.
Round(d, r) ==
    LET new == Inheriting(d, r.next) \ r.seen
    IN  [seen |-> r.seen \cup new, next |-> GroupsOf(d, new)]

Reached(d) ==
    LET found[n \in 0 .. MaxDepth] ==
          IF n = 0 THEN [seen |-> {}, next |-> {f \in Rows(d) : d.field[f].voice}] ELSE Round(d, found[n - 1])
    IN  found

UsingVoice(d) ==
    LET forms == {d.field[f].form : f \in Reached(d)[MaxDepth].seen} \ {0}
    IN  {t \in Tenants : {d.context[t].main, d.context[t].extra} \cap forms # {}}

\* The microphone is allowed on every tenant where a whistleblower is shown a
\* question to answer by voice, however deep in groups and templates of whatever
\* tenant (the serialization goes down, the permission is decided upwards); but for
\* the last level that is serialized, which is one more than the levels looked at.
VoiceIsGranted ==
    LET granted == UsingVoice(db) IN
    \A t \in Tenants : \A q \in {db.context[t].main, db.context[t].extra} \ {0} :
      (\E node \in Range(Shown(db, q, TRUE)) : node.depth < MaxDepth /\ Type(db, node.field)) => t \in granted

\* Whatever the order of creations, updates and copies, groups nest without a loop
\* and no deeper than allowed; and creations and copies never make a questionnaire
\* ask for the identity twice, whatever updates did elsewhere: an update checks
\* neither where it puts that question nor whether it makes a field that question.
\* All unless a transaction overlapped with one that changed what it had checked.
WellNested ==
    raced \/
    /\ \A f \in Rows(db) : f \notin Above(db, db.field[f].group) /\ Depth(db, f) < MaxNesting
    /\ \A q \in Questionnaires \ moved : Cardinality(IdentityIn(db, q)) <= 1

\* A tenant's questionnaires are built of its own fields and options and of
\* templates of its own or of the root tenant, even if the rows change between
\* the check and the commit.
TenantsApart == Apart(db)

\* The rows of the questionnaires, whatever order they were changed in, are sound.
QuestionnairesSound == WellNested /\ TenantsApart

\* What is in a questionnaire, in its groups or in those inside
Within(d, q) == {f \in Rows(d) : \E g \in Above(d, f) : d.field[g].form = q}

\* Each field of a questionnaire is in one place, the templates are kept elsewhere,
\* what is called a reference has a template, and conditions tie the questionnaire's own questions, or other questions, to each
\* other; none is on the use of a template.
SelfContained(d, q) ==
    LET own == Within(d, q) IN
    /\ \A f \in own : d.field[f].form = 0 \/ d.field[f].group = 0
    /\ \A f \in own : d.field[f].inst = "reference" => d.field[f].tmpl # 0
    /\ \A f \in Rows(d) : d.field[f].tmpl # 0 => d.field[f].tmpl \notin own
    /\ \A t \in d.trigger : d.field[t[2]].tmpl = 0 /\ (d.option[t[1]] \in own <=> t[2] \in own)

\* A copy of a questionnaire looks the same to a whistleblower: same questions at
\* the same places, same options, same conditions; unless it is tied up with
\* templates or shows a question twice, when conditions are lost or left as they are.
CopyLooksTheSame ==
    [][\A w \in Workers :
         DuplicateCommit(w) /\ busy[w].seen = db /\ SelfContained(db, busy[w].q)
           => Public(db', fresh'.form) = Public(db, busy[w].q)]_vars
=============================================================================
