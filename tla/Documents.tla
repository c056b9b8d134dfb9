----------------------------- MODULE Documents ------------------------------
(***************************************************************************)
(* The XML a configuration is read from and written to: what the executor  *)
(* does to the elements (psc/core/apply_xml.py), what the parser makes of  *)
(* them (psc/core/parse.py), and the partial document of a batch of        *)
(* changes.                                                                *)
(*                                                                         *)
(* A document is a function from the entries [tag, name, loc] (the tag is  *)
(* the container the entry is in) to what is below them: the value         *)
(* elements, at most one per type, and for every field the member lists of *)
(* that name, in document order.  <<>> is a list that is not there, <<{}>> *)
(* one without members.                                                    *)
(***************************************************************************)
EXTENDS AuthoringPlans

CONSTANT TypeOrder  \* the order in which the parser tries the types of a value

ASSUME TypeOrderAssumption ==
    /\ Len(TypeOrder) \in Nat /\ DOMAIN TypeOrder = 1..Len(TypeOrder)
    /\ \A v \in Values : \E k \in DOMAIN TypeOrder : TypeOrder[k] = TypeOf[v]

Containers == {"address", "address-group", "service", "service-group", "tag"} \cup RuleSpaces
FilterFields == {"filter", "filter-not"}

Element == [values : SUBSET Values, lists : [Fields -> Seq(SUBSET Members)]]
Container(kind) == IF kind = "dynamic-group" THEN "address-group" ELSE kind

ElementOf(kind, id) == [tag |-> Container(kind), name |-> id.name, loc |-> id.loc]
IdOf(e) == Slot(SpaceOf(e.tag), e.name, e.loc)

(* A document PAN-OS would save: a name of a namespace is in one container.*)
IsDocument(doc) ==
    /\ doc = [e \in DOMAIN doc |-> doc[e]]
    /\ \A e \in DOMAIN doc :
          e \in [tag : Containers, name : Names, loc : Locs] /\ doc[e] \in Element
    /\ \A e, f \in DOMAIN doc : IdOf(e) = IdOf(f) => e = f

-----------------------------------------------------------------------------
(* Reading.                                                                *)

(* The first list of a name is the one that counts. *)
Shown(lists) == IF lists = <<>> THEN {} ELSE Head(lists)

Rank(v) == CHOOSE k \in DOMAIN TypeOrder : TypeOrder[k] = TypeOf[v]
FirstOf(values) ==
    IF values = {} THEN Nil ELSE CHOOSE v \in values : \A w \in values : Rank(v) <= Rank(w)

(* A group with a filter is dynamic, whatever else it holds. *)
Parsed(e, el) ==
    [kind   |-> IF e.tag = "address-group" /\ el.lists["filter"] # <<>> THEN "dynamic-group" ELSE e.tag,
     value  |-> FirstOf(el.values),
     fields |-> [f \in Fields |-> Shown(el.lists[f])]]

(* parse_config *)
Parse(doc) ==
    ReadBack([i \in {IdOf(e) : e \in DOMAIN doc} |->
        LET e == CHOOSE x \in DOMAIN doc : IdOf(x) = i IN Parsed(e, doc[e])])

-----------------------------------------------------------------------------
(* Writing.                                                                *)

Blank == [values |-> {}, lists |-> [f \in Fields |-> <<>>]]

(* Faulty variant: the members that are there stay. *)
PutListKeeping(lists, members) ==
    IF members = {} THEN lists
    ELSE IF lists # <<>> /\ Head(lists) # {} THEN <<Head(lists) \cup members>> \o Tail(lists)
    ELSE Append(lists, members)

(* `find(leaf) or SubElement(leaf)`: the first list is rewritten, but one  *)
(* without members is false, and then there is a second one.               *)
PutList(lists, members) ==
    IF members = {} THEN lists
    ELSE IF lists # <<>> /\ Head(lists) # {} THEN <<members>> \o Tail(lists)
    ELSE Append(lists, members)

(* _apply_upsert: the value takes the place of one of its type.            *)
Put(el, entry) ==
    [values |-> IF entry.value = Nil THEN el.values
                ELSE {v \in el.values : TypeOf[v] # TypeOf[entry.value]} \cup {entry.value},
     lists  |-> [f \in Fields |->
                    IF f \notin FilterFields THEN PutList(el.lists[f], entry.fields[f])
                    ELSE IF entry.kind = "dynamic-group" THEN <<entry.fields[f]>> ELSE el.lists[f]]]

UpsertedDoc(doc, upserts) ==
    LET at(i)  == ElementOf(upserts[i].kind, i)
        old(e) == IF e \in DOMAIN doc THEN doc[e] ELSE Blank
        puts(e) == {i \in DOMAIN upserts : at(i) = e}
    IN  [e \in DOMAIN doc \cup {at(i) : i \in DOMAIN upserts} |->
            IF puts(e) = {} THEN doc[e] ELSE Put(old(e), upserts[CHOOSE i \in puts(e) : TRUE])]

(* _set_members on the first list of the name, or on a new one.            *)
EditedDoc(doc, edits) ==
    LET c          == Parse(doc)
        by(e, f)   == Writers(c, edits, IdOf(e), f)
        rest(lists) == IF lists = <<>> THEN <<>> ELSE Tail(lists)
    IN  [e \in DOMAIN doc |->
            [doc[e] EXCEPT !.lists = [f \in Fields |->
                IF by(e, f) = {} THEN @[f]
                ELSE <<edits[CHOOSE k \in by(e, f) : TRUE]>> \o rest(@[f])]]]

WithoutDoc(doc, gone) == [e \in {x \in DOMAIN doc : IdOf(x) \notin gone} |-> doc[e]]

RenamedDoc(doc, renames) ==
    LET moved(e) == IF IdOf(e) \in DOMAIN renames THEN [e EXCEPT !.name = renames[IdOf(e)]] ELSE e
    IN  [x \in {moved(e) : e \in DOMAIN doc} |-> doc[CHOOSE e \in DOMAIN doc : moved(e) = x]]

(* apply_changeset, on the document. *)
ApplyDoc(doc, plan) ==
    LET upserted == UpsertedDoc(doc, plan.upserts)
        edited   == EditedDoc(upserted, plan.edits)
        trimmed  == WithoutDoc(edited, plan.ruleDeletes)
    IN  WithoutDoc(RenamedDoc(trimmed, plan.renames), plan.deletes)

-----------------------------------------------------------------------------
(* The partial document: the entries the batch touched, as they are in the *)
(* end, and the ones it removed, which a load cannot express.              *)

NothingTouched == [present |-> {}, removed |-> {}]

(* Faulty variant: what comes back stays listed as removed. *)
PresentedOnly(p, es) == [present |-> p.present \cup es, removed |-> p.removed]

Presented(p, es) == [present |-> p.present \cup es, removed |-> p.removed \ es]
Removed(p, es) == [present |-> p.present \ es, removed |-> p.removed \cup es]

(* _collect_touched: one more changeset, made from the configuration c.    *)
Recorded(p, c, plan) ==
    LET kind(i)    == IF i \in DOMAIN plan.upserts THEN plan.upserts[i].kind ELSE c[i].kind
        at(i)      == ElementOf(kind(i), i)
        referrers  == {k[1] : k \in {x \in DOMAIN plan.edits : c[x[1]].kind \in GroupKinds \cup RuleSpaces}}
        renamed(i) == [at(i) EXCEPT !.name = plan.renames[i]]
        edited     == Presented(p, {at(i) : i \in DOMAIN plan.upserts \cup referrers})
        trimmed    == Removed(edited, {at(i) : i \in plan.ruleDeletes})
        moved      == Removed(Presented(trimmed, {renamed(i) : i \in DOMAIN plan.renames}),
                              {at(i) : i \in DOMAIN plan.renames})
    IN  Removed(moved, {at(i) : i \in plan.deletes})

(* External: the manager loads the partial document into the source, entry *)
(* by entry, and then the operator carries out the removals it reports.    *)
Loaded(source, p, doc) ==
    LET brought == p.present \cap DOMAIN doc
    IN  [e \in (DOMAIN source \cup brought) \ p.removed |-> IF e \in brought THEN doc[e] ELSE source[e]]
=============================================================================
