------------------------- MODULE HousekeepingProofs -------------------------
(***************************************************************************)
(* The commands on a configuration, as applied to its document, and the    *)
(* scan of the firewalls: documents stay readable whatever is commanded,   *)
(* the partial document carries every change, the document says what the   *)
(* executor's model says, a scan is complete or says that it is not, what  *)
(* a report calls unused is, and deleting it leaves the rules as they are. *)
(* For any configuration, any files, any number of firewalls, in whatever  *)
(* order they are asked.                                                   *)
(***************************************************************************)
EXTENDS Housekeeping, PlanProofs

-----------------------------------------------------------------------------
(* Documents and what is read from them.                                   *)

Entries == [tag : Containers, name : Names, loc : Locs]

(* Every kind has its container, in its namespace.                         *)
LEMMA ContainerFacts ==
    /\ \A k \in Kinds : Container(k) \in Containers /\ SpaceOf(Container(k)) = SpaceOf(k)
    /\ \A t \in Containers : t \in Kinds /\ SpaceOf(t) \in Spaces /\ Container(t) = t
BY DEF Kinds, Containers, Container, SpaceOf, RuleSpaces, Spaces, ObjectSpaces

(* An entry has one identity, and the element of an identity is one entry. *)
LEMMA IdFacts ==
    /\ \A e \in Entries : /\ IdOf(e) \in Ids /\ IdOf(e).space = SpaceOf(e.tag)
                          /\ IdOf(e).name = e.name /\ IdOf(e).loc = e.loc
                          /\ e = [tag |-> e.tag, name |-> e.name, loc |-> e.loc]
    /\ \A i \in Ids, k \in Kinds :
          /\ ElementOf(k, i) \in Entries /\ ElementOf(k, i).tag = Container(k)
          /\ SpaceOf(k) = i.space => IdOf(ElementOf(k, i)) = i
    /\ \A e \in Entries : \A k : Container(k) = e.tag => ElementOf(k, IdOf(e)) = e
<1>1. ASSUME NEW e \in Entries
      PROVE  /\ IdOf(e) \in Ids /\ IdOf(e).space = SpaceOf(e.tag)
             /\ IdOf(e).name = e.name /\ IdOf(e).loc = e.loc
             /\ e = [tag |-> e.tag, name |-> e.name, loc |-> e.loc]
  <2>1. e.tag \in Containers /\ e.name \in Names /\ e.loc \in Locs
        /\ e = [tag |-> e.tag, name |-> e.name, loc |-> e.loc]
    BY DEF Entries
  <2>2. SpaceOf(e.tag) \in Spaces
    BY <2>1, ContainerFacts
  <2> QED
    BY <2>1, <2>2 DEF IdOf, Slot, Ids
<1>2. ASSUME NEW i \in Ids, NEW k \in Kinds
      PROVE  /\ ElementOf(k, i) \in Entries /\ ElementOf(k, i).tag = Container(k)
             /\ SpaceOf(k) = i.space => IdOf(ElementOf(k, i)) = i
  <2>1. Container(k) \in Containers /\ SpaceOf(Container(k)) = SpaceOf(k)
    BY ContainerFacts
  <2>2. i = [space |-> i.space, name |-> i.name, loc |-> i.loc] /\ i.name \in Names /\ i.loc \in Locs
    BY DEF Ids
  <2> QED
    BY <2>1, <2>2 DEF ElementOf, Entries, IdOf, Slot
<1>3. ASSUME NEW e \in Entries, NEW k, Container(k) = e.tag PROVE ElementOf(k, IdOf(e)) = e
  BY <1>1, <1>3 DEF ElementOf
<1> QED
  BY <1>1, <1>2, <1>3

(* Kind and list of an entry as they are read.                             *)
KindOf(e, el) == IF e.tag = "address-group" /\ el.lists["filter"] # <<>> THEN "dynamic-group" ELSE e.tag
(* What an empty list of a rule is read as.                                *)
Back(kind, f, members) == IF f \in AnyFields(kind) /\ members = {} THEN {AnyName} ELSE members

(* An element is read as a kind of its container and namespace.            *)
LEMMA KindFacts ==
    ASSUME NEW e \in Entries, NEW el
    PROVE  /\ KindOf(e, el) \in Kinds /\ Container(KindOf(e, el)) = e.tag
           /\ SpaceOf(KindOf(e, el)) = IdOf(e).space
<1>1. e.tag \in Containers /\ IdOf(e).space = SpaceOf(e.tag)
  BY IdFacts DEF Entries
<1>2. KindOf(e, el) = e.tag \/ (e.tag = "address-group" /\ KindOf(e, el) = "dynamic-group")
  BY DEF KindOf
<1> QED
  BY <1>1, <1>2, ContainerFacts DEF Kinds, Container, SpaceOf

(* The type that was tried first.                                          *)
LEMMA RankFacts ==
    ASSUME NEW v \in Values
    PROVE  Rank(v) \in Nat /\ TypeOrder[Rank(v)] = TypeOf[v]
BY TypeOrderAssumption DEF Rank

(* The value read is the first of the values in the parser's order.        *)
LEMMA FirstFacts ==
    ASSUME NEW values \in SUBSET Values
    PROVE  /\ FirstOf(values) \in Values \cup {Nil}
           /\ values = {} => FirstOf(values) = Nil
           /\ values # {} => FirstOf(values) \in values
                             /\ \A w \in values : Rank(FirstOf(values)) <= Rank(w)
<1>1. CASE values = {}
  BY <1>1 DEF FirstOf
<1>2. CASE values # {}
  <2> DEFINE ranks == {Rank(v) : v \in values}
  <2>1. ranks \in SUBSET Nat /\ ranks # {}
    BY <1>2, RankFacts
  <2>2. PICK n \in ranks : \A m \in ranks : n <= m
    BY <2>1, LeastNumber
  <2>3. \E v \in values : \A w \in values : Rank(v) <= Rank(w)
    BY <2>2
  <2> QED
    BY <1>2, <2>3 DEF FirstOf
<1> QED
  BY <1>1, <1>2

(* What a document holds, by parts.                                        *)
LEMMA DocumentEntry ==
    ASSUME NEW doc, IsDocument(doc), NEW e \in DOMAIN doc
    PROVE  /\ e \in Entries /\ IdOf(e) \in Ids
           /\ doc[e] \in Element /\ doc[e].values \in SUBSET Values
           /\ doc[e].lists \in [Fields -> Seq(SUBSET Members)]
           /\ \A f \in Fields : Shown(doc[e].lists[f]) \in SUBSET Members
<1>1. e \in Entries /\ IdOf(e) \in Ids /\ doc[e] \in Element
  BY IdFacts DEF IsDocument, Entries
<1>2. doc[e].values \in SUBSET Values /\ doc[e].lists \in [Fields -> Seq(SUBSET Members)]
  BY <1>1 DEF Element
<1>3. ASSUME NEW f \in Fields PROVE Shown(doc[e].lists[f]) \in SUBSET Members
  <2>1. doc[e].lists[f] \in Seq(SUBSET Members)
    BY <1>2
  <2> QED
    BY <2>1 DEF Shown
<1> QED
  BY <1>1, <1>2, <1>3

(* The values are read as they are.                                        *)
LEMMA ReadBackValue ==
    ASSUME NEW c, IsConfig(c), NEW i \in DOMAIN c
    PROVE  ReadBack(c)[i].value = c[i].value
<1>1. c[i] \in Entry
  BY ConfigEntry
<1>2. ReadBack(c)[i] = [c[i] EXCEPT !.fields = [f \in Fields |->
          IF f \in AnyFields(c[i].kind) /\ c[i].fields[f] = {} THEN {AnyName} ELSE c[i].fields[f]]]
  BY DEF ReadBack
<1> QED
  BY <1>1, <1>2 DEF Entry

(* What is read from a document is a configuration, entry by entry.        *)
LEMMA ParseShape ==
    ASSUME NEW doc, IsDocument(doc)
    PROVE  /\ IsConfig(Parse(doc))
           /\ DOMAIN Parse(doc) = {IdOf(e) : e \in DOMAIN doc}
           /\ \A e \in DOMAIN doc :
                /\ Parse(doc)[IdOf(e)].kind = KindOf(e, doc[e])
                /\ Parse(doc)[IdOf(e)].value = FirstOf(doc[e].values)
                /\ \A f \in Fields :
                    Parse(doc)[IdOf(e)].fields[f] = Back(KindOf(e, doc[e]), f, Shown(doc[e].lists[f]))
<1> DEFINE ids == {IdOf(e) : e \in DOMAIN doc}
           of(i) == CHOOSE x \in DOMAIN doc : IdOf(x) = i
           raw == [i \in ids |-> Parsed(of(i), doc[of(i)])]
<1>1. \A e \in DOMAIN doc : of(IdOf(e)) = e
  BY DEF IsDocument
<1>2. Parse(doc) = ReadBack(raw)
  BY DEF Parse
<1>3. ASSUME NEW e \in DOMAIN doc
      PROVE  /\ IdOf(e) \in Ids /\ Parsed(e, doc[e]) \in Entry
             /\ Parsed(e, doc[e]).kind = KindOf(e, doc[e])
             /\ SpaceOf(Parsed(e, doc[e]).kind) = IdOf(e).space
             /\ Parsed(e, doc[e]).value = FirstOf(doc[e].values)
             /\ \A f \in Fields : Parsed(e, doc[e]).fields[f] = Shown(doc[e].lists[f])
  <2> DEFINE lists == [f \in Fields |-> Shown(doc[e].lists[f])]
  <2>1. e \in Entries /\ IdOf(e) \in Ids /\ lists \in [Fields -> SUBSET Members]
        /\ FirstOf(doc[e].values) \in Values \cup {Nil}
    BY DocumentEntry, FirstFacts
  <2>2. KindOf(e, doc[e]) \in Kinds /\ SpaceOf(KindOf(e, doc[e])) = IdOf(e).space
    BY <2>1, KindFacts
  <2>3. Parsed(e, doc[e]) = [kind |-> KindOf(e, doc[e]), value |-> FirstOf(doc[e].values), fields |-> lists]
    BY DEF Parsed, KindOf
  <2>4. \A f \in Fields : lists[f] = Shown(doc[e].lists[f])
    OBVIOUS
  <2> HIDE DEF lists
  <2> QED
    BY <2>1, <2>2, <2>3, <2>4 DEF Entry
<1>4. \A e \in DOMAIN doc : IdOf(e) \in ids /\ raw[IdOf(e)] = Parsed(e, doc[e])
  BY <1>1
<1>5. DOMAIN raw = ids /\ raw = [i \in ids |-> raw[i]]
      /\ \A i \in ids : \E e \in DOMAIN doc : i = IdOf(e)
  OBVIOUS
<1> HIDE DEF raw, ids
<1>6. IsConfig(raw)
  BY <1>3, <1>4, <1>5 DEF IsConfig
<1>7. IsConfig(ReadBack(raw)) /\ DOMAIN ReadBack(raw) = ids
  BY <1>5, <1>6, ReadBackShape
<1>8. ASSUME NEW i \in ids
      PROVE  /\ ReadBack(raw)[i].kind = raw[i].kind /\ ReadBack(raw)[i].value = raw[i].value
             /\ \A f \in Fields : ReadBack(raw)[i].fields[f] = Back(raw[i].kind, f, raw[i].fields[f])
  BY <1>5, <1>6, ReadBackShape, ReadBackValue DEF Back
<1>9. ASSUME NEW e \in DOMAIN doc
      PROVE  /\ ReadBack(raw)[IdOf(e)].kind = KindOf(e, doc[e])
             /\ ReadBack(raw)[IdOf(e)].value = FirstOf(doc[e].values)
             /\ \A f \in Fields :
                    ReadBack(raw)[IdOf(e)].fields[f] = Back(KindOf(e, doc[e]), f, Shown(doc[e].lists[f]))
  <2> HIDE DEF ids
  <2>1. IdOf(e) \in ids /\ raw[IdOf(e)] = Parsed(e, doc[e])
    BY <1>4
  <2>2. raw[IdOf(e)].kind = KindOf(e, doc[e]) /\ raw[IdOf(e)].value = FirstOf(doc[e].values)
        /\ \A f \in Fields : raw[IdOf(e)].fields[f] = Shown(doc[e].lists[f])
    BY <1>3, <2>1
  <2> QED
    BY <1>8, <2>1, <2>2
<1> QED
  BY <1>2, <1>7, <1>9 DEF ids

-----------------------------------------------------------------------------
(* What the steps of the executor do to a document.                        *)

(* The lists are what the write leaves.                                    *)
NewLists(el, entry) ==
    [f \in Fields |->
        IF f \notin FilterFields THEN PutList(el.lists[f], entry.fields[f])
        ELSE IF entry.kind = "dynamic-group" THEN <<entry.fields[f]>> ELSE el.lists[f]]

NewValues(el, entry) ==
    IF entry.value = Nil THEN el.values
    ELSE {v \in el.values : TypeOf[v] # TypeOf[entry.value]} \cup {entry.value}

(* The list a put leaves is a list of member lists.                        *)
LEMMA PutListType ==
    ASSUME NEW lists \in Seq(SUBSET Members), NEW members \in SUBSET Members
    PROVE  PutList(lists, members) \in Seq(SUBSET Members)
<1>1. Append(lists, members) \in Seq(SUBSET Members)
  OBVIOUS
<1>2. lists # <<>> => <<members>> \o Tail(lists) \in Seq(SUBSET Members)
  <2>1. <<members>> \in Seq(SUBSET Members)
    OBVIOUS
  <2> QED
    BY <2>1
<1> QED
  BY <1>1, <1>2 DEF PutList

(* What a put leaves of an element, and that it is an element.             *)
LEMMA PutShape ==
    ASSUME NEW el \in Element, NEW entry \in Entry
    PROVE  /\ Put(el, entry) = [values |-> NewValues(el, entry), lists |-> NewLists(el, entry)]
           /\ Put(el, entry) \in Element
<1>1. Put(el, entry) = [values |-> NewValues(el, entry), lists |-> NewLists(el, entry)]
  BY DEF Put, NewValues, NewLists
<1>2. /\ el.values \in SUBSET Values /\ el.lists \in [Fields -> Seq(SUBSET Members)]
      /\ entry.value \in Values \cup {Nil} /\ entry.fields \in [Fields -> SUBSET Members]
  BY DEF Element, Entry
<1>3. NewValues(el, entry) \in SUBSET Values
  BY <1>2 DEF NewValues
<1>4. ASSUME NEW f \in Fields
      PROVE  NewLists(el, entry)[f] \in Seq(SUBSET Members)
  <2>1. el.lists[f] \in Seq(SUBSET Members) /\ entry.fields[f] \in SUBSET Members
    BY <1>2
  <2>2. PutList(el.lists[f], entry.fields[f]) \in Seq(SUBSET Members)
    BY <2>1, PutListType
  <2>3. <<entry.fields[f]>> \in Seq(SUBSET Members)
    BY <2>1
  <2> QED
    BY <2>1, <2>2, <2>3 DEF NewLists
<1>5. NewLists(el, entry) \in [Fields -> Seq(SUBSET Members)]
  BY <1>4 DEF NewLists
<1> QED
  BY <1>1, <1>3, <1>5 DEF Element

(* A new element is empty.                                                 *)
LEMMA BlankElement ==
    /\ Blank \in Element /\ Blank.values = {} /\ \A f \in Fields : Blank.lists[f] = <<>>
BY DEF Blank, Element

(* An upsert goes to the container its object is in, if it is there.       *)
PutsFit(c, upserts) ==
    \A i \in DOMAIN upserts :
        /\ i \in Ids /\ upserts[i] \in Entry /\ SpaceOf(upserts[i].kind) = i.space
        /\ i \in DOMAIN c => Container(c[i].kind) = Container(upserts[i].kind)

(* What is written over.                                                   *)
Old(doc, e) == IF e \in DOMAIN doc THEN doc[e] ELSE Blank

(* An entry of the document is the element of its identity, by the kind    *)
(* that is read.                                                           *)
LEMMA ReadElement ==
    ASSUME NEW doc, IsDocument(doc)
    PROVE  /\ \A e \in DOMAIN doc : /\ IdOf(e) \in DOMAIN Parse(doc)
                                    /\ Container(Parse(doc)[IdOf(e)].kind) = e.tag
                                    /\ ElementOf(Parse(doc)[IdOf(e)].kind, IdOf(e)) = e
           /\ \A i \in DOMAIN Parse(doc) : /\ ElementOf(Parse(doc)[i].kind, i) \in DOMAIN doc
                                           /\ IdOf(ElementOf(Parse(doc)[i].kind, i)) = i
<1>1. ASSUME NEW e \in DOMAIN doc
      PROVE  /\ IdOf(e) \in DOMAIN Parse(doc)
             /\ Container(Parse(doc)[IdOf(e)].kind) = e.tag
             /\ ElementOf(Parse(doc)[IdOf(e)].kind, IdOf(e)) = e
  <2>1. IdOf(e) \in DOMAIN Parse(doc) /\ Parse(doc)[IdOf(e)].kind = KindOf(e, doc[e])
    BY ParseShape
  <2>2. e \in Entries
    BY DocumentEntry
  <2> QED
    BY <2>1, <2>2, KindFacts, IdFacts
<1>2. ASSUME NEW i \in DOMAIN Parse(doc)
      PROVE  /\ ElementOf(Parse(doc)[i].kind, i) \in DOMAIN doc
             /\ IdOf(ElementOf(Parse(doc)[i].kind, i)) = i
  <2>1. PICK e \in DOMAIN doc : i = IdOf(e)
    BY ParseShape
  <2> QED
    BY <1>1, <2>1
<1> QED
  BY <1>1, <1>2

(* Where an upsert goes, and what is there then.                           *)
LEMMA UpsertedDocAt ==
    ASSUME NEW doc, IsDocument(doc), NEW upserts, PutsFit(Parse(doc), upserts), NEW i \in DOMAIN upserts,
           NEW e, e = ElementOf(upserts[i].kind, i)
    PROVE  /\ e \in Entries /\ IdOf(e) = i
           /\ UpsertedDoc(doc, upserts)[e] = Put(Old(doc, e), upserts[i])
<1> DEFINE at(j) == ElementOf(upserts[j].kind, j)
           puts(x) == {j \in DOMAIN upserts : at(j) = x}
           ats == {at(j) : j \in DOMAIN upserts}
<1>1. UpsertedDoc(doc, upserts)
        = [x \in DOMAIN doc \cup ats |->
              IF puts(x) = {} THEN doc[x] ELSE Put(Old(doc, x), upserts[CHOOSE j \in puts(x) : TRUE])]
  BY DEF UpsertedDoc, Old
<1>2. \A j \in DOMAIN upserts : j \in Ids /\ upserts[j].kind \in Kinds /\ SpaceOf(upserts[j].kind) = j.space
  BY DEF PutsFit, Entry
<1>3. \A j \in DOMAIN upserts : at(j) \in Entries /\ IdOf(at(j)) = j
  BY <1>2, IdFacts
<1>4. e = at(i)
  OBVIOUS
<1> HIDE DEF at
<1>5. puts(e) = {i} /\ e \in ats
  BY <1>3, <1>4
<1>6. (CHOOSE j \in puts(e) : TRUE) = i
  BY <1>5
<1> HIDE DEF puts, ats
<1> QED
  BY <1>1, <1>3, <1>4, <1>5, <1>6

(* Upserts that fit leave a document, with the put elements added.         *)
LEMMA UpsertedDocShape ==
    ASSUME NEW doc, IsDocument(doc), NEW upserts, PutsFit(Parse(doc), upserts)
    PROVE  /\ IsDocument(UpsertedDoc(doc, upserts))
           /\ DOMAIN UpsertedDoc(doc, upserts)
                = DOMAIN doc \cup {ElementOf(upserts[i].kind, i) : i \in DOMAIN upserts}
           /\ \A e \in DOMAIN doc :
                IdOf(e) \notin DOMAIN upserts => UpsertedDoc(doc, upserts)[e] = doc[e]
<1> DEFINE at(i) == ElementOf(upserts[i].kind, i)
           new == UpsertedDoc(doc, upserts)
           puts(e) == {i \in DOMAIN upserts : at(i) = e}
           ats == {at(i) : i \in DOMAIN upserts}
<1>1. new = [e \in DOMAIN doc \cup ats |->
                IF puts(e) = {} THEN doc[e] ELSE Put(Old(doc, e), upserts[CHOOSE i \in puts(e) : TRUE])]
  BY DEF UpsertedDoc, Old
<1>2. ASSUME NEW i \in DOMAIN upserts
      PROVE  /\ at(i) \in Entries /\ IdOf(at(i)) = i /\ puts(at(i)) = {i}
             /\ upserts[i] \in Entry
  <2>1. \A j \in DOMAIN upserts : j \in Ids /\ upserts[j] \in Entry /\ upserts[j].kind \in Kinds
                                  /\ SpaceOf(upserts[j].kind) = j.space
    BY DEF PutsFit, Entry
  <2>2. \A j \in DOMAIN upserts : at(j) \in Entries /\ IdOf(at(j)) = j
    BY <2>1, IdFacts
  <2> HIDE DEF at
  <2> QED
    BY <2>1, <2>2
<1>3. ASSUME NEW e \in DOMAIN doc, NEW i \in DOMAIN upserts, IdOf(e) = i PROVE at(i) = e
  <2>1. e \in Entries /\ i \in DOMAIN Parse(doc) /\ Container(Parse(doc)[i].kind) = e.tag
    BY <1>3, DocumentEntry, ReadElement
  <2>2. Container(upserts[i].kind) = e.tag
    BY <2>1 DEF PutsFit
  <2> QED
    BY <1>3, <2>1, <2>2, IdFacts
<1> HIDE DEF at, ats
<1>4. ASSUME NEW e \in DOMAIN doc, IdOf(e) \notin DOMAIN upserts PROVE puts(e) = {}
  BY <1>2, <1>4
<1> HIDE DEF puts
<1>5. ASSUME NEW i \in DOMAIN upserts PROVE new[at(i)] = Put(Old(doc, at(i)), upserts[i])
  <2>1. puts(at(i)) = {i} /\ at(i) \in DOMAIN doc \cup ats
    BY <1>2 DEF ats
  <2>2. (CHOOSE j \in puts(at(i)) : TRUE) = i /\ puts(at(i)) # {}
    BY <2>1
  <2> QED
    BY <1>1, <2>1, <2>2
<1>6. \A e \in DOMAIN doc : IdOf(e) \notin DOMAIN upserts => new[e] = doc[e]
  BY <1>1, <1>4
<1>7. DOMAIN new = DOMAIN doc \cup ats /\ new = [e \in DOMAIN new |-> new[e]]
  BY <1>1
<1> HIDE DEF new
<1>8. ASSUME NEW e \in DOMAIN new PROVE e \in Entries /\ new[e] \in Element
  <2>1. CASE e \in DOMAIN doc /\ IdOf(e) \notin DOMAIN upserts
    BY <2>1, <1>6, DocumentEntry
  <2>2. CASE \E i \in DOMAIN upserts : e = at(i)
    <3>1. PICK i \in DOMAIN upserts : e = at(i)
      BY <2>2
    <3>2. Old(doc, e) \in Element
      BY DocumentEntry, BlankElement DEF Old
    <3>3. Put(Old(doc, e), upserts[i]) \in Element
      BY <1>2, <3>2, PutShape
    <3> QED
      BY <1>2, <1>5, <3>1, <3>3
  <2> QED
    BY <1>3, <1>7, <2>1, <2>2 DEF ats
<1>9. ASSUME NEW e \in DOMAIN new, NEW f \in DOMAIN new, IdOf(e) = IdOf(f) PROVE e = f
  <2>1. \A x \in DOMAIN new : x \in DOMAIN doc \/ \E i \in DOMAIN upserts : x = at(i)
    BY <1>7 DEF ats
  <2> QED
    BY <1>2, <1>3, <1>9, <2>1 DEF IsDocument
<1>10. IsDocument(new)
  BY <1>7, <1>8, <1>9 DEF IsDocument, Entries
<1> QED
  BY <1>6, <1>7, <1>10 DEF at, ats, new

(* No upsert: nothing is written.                                          *)
LEMMA UpsertedDocNone ==
    ASSUME NEW doc, IsDocument(doc), NEW upserts, DOMAIN upserts = {}
    PROVE  UpsertedDoc(doc, upserts) = doc
<1>1. UpsertedDoc(doc, upserts) = [e \in DOMAIN doc |-> doc[e]]
  BY DEF UpsertedDoc
<1> QED
  BY <1>1 DEF IsDocument

(* The list an edit leaves.                                                *)
EditedLists(doc, edits, e, f) ==
    LET by == Writers(Parse(doc), edits, IdOf(e), f)
        lists == doc[e].lists[f]
    IN  IF by = {} THEN lists
        ELSE <<edits[CHOOSE k \in by : TRUE]>> \o (IF lists = <<>> THEN <<>> ELSE Tail(lists))

(* Edits leave a document with the same elements and values.               *)
LEMMA EditedDocShape ==
    ASSUME NEW doc, IsDocument(doc), NEW edits,
           \A k \in DOMAIN edits : edits[k] \in SUBSET Members
    PROVE  /\ IsDocument(EditedDoc(doc, edits))
           /\ DOMAIN EditedDoc(doc, edits) = DOMAIN doc
           /\ \A e \in DOMAIN doc :
                /\ EditedDoc(doc, edits)[e].values = doc[e].values
                /\ \A f \in Fields : EditedDoc(doc, edits)[e].lists[f] = EditedLists(doc, edits, e, f)
                /\ (\A f \in Fields : Writers(Parse(doc), edits, IdOf(e), f) = {})
                      => EditedDoc(doc, edits)[e] = doc[e]
<1> DEFINE new == EditedDoc(doc, edits)
           lists(e) == [f \in Fields |-> EditedLists(doc, edits, e, f)]
           el(e) == [doc[e] EXCEPT !.lists = lists(e)]
<1>1. new = [e \in DOMAIN doc |-> el(e)]
  <2>1. new = [e \in DOMAIN doc |->
            [doc[e] EXCEPT !.lists = [f \in Fields |->
                IF Writers(Parse(doc), edits, IdOf(e), f) = {} THEN doc[e].lists[f]
                ELSE <<edits[CHOOSE k \in Writers(Parse(doc), edits, IdOf(e), f) : TRUE]>>
                     \o (IF doc[e].lists[f] = <<>> THEN <<>> ELSE Tail(doc[e].lists[f]))]]]
    BY DEF EditedDoc
  <2> QED
    BY <2>1 DEF EditedLists
<1>2. ASSUME NEW e \in DOMAIN doc
      PROVE  /\ lists(e) \in [Fields -> Seq(SUBSET Members)]
             /\ (\A f \in Fields : Writers(Parse(doc), edits, IdOf(e), f) = {}) => lists(e) = doc[e].lists
  <2>1. ASSUME NEW f \in Fields PROVE EditedLists(doc, edits, e, f) \in Seq(SUBSET Members)
    <3> DEFINE by == Writers(Parse(doc), edits, IdOf(e), f)
               k == CHOOSE x \in by : TRUE
               rest == IF doc[e].lists[f] = <<>> THEN <<>> ELSE Tail(doc[e].lists[f])
    <3>1. doc[e].lists[f] \in Seq(SUBSET Members)
      BY DocumentEntry
    <3>2. rest \in Seq(SUBSET Members)
      BY <3>1
    <3>3. by # {} => edits[k] \in SUBSET Members
      BY DEF Writers
    <3> HIDE DEF k, rest
    <3>4. by # {} => <<edits[k]>> \o rest \in Seq(SUBSET Members)
      <4>1. by # {} => <<edits[k]>> \in Seq(SUBSET Members)
        BY <3>3
      <4> QED
        BY <3>2, <4>1
    <3>5. EditedLists(doc, edits, e, f) = IF by = {} THEN doc[e].lists[f] ELSE <<edits[k]>> \o rest
      BY DEF EditedLists, k, rest
    <3> HIDE DEF by
    <3> QED
      BY <3>1, <3>4, <3>5
  <2>2. ASSUME \A f \in Fields : Writers(Parse(doc), edits, IdOf(e), f) = {}
        PROVE  lists(e) = doc[e].lists
    <3>1. doc[e].lists \in [Fields -> Seq(SUBSET Members)]
      BY DocumentEntry
    <3>2. \A f \in Fields : EditedLists(doc, edits, e, f) = doc[e].lists[f]
      BY <2>2 DEF EditedLists
    <3>3. \A f \in Fields : lists(e)[f] = doc[e].lists[f]
      BY <3>2
    <3> QED
      BY <3>1, <3>3
  <2> QED
    BY <2>1, <2>2
<1>3. \A e \in DOMAIN doc, f \in Fields : lists(e)[f] = EditedLists(doc, edits, e, f)
  OBVIOUS
<1> HIDE DEF lists
<1>4. ASSUME NEW e \in DOMAIN doc
      PROVE  /\ el(e) \in Element /\ el(e).values = doc[e].values /\ el(e).lists = lists(e)
             /\ (\A f \in Fields : Writers(Parse(doc), edits, IdOf(e), f) = {}) => el(e) = doc[e]
  <2>1. doc[e] \in Element
    BY DocumentEntry
  <2> QED
    BY <1>2, <2>1 DEF Element
<1> HIDE DEF el
<1>5. DOMAIN new = DOMAIN doc /\ new = [e \in DOMAIN new |-> new[e]]
      /\ \A e \in DOMAIN doc : new[e] = el(e)
  BY <1>1
<1> HIDE DEF new
<1>6. IsDocument(new)
  BY <1>4, <1>5 DEF IsDocument
<1> QED
  BY <1>3, <1>4, <1>5, <1>6 DEF new

(* A delete leaves a document, the others untouched.                       *)
LEMMA WithoutDocShape ==
    ASSUME NEW doc, IsDocument(doc), NEW gone
    PROVE  /\ IsDocument(WithoutDoc(doc, gone))
           /\ DOMAIN WithoutDoc(doc, gone) = {e \in DOMAIN doc : IdOf(e) \notin gone}
           /\ \A e \in DOMAIN WithoutDoc(doc, gone) : WithoutDoc(doc, gone)[e] = doc[e]
<1>1. /\ DOMAIN WithoutDoc(doc, gone) = {e \in DOMAIN doc : IdOf(e) \notin gone}
      /\ \A e \in DOMAIN WithoutDoc(doc, gone) : WithoutDoc(doc, gone)[e] = doc[e]
      /\ WithoutDoc(doc, gone) = [e \in DOMAIN WithoutDoc(doc, gone) |-> WithoutDoc(doc, gone)[e]]
  BY DEF WithoutDoc
<1>2. DOMAIN WithoutDoc(doc, gone) \subseteq DOMAIN doc
  BY <1>1
<1> QED
  BY <1>1, <1>2 DEF IsDocument

-----------------------------------------------------------------------------
(* A rename, and the four steps of a change.                               *)

(* Without a rename the document is untouched.                             *)
LEMMA RenamedDocNone ==
    ASSUME NEW doc, IsDocument(doc), NEW renames, DOMAIN renames = {}
    PROVE  RenamedDoc(doc, renames) = doc
<1>1. RenamedDoc(doc, renames)
        = [x \in {e : e \in DOMAIN doc} |-> doc[CHOOSE e \in DOMAIN doc : e = x]]
  BY DEF RenamedDoc
<1>2. \A x \in DOMAIN doc : (CHOOSE e \in DOMAIN doc : e = x) = x
  OBVIOUS
<1>3. {e : e \in DOMAIN doc} = DOMAIN doc
  OBVIOUS
<1> QED
  BY <1>1, <1>2, <1>3 DEF IsDocument

(* One object takes a name that is free where it is.                       *)
FreshRename(ids, renames) ==
    \E id \in ids :
        /\ DOMAIN renames = {id} /\ renames[id] \in Names
        /\ Slot(id.space, renames[id], id.loc) \notin ids

(* A rename to a free name leaves a document: one element has moved.       *)
LEMMA RenamedDocShape ==
    ASSUME NEW doc, IsDocument(doc), NEW renames, NEW from \in DOMAIN doc, NEW to,
           DOMAIN renames = {IdOf(from)}, renames[IdOf(from)] \in Names,
           to = [from EXCEPT !.name = renames[IdOf(from)]],
           Slot(IdOf(from).space, renames[IdOf(from)], IdOf(from).loc) \notin {IdOf(e) : e \in DOMAIN doc}
    PROVE  /\ IsDocument(RenamedDoc(doc, renames))
           /\ to \in Entries /\ to \notin DOMAIN doc
           /\ IdOf(to) = Slot(IdOf(from).space, renames[IdOf(from)], IdOf(from).loc)
           /\ DOMAIN RenamedDoc(doc, renames) = (DOMAIN doc \ {from}) \cup {to}
           /\ RenamedDoc(doc, renames)[to] = doc[from]
           /\ \A e \in DOMAIN doc \ {from} : RenamedDoc(doc, renames)[e] = doc[e]
<1> DEFINE new == renames[IdOf(from)]
           moved(e) == IF IdOf(e) \in DOMAIN renames THEN [e EXCEPT !.name = renames[IdOf(e)]] ELSE e
           back(x) == CHOOSE e \in DOMAIN doc : moved(e) = x
           dom == {moved(e) : e \in DOMAIN doc}
           d == RenamedDoc(doc, renames)
<1>1. d = [x \in dom |-> doc[back(x)]]
  BY DEF RenamedDoc
<1>2. /\ to = [tag |-> from.tag, name |-> new, loc |-> from.loc]
      /\ to \in Entries /\ IdOf(to) = Slot(IdOf(from).space, new, IdOf(from).loc)
  <2>1. from \in Entries /\ IdOf(from).space = SpaceOf(from.tag) /\ IdOf(from).loc = from.loc
        /\ from = [tag |-> from.tag, name |-> from.name, loc |-> from.loc]
    BY DocumentEntry, IdFacts
  <2>2. to = [tag |-> from.tag, name |-> new, loc |-> from.loc]
    BY <2>1
  <2> QED
    BY <2>1, <2>2 DEF Entries, IdOf
<1>3. moved(from) = to /\ \A e \in DOMAIN doc \ {from} : moved(e) = e
  BY DEF IsDocument
<1>4. to \notin DOMAIN doc
  BY <1>2
<1> HIDE DEF moved
<1>5. back(to) = from /\ \A e \in DOMAIN doc \ {from} : back(e) = e
  <2>1. back(to) = from
    <3>1. \E e \in DOMAIN doc : moved(e) = to
      BY <1>3
    <3>2. back(to) \in DOMAIN doc /\ moved(back(to)) = to
      BY <3>1
    <3> QED
      BY <1>3, <1>4, <3>2
  <2>2. ASSUME NEW e \in DOMAIN doc \ {from} PROVE back(e) = e
    <3>1. \E x \in DOMAIN doc : moved(x) = e
      BY <1>3
    <3>2. back(e) \in DOMAIN doc /\ moved(back(e)) = e
      BY <3>1
    <3> QED
      BY <1>3, <1>4, <3>2
  <2> QED
    BY <2>1, <2>2
<1>6. dom = (DOMAIN doc \ {from}) \cup {to}
  BY <1>3
<1> HIDE DEF dom, back
<1>7. /\ DOMAIN d = (DOMAIN doc \ {from}) \cup {to} /\ d = [x \in DOMAIN d |-> d[x]]
      /\ d[to] = doc[from] /\ \A e \in DOMAIN doc \ {from} : d[e] = doc[e]
  BY <1>1, <1>5, <1>6
<1> HIDE DEF d
<1>8. \A x \in DOMAIN d : x \in Entries /\ d[x] \in Element
  BY <1>2, <1>7, DocumentEntry
<1>9. ASSUME NEW x \in DOMAIN d, NEW y \in DOMAIN d, IdOf(x) = IdOf(y) PROVE x = y
  BY <1>2, <1>7, <1>9 DEF IsDocument
<1>10. IsDocument(d)
  BY <1>7, <1>8, <1>9 DEF IsDocument, Entries
<1> QED
  BY <1>2, <1>4, <1>7, <1>10 DEF d

-----------------------------------------------------------------------------
(* The plans of the commands: their upserts fit, and what they edit,       *)
(* delete and rename is there.                                             *)
Fits(c, plan) ==
    /\ IsPlan(plan)
    /\ PutsFit(c, plan.upserts)
    /\ \A k \in DOMAIN plan.edits : k[1] \in DOMAIN c
    /\ plan.ruleDeletes \subseteq DOMAIN c /\ plan.deletes \subseteq DOMAIN c
    /\ \/ DOMAIN plan.renames = {}
       \/ /\ DOMAIN plan.upserts = {} /\ plan.ruleDeletes = {} /\ plan.deletes = {}
          /\ FreshRename(DOMAIN c, plan.renames)

(* The steps of the executor on a document.                                *)
Stages(doc, plan, d1, d2, d3, d4) ==
    /\ d1 = UpsertedDoc(doc, plan.upserts)
    /\ d2 = EditedDoc(d1, plan.edits)
    /\ d3 = WithoutDoc(d2, plan.ruleDeletes)
    /\ d4 = RenamedDoc(d3, plan.renames)

(* A plan that fits leaves a document, at each of its steps.               *)
LEMMA StagesShape ==
    ASSUME NEW doc, IsDocument(doc), NEW plan, Fits(Parse(doc), plan),
           NEW d1, NEW d2, NEW d3, NEW d4, Stages(doc, plan, d1, d2, d3, d4)
    PROVE  /\ IsDocument(d1) /\ IsDocument(d2) /\ IsDocument(d3) /\ IsDocument(d4)
           /\ DOMAIN doc \subseteq DOMAIN d1 /\ DOMAIN d2 = DOMAIN d1
           /\ ApplyDoc(doc, plan) = WithoutDoc(d4, plan.deletes)
           /\ IsDocument(ApplyDoc(doc, plan))
           /\ DOMAIN plan.renames = {} => d4 = d3
           /\ DOMAIN plan.renames # {} =>
                /\ d1 = doc /\ d3 = d2 /\ DOMAIN d3 = DOMAIN doc /\ ApplyDoc(doc, plan) = d4
                /\ DOMAIN plan.upserts = {} /\ plan.ruleDeletes = {} /\ plan.deletes = {}
                /\ \E from \in DOMAIN doc :
                    /\ DOMAIN plan.renames = {IdOf(from)} /\ plan.renames[IdOf(from)] \in Names
                    /\ Slot(IdOf(from).space, plan.renames[IdOf(from)], IdOf(from).loc)
                          \notin {IdOf(e) : e \in DOMAIN d3}
<1>0. DOMAIN Parse(doc) = {IdOf(e) : e \in DOMAIN doc}
  BY ParseShape
<1>1. IsDocument(d1) /\ DOMAIN doc \subseteq DOMAIN d1
  <2>1. d1 = UpsertedDoc(doc, plan.upserts) /\ PutsFit(Parse(doc), plan.upserts)
    BY DEF Fits, Stages
  <2>2. /\ IsDocument(UpsertedDoc(doc, plan.upserts))
        /\ DOMAIN UpsertedDoc(doc, plan.upserts)
             = DOMAIN doc \cup {ElementOf(plan.upserts[i].kind, i) : i \in DOMAIN plan.upserts}
    BY <2>1, UpsertedDocShape
  <2> QED
    BY <2>1, <2>2
<1>2. IsDocument(d2) /\ DOMAIN d2 = DOMAIN d1
  BY <1>1, EditedDocShape DEF Fits, IsPlan, Stages
<1>3. IsDocument(d3)
  BY <1>2, WithoutDocShape DEF Stages
<1>4. ApplyDoc(doc, plan) = WithoutDoc(d4, plan.deletes)
  BY DEF ApplyDoc, Stages
<1>5. CASE DOMAIN plan.renames = {}
  <2>1. d4 = d3
    BY <1>3, <1>5, RenamedDocNone DEF Stages
  <2>2. IsDocument(ApplyDoc(doc, plan))
    <3>1. IsDocument(d4)
      BY <1>3, <2>1
    <3>2. IsDocument(WithoutDoc(d4, plan.deletes))
      BY <3>1, WithoutDocShape
    <3> QED
      BY <1>4, <3>2
  <2> QED
    BY <1>1, <1>2, <1>3, <1>4, <1>5, <2>1, <2>2
<1>6. CASE DOMAIN plan.renames # {}
  <2>1. /\ DOMAIN plan.upserts = {} /\ plan.ruleDeletes = {} /\ plan.deletes = {}
        /\ FreshRename(DOMAIN Parse(doc), plan.renames)
    BY <1>6 DEF Fits
  <2>2. d1 = doc
    BY <2>1, UpsertedDocNone DEF Stages
  <2>3. d3 = d2 /\ DOMAIN d3 = DOMAIN doc
    <3>1. d3 = [e \in DOMAIN d2 |-> d2[e]]
      BY <2>1 DEF Stages, WithoutDoc
    <3> QED
      BY <1>2, <2>2, <3>1 DEF IsDocument
  <2>4. PICK id \in DOMAIN Parse(doc) :
            /\ DOMAIN plan.renames = {id} /\ plan.renames[id] \in Names
            /\ Slot(id.space, plan.renames[id], id.loc) \notin DOMAIN Parse(doc)
    BY <2>1 DEF FreshRename
  <2>5. PICK from \in DOMAIN doc : id = IdOf(from)
    BY <1>0, <2>4
  <2>6. Slot(id.space, plan.renames[id], id.loc) \notin {IdOf(e) : e \in DOMAIN d3}
    BY <1>0, <2>3, <2>4
  <2>7. IsDocument(d4)
    <3> DEFINE to == [from EXCEPT !.name = plan.renames[IdOf(from)]]
    <3>1. to = [from EXCEPT !.name = plan.renames[IdOf(from)]]
      OBVIOUS
    <3> HIDE DEF to
    <3>2. d4 = RenamedDoc(d3, plan.renames) /\ from \in DOMAIN d3
      BY <2>3 DEF Stages
    <3>3. /\ DOMAIN plan.renames = {IdOf(from)} /\ plan.renames[IdOf(from)] \in Names
          /\ Slot(IdOf(from).space, plan.renames[IdOf(from)], IdOf(from).loc)
               \notin {IdOf(e) : e \in DOMAIN d3}
      BY <2>4, <2>5, <2>6
    <3>4. IsDocument(RenamedDoc(d3, plan.renames))
      BY <1>3, <3>1, <3>2, <3>3, RenamedDocShape
    <3> QED
      BY <3>2, <3>4
  <2>8. ApplyDoc(doc, plan) = d4
    <3>1. WithoutDoc(d4, {}) = [e \in DOMAIN d4 |-> d4[e]]
      BY DEF WithoutDoc
    <3> QED
      BY <1>4, <2>1, <2>7, <3>1 DEF IsDocument
  <2> QED
    BY <1>1, <1>2, <1>3, <1>4, <1>6, <2>1, <2>2, <2>3, <2>4, <2>5, <2>6, <2>7, <2>8
<1> QED
  BY <1>5, <1>6

-----------------------------------------------------------------------------
(* The partial document.                                                   *)

(* What the batch presents is in the document, what it removed is not, and *)
(* the rest is as it was read.                                             *)
Tracks(s, p, d) ==
    /\ p.present \subseteq DOMAIN d
    /\ p.removed \cap DOMAIN d = {}
    /\ \A e \in (DOMAIN s \cup DOMAIN d) \ (p.present \cup p.removed) :
          e \in DOMAIN s /\ e \in DOMAIN d /\ s[e] = d[e]

(* Nothing recorded tracks nothing changed.                                *)
LEMMA TracksNothing ==
    ASSUME NEW d PROVE Tracks(d, NothingTouched, d)
BY DEF Tracks, NothingTouched

(* What is presented may differ or be new.                                 *)
LEMMA TracksPresented ==
    ASSUME NEW s, NEW p, NEW d, Tracks(s, p, d), NEW es, NEW new,
           DOMAIN new = DOMAIN d \cup es, \A e \in DOMAIN d \ es : new[e] = d[e]
    PROVE  Tracks(s, Presented(p, es), new)
BY DEF Tracks, Presented

(* What is removed may be gone.                                            *)
LEMMA TracksRemoved ==
    ASSUME NEW s, NEW p, NEW d, Tracks(s, p, d), NEW es, NEW new,
           DOMAIN new = DOMAIN d \ es, \A e \in DOMAIN new : new[e] = d[e]
    PROVE  Tracks(s, Removed(p, es), new)
BY DEF Tracks, Removed

(* What tracks the document brings the source to it.                       *)
LEMMA TracksLoaded ==
    ASSUME NEW s, NEW p, NEW d, Tracks(s, p, d), d = [e \in DOMAIN d |-> d[e]]
    PROVE  Loaded(s, p, d) = d
<1> DEFINE brought == p.present \cap DOMAIN d
           dom == (DOMAIN s \cup brought) \ p.removed
<1>1. Loaded(s, p, d) = [e \in dom |-> IF e \in brought THEN d[e] ELSE s[e]]
  BY DEF Loaded
<1>2. dom = DOMAIN d
  BY DEF Tracks
<1>3. \A e \in dom : (IF e \in brought THEN d[e] ELSE s[e]) = d[e]
  BY DEF Tracks
<1> HIDE DEF dom, brought
<1> QED
  BY <1>1, <1>2, <1>3

(* The kind an entry is recorded under.                                    *)
Recording(c, plan, i) == IF i \in DOMAIN plan.upserts THEN plan.upserts[i].kind ELSE c[i].kind

(* What the upserts and edits present.                                     *)
Written(c, plan) ==
    LET referrers == {k[1] : k \in {x \in DOMAIN plan.edits : c[x[1]].kind \in GroupKinds \cup RuleSpaces}}
    IN  {ElementOf(Recording(c, plan, i), i) : i \in DOMAIN plan.upserts \cup referrers}

(* Only groups and rules have lists an edit writes.                        *)
LEMMA WrittenKinds ==
    ASSUME NEW c, NEW edits, NEW i, NEW f, NEW k \in Writers(c, edits, i, f)
    PROVE  c[i].kind \in GroupKinds \cup RuleSpaces /\ k \in DOMAIN edits /\ k[1] = i
BY DEF Writers, Mappable, GroupKinds, RuleSpaces

(* An entry of the written document is recorded where it is.               *)
LEMMA RecordedAt ==
    ASSUME NEW doc, IsDocument(doc), NEW plan, Fits(Parse(doc), plan)
    PROVE  LET at(i) == ElementOf(Recording(Parse(doc), plan, i), i) IN
           /\ \A e \in DOMAIN doc : at(IdOf(e)) = e
           /\ \A i \in DOMAIN Parse(doc) : at(i) \in DOMAIN doc /\ IdOf(at(i)) = i
           /\ \A i \in DOMAIN plan.upserts : at(i) = ElementOf(plan.upserts[i].kind, i) /\ IdOf(at(i)) = i
<1> DEFINE c == Parse(doc)
           at(i) == ElementOf(Recording(c, plan, i), i)
<1>1. ASSUME NEW i \in DOMAIN plan.upserts
      PROVE  /\ at(i) = ElementOf(plan.upserts[i].kind, i) /\ IdOf(at(i)) = i
             /\ Container(Recording(c, plan, i)) = Container(plan.upserts[i].kind)
             /\ i \in DOMAIN c => Container(c[i].kind) = Container(plan.upserts[i].kind)
  <2>1. /\ i \in Ids /\ plan.upserts[i].kind \in Kinds /\ SpaceOf(plan.upserts[i].kind) = i.space
        /\ i \in DOMAIN c => Container(c[i].kind) = Container(plan.upserts[i].kind)
    BY DEF Fits, PutsFit, Entry
  <2>2. Recording(c, plan, i) = plan.upserts[i].kind
    BY DEF Recording
  <2>3. IdOf(ElementOf(plan.upserts[i].kind, i)) = i
    BY <2>1, IdFacts
  <2> QED
    BY <2>1, <2>2, <2>3
<1>2. ASSUME NEW e \in DOMAIN doc PROVE at(IdOf(e)) = e
  <2>1. e \in Entries /\ IdOf(e) \in DOMAIN c /\ Container(c[IdOf(e)].kind) = e.tag
    BY DocumentEntry, ReadElement
  <2>2. Container(Recording(c, plan, IdOf(e))) = e.tag
    BY <1>1, <2>1 DEF Recording
  <2> QED
    BY <2>1, <2>2, IdFacts
<1>3. ASSUME NEW i \in DOMAIN c PROVE at(i) \in DOMAIN doc /\ IdOf(at(i)) = i
  <2>1. PICK e \in DOMAIN doc : i = IdOf(e)
    BY ParseShape
  <2> QED
    BY <1>2, <2>1
<1> QED
  BY <1>1, <1>2, <1>3

(* The upserts and edits: what is written is presented.                    *)
LEMMA WrittenTracks ==
    ASSUME NEW doc, IsDocument(doc), NEW plan, Fits(Parse(doc), plan),
           NEW d1, NEW d2, d1 = UpsertedDoc(doc, plan.upserts), d2 = EditedDoc(d1, plan.edits),
           NEW es, es = Written(Parse(doc), plan)
    PROVE  /\ DOMAIN d2 = DOMAIN doc \cup es
           /\ \A e \in DOMAIN doc \ es : d2[e] = doc[e]
<1> DEFINE c == Parse(doc)
           at(i) == ElementOf(Recording(c, plan, i), i)
           up == DOMAIN plan.upserts
           referrers == {k[1] : k \in {x \in DOMAIN plan.edits : c[x[1]].kind \in GroupKinds \cup RuleSpaces}}
<1>1. /\ \A e \in DOMAIN doc : at(IdOf(e)) = e
      /\ \A i \in DOMAIN c : at(i) \in DOMAIN doc /\ IdOf(at(i)) = i
      /\ \A i \in up : at(i) = ElementOf(plan.upserts[i].kind, i) /\ IdOf(at(i)) = i
  BY RecordedAt
<1>2. referrers \subseteq DOMAIN c
  BY DEF Fits
<1>3. /\ IsDocument(d1)
      /\ DOMAIN d1 = DOMAIN doc \cup {ElementOf(plan.upserts[i].kind, i) : i \in up}
      /\ \A e \in DOMAIN doc : IdOf(e) \notin up => d1[e] = doc[e]
  <2>1. PutsFit(c, plan.upserts)
    BY DEF Fits
  <2> QED
    BY <2>1, UpsertedDocShape
<1>4. /\ DOMAIN d2 = DOMAIN d1
      /\ \A e \in DOMAIN d1 :
            (\A f \in Fields : Writers(Parse(d1), plan.edits, IdOf(e), f) = {}) => d2[e] = d1[e]
  BY <1>3, EditedDocShape DEF Fits, IsPlan
<1>5. es = {at(i) : i \in up \cup referrers}
  BY DEF Written
<1> HIDE DEF at, referrers
<1>6. DOMAIN d2 = DOMAIN doc \cup es
  <2>1. {ElementOf(plan.upserts[i].kind, i) : i \in up} = {at(i) : i \in up}
    BY <1>1
  <2>2. {at(i) : i \in referrers} \subseteq DOMAIN doc
    BY <1>1, <1>2
  <2>3. es = {at(i) : i \in up} \cup {at(i) : i \in referrers}
    BY <1>5
  <2> QED
    BY <1>3, <1>4, <2>1, <2>2, <2>3
<1>7. ASSUME NEW e \in DOMAIN doc \ es PROVE d2[e] = doc[e]
  <2>1. IdOf(e) \notin up /\ IdOf(e) \notin referrers
    BY <1>1, <1>5
  <2>2. d1[e] = doc[e] /\ e \in DOMAIN d1
    BY <1>3, <2>1
  <2>3. Parse(d1)[IdOf(e)].kind = c[IdOf(e)].kind
    <3>1. Parse(d1)[IdOf(e)].kind = KindOf(e, d1[e])
      BY <1>3, <2>2, ParseShape
    <3>2. c[IdOf(e)].kind = KindOf(e, doc[e])
      BY ParseShape
    <3> QED
      BY <2>2, <3>1, <3>2
  <2>4. ASSUME NEW f \in Fields, NEW k \in Writers(Parse(d1), plan.edits, IdOf(e), f)
        PROVE  FALSE
    BY <2>1, <2>3, <2>4, WrittenKinds DEF referrers
  <2> QED
    BY <1>4, <2>2, <2>4
<1> QED
  BY <1>6, <1>7

(* One change: what the partial document records tracks what is written.   *)
LEMMA ChangeTracks ==
    ASSUME NEW s, NEW p, NEW doc, IsDocument(doc), NEW plan, Fits(Parse(doc), plan), Tracks(s, p, doc)
    PROVE  Tracks(s, Recorded(p, Parse(doc), plan), ApplyDoc(doc, plan))
<1> DEFINE c == Parse(doc)
           at(i) == ElementOf(Recording(c, plan, i), i)
           d1 == UpsertedDoc(doc, plan.upserts)
           d2 == EditedDoc(d1, plan.edits)
           d3 == WithoutDoc(d2, plan.ruleDeletes)
           d4 == RenamedDoc(d3, plan.renames)
           new == ApplyDoc(doc, plan)
           written == Written(c, plan)
           rules == {at(i) : i \in plan.ruleDeletes}
           tos == {[at(i) EXCEPT !.name = plan.renames[i]] : i \in DOMAIN plan.renames}
           froms == {at(i) : i \in DOMAIN plan.renames}
           gone == {at(i) : i \in plan.deletes}
           p1 == Presented(p, written)
           p2 == Removed(p1, rules)
           p3 == Presented(p2, tos)
           p4 == Removed(p3, froms)
           p5 == Removed(p4, gone)
<1>1. Recorded(p, c, plan) = p5
  BY DEF Recorded, Recording, Written
<1>2. /\ \A e \in DOMAIN doc : at(IdOf(e)) = e
      /\ \A i \in DOMAIN c : at(i) \in DOMAIN doc /\ IdOf(at(i)) = i
      /\ \A i \in DOMAIN plan.upserts : at(i) = ElementOf(plan.upserts[i].kind, i) /\ IdOf(at(i)) = i
  BY RecordedAt
<1>3. Stages(doc, plan, d1, d2, d3, d4)
  BY DEF Stages
<1>4. DOMAIN d2 = DOMAIN doc \cup written /\ \A e \in DOMAIN doc \ written : d2[e] = doc[e]
  <2>1. /\ d1 = UpsertedDoc(doc, plan.upserts) /\ d2 = EditedDoc(d1, plan.edits)
        /\ written = Written(Parse(doc), plan)
    OBVIOUS
  <2> HIDE DEF d1, d2, written
  <2> QED
    BY <2>1, WrittenTracks
<1> HIDE DEF d1, d2, d3, d4
<1>5. \A e \in DOMAIN d2 : at(IdOf(e)) = e
  <2>1. DOMAIN d2 = DOMAIN d1
    BY <1>3, StagesShape
  <2>2. DOMAIN d1 = DOMAIN doc \cup {ElementOf(plan.upserts[i].kind, i) : i \in DOMAIN plan.upserts}
    BY UpsertedDocShape DEF Fits, d1
  <2> QED
    BY <1>2, <2>1, <2>2
<1>6. /\ plan.ruleDeletes \subseteq DOMAIN c /\ plan.deletes \subseteq DOMAIN c
      /\ IsDocument(d2) /\ IsDocument(d3) /\ new = WithoutDoc(d4, plan.deletes)
      /\ DOMAIN plan.renames = {} => d4 = d3
      /\ DOMAIN plan.renames # {} =>
                /\ DOMAIN d3 = DOMAIN doc /\ new = d4 /\ plan.deletes = {}
                /\ \E from \in DOMAIN doc :
                    /\ DOMAIN plan.renames = {IdOf(from)} /\ plan.renames[IdOf(from)] \in Names
                    /\ Slot(IdOf(from).space, plan.renames[IdOf(from)], IdOf(from).loc)
                          \notin {IdOf(e) : e \in DOMAIN d3}
  BY <1>3, StagesShape DEF Fits
<1> HIDE DEF at, new
<1>7. Tracks(s, p1, d2)
  <2> HIDE DEF written
  <2> QED
    BY <1>4, TracksPresented
<1>8. Tracks(s, p2, d3)
  <2>1. DOMAIN d3 = {e \in DOMAIN d2 : IdOf(e) \notin plan.ruleDeletes} /\ \A e \in DOMAIN d3 : d3[e] = d2[e]
    <3>1. IsDocument(d2) /\ d3 = WithoutDoc(d2, plan.ruleDeletes)
      BY <1>6 DEF d3
    <3>2. /\ DOMAIN WithoutDoc(d2, plan.ruleDeletes) = {e \in DOMAIN d2 : IdOf(e) \notin plan.ruleDeletes}
          /\ \A e \in DOMAIN WithoutDoc(d2, plan.ruleDeletes) : WithoutDoc(d2, plan.ruleDeletes)[e] = d2[e]
      BY <3>1, WithoutDocShape
    <3> QED
      BY <3>1, <3>2
  <2>2. DOMAIN d3 = DOMAIN d2 \ rules
    BY <1>2, <1>5, <1>6, <2>1
  <2> HIDE DEF p1, rules
  <2> QED
    BY <1>7, <2>1, <2>2, TracksRemoved
<1> HIDE DEF p2
<1>9. CASE DOMAIN plan.renames = {}
  <2>1. tos = {} /\ froms = {}
    BY <1>9
  <2>2. Tracks(s, p3, d3)
    <3> HIDE DEF tos
    <3> QED
      BY <1>8, <2>1, TracksPresented
  <2>3. Tracks(s, p4, d3)
    <3> HIDE DEF p3, froms
    <3> QED
      BY <2>1, <2>2, TracksRemoved
  <2>4. DOMAIN new = {e \in DOMAIN d3 : IdOf(e) \notin plan.deletes} /\ \A e \in DOMAIN new : new[e] = d3[e]
    <3>1. IsDocument(d3) /\ new = WithoutDoc(d3, plan.deletes)
      BY <1>6, <1>9
    <3>2. /\ DOMAIN WithoutDoc(d3, plan.deletes) = {e \in DOMAIN d3 : IdOf(e) \notin plan.deletes}
          /\ \A e \in DOMAIN WithoutDoc(d3, plan.deletes) : WithoutDoc(d3, plan.deletes)[e] = d3[e]
      BY <3>1, WithoutDocShape
    <3> QED
      BY <3>1, <3>2
  <2>5. DOMAIN d3 \subseteq DOMAIN d2
    <3>1. IsDocument(d2) /\ d3 = WithoutDoc(d2, plan.ruleDeletes)
      BY <1>6 DEF d3
    <3>2. DOMAIN WithoutDoc(d2, plan.ruleDeletes) = {e \in DOMAIN d2 : IdOf(e) \notin plan.ruleDeletes}
      BY <3>1, WithoutDocShape
    <3> QED
      BY <3>1, <3>2
  <2>6. DOMAIN new = DOMAIN d3 \ gone
    BY <1>2, <1>5, <1>6, <2>4, <2>5
  <2> HIDE DEF p4, gone
  <2>7. Tracks(s, p5, new)
    BY <2>3, <2>4, <2>6, TracksRemoved
  <2> QED
    BY <1>1, <2>7 DEF new
<1>10. CASE DOMAIN plan.renames # {}
  <2>1. PICK from \in DOMAIN doc :
            /\ DOMAIN plan.renames = {IdOf(from)} /\ plan.renames[IdOf(from)] \in Names
            /\ Slot(IdOf(from).space, plan.renames[IdOf(from)], IdOf(from).loc)
                  \notin {IdOf(e) : e \in DOMAIN d3}
    BY <1>6, <1>10
  <2> DEFINE to == [from EXCEPT !.name = plan.renames[IdOf(from)]]
             mid == [e \in DOMAIN d3 \cup {to} |-> IF e = to THEN d3[from] ELSE d3[e]]
  <2>2. DOMAIN d3 = DOMAIN doc /\ new = d4 /\ gone = {}
    BY <1>6, <1>10
  <2>3. tos = {to} /\ froms = {from}
    <3>1. at(IdOf(from)) = from
      BY <1>2
    <3>2. tos = {[at(IdOf(from)) EXCEPT !.name = plan.renames[IdOf(from)]]} /\ froms = {at(IdOf(from))}
      BY <2>1
    <3> QED
      BY <3>1, <3>2
  <2>4. to = [from EXCEPT !.name = plan.renames[IdOf(from)]]
    OBVIOUS
  <2> HIDE DEF to
  <2>5. /\ to \notin DOMAIN d3 /\ DOMAIN d4 = (DOMAIN d3 \ {from}) \cup {to}
        /\ d4[to] = d3[from] /\ \A e \in DOMAIN d3 \ {from} : d4[e] = d3[e]
    <3>1. from \in DOMAIN d3 /\ d4 = RenamedDoc(d3, plan.renames)
      BY <2>2 DEF d4
    <3>2. /\ to \notin DOMAIN d3
          /\ DOMAIN RenamedDoc(d3, plan.renames) = (DOMAIN d3 \ {from}) \cup {to}
          /\ RenamedDoc(d3, plan.renames)[to] = d3[from]
          /\ \A e \in DOMAIN d3 \ {from} : RenamedDoc(d3, plan.renames)[e] = d3[e]
      BY <1>6, <2>1, <2>4, <3>1, RenamedDocShape
    <3> QED
      BY <3>1, <3>2
  <2>6. /\ DOMAIN mid = DOMAIN d3 \cup {to} /\ mid[to] = d3[from]
        /\ \A e \in DOMAIN d3 \ {to} : mid[e] = d3[e]
    OBVIOUS
  <2> HIDE DEF mid, tos, froms, gone
  <2>7. Tracks(s, p3, mid)
    BY <1>8, <2>3, <2>6, TracksPresented
  <2>8. DOMAIN d4 = DOMAIN mid \ froms /\ \A e \in DOMAIN d4 : d4[e] = mid[e]
    BY <2>2, <2>3, <2>5, <2>6
  <2>9. Tracks(s, p4, d4)
    <3> HIDE DEF p3
    <3> QED
      BY <2>7, <2>8, TracksRemoved
  <2>10. DOMAIN d4 = DOMAIN d4 \ gone
    BY <2>2
  <2> HIDE DEF p4
  <2> QED
    BY <1>1, <2>2, <2>9, <2>10, TracksRemoved DEF new
<1> QED
  BY <1>9, <1>10

-----------------------------------------------------------------------------
(* The plans of the commands fit the document they are made from.          *)

(* A plan that fits and puts nothing.                                      *)
Revises(c, plan) == Fits(c, plan) /\ DOMAIN plan.upserts = {}

(* The empty plan fits every configuration.                                *)
LEMMA EmptyFits ==
    ASSUME NEW c PROVE Revises(c, EmptyPlan)
<1>1. /\ DOMAIN EmptyPlan.upserts = {} /\ DOMAIN EmptyPlan.edits = {} /\ DOMAIN EmptyPlan.renames = {}
      /\ EmptyPlan.ruleDeletes = {} /\ EmptyPlan.deletes = {}
  BY DEF EmptyPlan
<1> QED
  BY <1>1, SimplePlans DEF Revises, Fits, PutsFit

(* Putting one object fits, unless its name is in another container.       *)
LEMMA PuttingFits ==
    ASSUME NEW c, NEW i \in Ids, NEW e \in Entry, SpaceOf(e.kind) = i.space,
           i \in DOMAIN c => Container(c[i].kind) = Container(e.kind)
    PROVE  /\ Fits(c, Putting(i, e))
           /\ Putting(i, e).upserts = [j \in {i} |-> e] /\ Putting(i, e).edits = <<>>
           /\ Putting(i, e).renames = <<>> /\ Putting(i, e).ruleDeletes = {} /\ Putting(i, e).deletes = {}
<1>1. /\ Putting(i, e).upserts = [j \in {i} |-> e] /\ Putting(i, e).edits = <<>>
      /\ Putting(i, e).renames = <<>> /\ Putting(i, e).ruleDeletes = {} /\ Putting(i, e).deletes = {}
  BY DEF Putting, EmptyPlan
<1>2. PutsFit(c, Putting(i, e).upserts)
  BY <1>1 DEF PutsFit
<1>3. DOMAIN Putting(i, e).edits = {} /\ DOMAIN Putting(i, e).renames = {}
  BY <1>1
<1>4. IsPlan(Putting(i, e))
  BY SimplePlans
<1> QED
  BY <1>1, <1>2, <1>3, <1>4 DEF Fits

(* The edit of one list fits.                                              *)
LEMMA RewriteFits ==
    ASSUME NEW c, IsConfig(c), NEW i \in DOMAIN c, NEW f, NEW leaf \in Fields, NEW op, NEW m \in Members
    PROVE  Revises(c, PlanRewrite(c, i, f, leaf, op, m))
<1> DEFINE p == PlanRewrite(c, i, f, leaf, op, m)
           after == Rewritten(c[i].fields[leaf], op, m)
<1>1. p = EmptyPlan \/ p = Editing(i, f, after)
  BY DEF PlanRewrite
<1>2. CASE p = EmptyPlan
  BY <1>2, EmptyFits
<1>3. CASE p = Editing(i, f, after)
  <2>1. /\ DOMAIN p.upserts = {} /\ DOMAIN p.edits = {<<i, f>>} /\ DOMAIN p.renames = {}
        /\ p.ruleDeletes = {} /\ p.deletes = {}
    BY <1>3 DEF Editing, EmptyPlan
  <2>2. IsPlan(p)
    BY RewritePlan
  <2> HIDE DEF p
  <2>3. Revises(c, p)
    BY <2>1, <2>2 DEF Revises, Fits, PutsFit
  <2> QED
    BY <2>3 DEF p
<1> QED
  BY <1>1, <1>2, <1>3

(* A member edit of a group fits, unless it is blocked.                    *)
LEMMA GroupEditFits ==
    ASSUME NEW c, IsConfig(c), NEW name, NEW locs, NEW op, NEW m \in Members,
           ~PlanGroupMemberEdit(c, name, locs, op, m).blocked
    PROVE  Revises(c, PlanGroupMemberEdit(c, name, locs, op, m))
<1> DEFINE groups == {i \in DOMAIN c : i.name = name /\ i.loc \in locs /\ c[i].kind \in GroupKinds}
           g == CHOOSE i \in groups : TRUE
           p == PlanGroupMemberEdit(c, name, locs, op, m)
<1>1. /\ Cardinality(groups) = 1 /\ c[g].kind # "dynamic-group"
      /\ p = PlanRewrite(c, g, "members", Leaf(c[g].kind, "members"), op, m)
  BY SimplePlans DEF PlanGroupMemberEdit
<1>2. groups # {}
  <2> HIDE DEF groups
  <2> QED
    BY <1>1, FS_EmptySet
<1>3. g \in DOMAIN c /\ c[g].kind \in {"address-group", "service-group"}
  BY <1>1, <1>2 DEF GroupKinds
<1> HIDE DEF g, p
<1>4. Leaf(c[g].kind, "members") \in Fields
  BY <1>3, LeafFacts DEF Fields
<1> QED
  BY <1>1, <1>3, <1>4, RewriteFits DEF p

(* A member edit of a rule fits, unless it is blocked.                     *)
LEMMA RuleEditFits ==
    ASSUME NEW c, IsConfig(c), NEW name, NEW locs, NEW field, NEW op, NEW m \in Members,
           ~PlanRuleMemberEdit(c, name, locs, field, op, m).blocked
    PROVE  Revises(c, PlanRuleMemberEdit(c, name, locs, field, op, m))
<1> DEFINE rules == {i \in DOMAIN c : i.name = name /\ i.loc \in locs /\ i.space \in RuleSpaces}
           rule == FirstRule(rules)
           p == PlanRuleMemberEdit(c, name, locs, field, op, m)
<1>1. /\ field \in EditableFields /\ Cardinality({i.loc : i \in rules}) = 1
      /\ p = PlanRewrite(c, rule, field, field, op, m)
  BY SimplePlans DEF PlanRuleMemberEdit
<1>2. rules # {}
  <2> HIDE DEF rules
  <2>1. rules = {} => {i.loc : i \in rules} = {}
    OBVIOUS
  <2> QED
    BY <1>1, <2>1, FS_EmptySet
<1>3. rule \in rules
  <2> HIDE DEF rules
  <2> QED
    BY <1>2 DEF FirstRule
<1>4. field \in Fields /\ rule \in DOMAIN c
  BY <1>1, <1>3 DEF EditableFields, Fields
<1> HIDE DEF rule, p
<1> QED
  BY <1>1, <1>4, RewriteFits DEF p

(* The plan of a delete fits: it edits what is there and puts nothing.     *)
LEMMA TeardownFits ==
    ASSUME NEW c, IsConfig(c), NEW cm \in Commands
    PROVE  Revises(c, PlanTeardown(c, cm, Cascade(c, cm)))
<1> DEFINE dead == Cascade(c, cm)
           p == PlanTeardown(c, cm, dead)
           d == Draft(c, cm, dead)
           edits == ScrubEdits(c, cm, Touched(c, cm, dead))
<1>1. Planning(c, cm, dead)
  BY CascadeFacts
<1>2. IsPlan(p)
  BY TeardownPlan
<1> HIDE DEF dead
<1>3. /\ p.upserts = <<>> /\ p.renames = <<>>
      /\ \/ p.edits = <<>> /\ p.deletes = {} /\ p.ruleDeletes = {}
         \/ p.edits = d.edits /\ p.deletes = d.deletes /\ p.ruleDeletes = d.ruleDeletes
  BY <1>1, PlanShape
<1>4. /\ d.deletes = {} \/ d.deletes = dead
      /\ d.ruleDeletes \subseteq {i \in DOMAIN c : c[i].kind \in RuleSpaces}
      /\ \A k \in DOMAIN d.edits : k \in DOMAIN edits
  BY <1>1, DraftShape
<1>5. \A k \in DOMAIN edits : k[1] \in DOMAIN c
  <2>1. \A k \in DOMAIN edits : \E r \in Touched(c, cm, dead) : k = <<r.by, r.field>>
    BY <1>1, TouchedRefs, ScrubEditsShape DEF Planning
  <2>2. \A r \in Touched(c, cm, dead) : r.by \in DOMAIN c
    BY <1>1, TouchedRefs, RefsType DEF Planning
  <2> HIDE DEF edits
  <2> QED
    BY <2>1, <2>2
<1> HIDE DEF p, d, edits
<1>6. /\ DOMAIN p.upserts = {} /\ DOMAIN p.renames = {}
      /\ \A k \in DOMAIN p.edits : k[1] \in DOMAIN c
      /\ p.deletes \subseteq DOMAIN c /\ p.ruleDeletes \subseteq DOMAIN c
  BY <1>1, <1>3, <1>4, <1>5 DEF Planning
<1>7. Revises(c, p)
  BY <1>2, <1>6 DEF Revises, Fits, PutsFit
<1> QED
  BY <1>7 DEF p, dead

(* The rewritten lists of a rename hold names.                             *)
LEMMA RepointsShape ==
    ASSUME NEW c, IsConfig(c), NEW renames, \A i \in DOMAIN renames : renames[i] \in Names
    PROVE  \A k \in DOMAIN Repoints(c, renames) :
                k[1] \in DOMAIN c /\ Repoints(c, renames)[k] \in SUBSET Members
<1> DEFINE refs == {r \in WhereUsed(c, DOMAIN renames) : renames[Target(DOMAIN c, r)] # r.name}
           ref(k, m) == [by |-> k[1], field |-> k[2], name |-> m]
           after(k, m) == IF ref(k, m) \in refs THEN renames[Target(DOMAIN c, ref(k, m))] ELSE m
           old(k) == UNION {FieldMembers(c, k[1], k[2], r.name) : r \in {x \in refs : <<x.by, x.field>> = k}}
           keys == {<<r.by, r.field>> : r \in refs}
<1>1. Repoints(c, renames) = [k \in keys |-> {after(k, m) : m \in old(k)}]
  BY DEF Repoints
<1>2. ASSUME NEW r \in refs
      PROVE  /\ r.by \in DOMAIN c /\ r.field \in Fields /\ r.name \in Members
             /\ renames[Target(DOMAIN c, r)] \in Members
             /\ FieldMembers(c, r.by, r.field, r.name) \in SUBSET Members
  <2>1. r \in Refs(c) /\ Target(DOMAIN c, r) \in DOMAIN renames
    BY DEF WhereUsed
  <2>2. r.by \in DOMAIN c /\ r.field \in Fields /\ r.name \in Names
    BY <2>1, RefsType
  <2>3. c[r.by].kind \in GroupKinds \cup RuleSpaces => Leaf(c[r.by].kind, r.field) \in Fields
    BY <2>2, LeafFacts DEF GroupKinds, Fields
  <2>4. FieldMembers(c, r.by, r.field, r.name) \in SUBSET Members
    BY <2>2, <2>3, ConfigEntry DEF FieldMembers, Members
  <2> QED
    BY <2>1, <2>2, <2>4 DEF Members
<1> HIDE DEF refs
<1>3. ASSUME NEW k \in keys
      PROVE  k[1] \in DOMAIN c /\ old(k) \in SUBSET Members
  <2>1. k[1] \in DOMAIN c
    BY <1>2
  <2>2. ASSUME NEW r \in refs, <<r.by, r.field>> = k PROVE FieldMembers(c, k[1], k[2], r.name) \in SUBSET Members
    BY <1>2, <2>2
  <2> QED
    BY <2>1, <2>2
<1> HIDE DEF old
<1>4. ASSUME NEW k \in keys, NEW m \in Members PROVE after(k, m) \in Members
  BY <1>2, <1>4
<1> HIDE DEF after, keys
<1>5. ASSUME NEW k \in keys PROVE {after(k, m) : m \in old(k)} \in SUBSET Members
  BY <1>3, <1>4
<1> QED
  BY <1>1, <1>3, <1>5

(* A rename fits unless it is blocked: the new name is free.               *)
LEMMA RenameFits ==
    ASSUME NEW c, IsConfig(c), NEW id \in DOMAIN c, NEW new \in Names, ~PlanRename(c, id, new).blocked
    PROVE  Revises(c, PlanRename(c, id, new))
<1> DEFINE renames == [i \in {id} |-> new]
           edits == Repoints(c, renames)
           draft == [EmptyPlan EXCEPT !.edits = edits, !.renames = renames]
           gated == [draft EXCEPT !.blocked = draft.blocked \/ GateBlocks(c, draft)]
           p == PlanRename(c, id, new)
<1>1. ~Clashes(c, id, new) /\ p = Sealed(gated)
  BY SimplePlans DEF PlanRename, Renaming, Gated
<1>2. Slot(id.space, new, id.loc) \notin DOMAIN c
  <2>1. id.loc \in Locs
    BY ConfigEntry DEF Ids
  <2>2. id.loc \in Cone(id.loc)
    BY <2>1, ChainSelfAssumption DEF Cone, Sees
  <2> QED
    BY <1>1, <2>2 DEF Clashes
<1>3. \A k \in DOMAIN edits : k[1] \in DOMAIN c /\ edits[k] \in SUBSET Members
  BY RepointsShape
<1>4. DOMAIN renames = {id} /\ renames[id] = new
  OBVIOUS
<1> DEFINE b == draft.blocked \/ GateBlocks(c, draft)
<1> HIDE DEF renames, edits
<1>5. gated = [draft EXCEPT !.blocked = b]
  OBVIOUS
<1> HIDE DEF b, gated
<1>6. /\ gated.upserts = <<>> /\ gated.edits = edits /\ gated.renames = renames
      /\ gated.ruleDeletes = {} /\ gated.deletes = {}
  BY <1>5 DEF EmptyPlan
<1>7. ~gated.blocked
  <2>1. ASSUME gated.blocked PROVE p.blocked
    <3>1. p = [EmptyPlan EXCEPT !.notes = gated.notes, !.blocked = TRUE]
      BY <1>1, <2>1 DEF Sealed
    <3> QED
      BY <3>1 DEF EmptyPlan
  <2> QED
    BY <2>1
<1>8. p = gated
  BY <1>1, <1>7 DEF Sealed
<1> HIDE DEF gated, p
<1>9. /\ DOMAIN p.upserts = {} /\ p.edits = edits /\ p.renames = renames
      /\ p.ruleDeletes = {} /\ p.deletes = {}
  BY <1>6, <1>8
<1>10. IsPlan(p) /\ FreshRename(DOMAIN c, p.renames)
  BY <1>2, <1>3, <1>4, <1>9 DEF IsPlan, FreshRename
<1>11. Revises(c, p)
  BY <1>3, <1>9, <1>10 DEF Revises, Fits, PutsFit
<1> QED
  BY <1>11 DEF p

-----------------------------------------------------------------------------
(* The document and the executor's model, side by side.                    *)

(* An element reads as an entry, up to what an emptied list is read as.    *)
Reads(el, e, entry) ==
    /\ entry.kind = KindOf(e, el)
    /\ entry.value = FirstOf(el.values)
    /\ \A f \in Fields : Back(entry.kind, f, entry.fields[f]) = Back(entry.kind, f, Shown(el.lists[f]))

Matches(d, c) ==
    /\ DOMAIN c = {IdOf(e) : e \in DOMAIN d}
    /\ \A e \in DOMAIN d : Reads(d[e], e, c[IdOf(e)])

(* A document that matches a configuration reads as it is read back.       *)
LEMMA MatchesParse ==
    ASSUME NEW d, IsDocument(d), NEW c, IsConfig(c), Matches(d, c)
    PROVE  Parse(d) = ReadBack(c)
<1>1. IsConfig(Parse(d)) /\ IsConfig(ReadBack(c)) /\ DOMAIN ReadBack(c) = DOMAIN c
  BY ParseShape, ReadBackShape
<1>2. DOMAIN Parse(d) = DOMAIN c
  <2>1. DOMAIN Parse(d) = {IdOf(e) : e \in DOMAIN d}
    BY ParseShape
  <2> QED
    BY <2>1 DEF Matches
<1>3. ASSUME NEW i \in DOMAIN Parse(d)
      PROVE  /\ Parse(d)[i].kind = ReadBack(c)[i].kind /\ Parse(d)[i].value = ReadBack(c)[i].value
             /\ \A f \in Fields : Parse(d)[i].fields[f] = ReadBack(c)[i].fields[f]
  <2>1. PICK e \in DOMAIN d : i = IdOf(e)
    BY <1>2 DEF Matches
  <2>2. Reads(d[e], e, c[i])
    BY <2>1 DEF Matches
  <2>3. /\ Parse(d)[i].kind = KindOf(e, d[e]) /\ Parse(d)[i].value = FirstOf(d[e].values)
        /\ \A f \in Fields : Parse(d)[i].fields[f] = Back(KindOf(e, d[e]), f, Shown(d[e].lists[f]))
    BY <2>1, ParseShape
  <2>4. i \in DOMAIN c
    BY <1>2
  <2>5. /\ ReadBack(c)[i].kind = c[i].kind /\ ReadBack(c)[i].value = c[i].value
        /\ \A f \in Fields : ReadBack(c)[i].fields[f] = Back(c[i].kind, f, c[i].fields[f])
    BY <2>4, ReadBackShape, ReadBackValue DEF Back
  <2> QED
    BY <2>2, <2>3, <2>5 DEF Reads
<1> QED
  BY <1>1, <1>2, <1>3, SameConfig

(* A document matches what is read from it.                                *)
LEMMA ParseMatches ==
    ASSUME NEW d, IsDocument(d)
    PROVE  Matches(d, Parse(d))
<1>1. DOMAIN Parse(d) = {IdOf(e) : e \in DOMAIN d}
  BY ParseShape
<1>2. ASSUME NEW e \in DOMAIN d PROVE Reads(d[e], e, Parse(d)[IdOf(e)])
  <2>1. /\ Parse(d)[IdOf(e)].kind = KindOf(e, d[e]) /\ Parse(d)[IdOf(e)].value = FirstOf(d[e].values)
        /\ \A f \in Fields : Parse(d)[IdOf(e)].fields[f] = Back(KindOf(e, d[e]), f, Shown(d[e].lists[f]))
    BY ParseShape
  <2>2. \A k, f, m : Back(k, f, Back(k, f, m)) = Back(k, f, m)
    BY DEF Back
  <2> QED
    BY <2>1, <2>2 DEF Reads
<1> QED
  BY <1>1, <1>2 DEF Matches

(* The first list after a write.                                           *)
LEMMA ShownFacts ==
    /\ Shown(<<>>) = {}
    /\ \A m : Shown(<<m>>) = m
    /\ \A m \in SUBSET Members, rest \in Seq(SUBSET Members) :
          <<m>> \o rest # <<>> /\ Shown(<<m>> \o rest) = m
<1>1. Shown(<<>>) = {} /\ \A m : Shown(<<m>>) = m
  BY DEF Shown
<1>2. ASSUME NEW m \in SUBSET Members, NEW rest \in Seq(SUBSET Members)
      PROVE  <<m>> \o rest # <<>> /\ Shown(<<m>> \o rest) = m
  <2>1. <<m>> \in Seq(SUBSET Members) /\ Len(<<m>>) = 1 /\ <<m>>[1] = m
    OBVIOUS
  <2>2. Len(<<m>> \o rest) = 1 + Len(rest) /\ (<<m>> \o rest)[1] = m /\ Len(rest) \in Nat
    BY <2>1
  <2>3. <<m>> \o rest # <<>>
    BY <2>2
  <2> QED
    BY <2>2, <2>3 DEF Shown
<1> QED
  BY <1>1, <1>2

(* What a put list shows, where one list was there at most.                *)
LEMMA PutListShown ==
    ASSUME NEW lists \in Seq(SUBSET Members), NEW members \in SUBSET Members
    PROVE  /\ members = {} => PutList(lists, members) = lists
           /\ members # {} /\ (lists = <<>> \/ Shown(lists) # {})
                => Shown(PutList(lists, members)) = members
<1>1. CASE members = {}
  BY <1>1 DEF PutList
<1>2. CASE members # {} /\ lists = <<>>
  <2>1. PutList(lists, members) = Append(lists, members)
    BY <1>2 DEF PutList
  <2>2. Append(lists, members) = <<members>>
    BY <1>2
  <2> QED
    BY <1>2, <2>1, <2>2, ShownFacts
<1>3. CASE members # {} /\ lists # <<>> /\ Shown(lists) # {}
  <2>1. Head(lists) # {}
    BY <1>3 DEF Shown
  <2>2. PutList(lists, members) = <<members>> \o Tail(lists)
    BY <1>3, <2>1 DEF PutList
  <2>3. Tail(lists) \in Seq(SUBSET Members)
    BY <1>3
  <2> QED
    BY <1>3, <2>2, <2>3, ShownFacts
<1> QED
  BY <1>1, <1>2, <1>3

(* The value that is put is the one that is read, if the type stays.       *)
LEMMA PutValue ==
    ASSUME NEW values \in SUBSET Values, NEW v \in Values,
           values = {} \/ TypeOf[FirstOf(values)] = TypeOf[v]
    PROVE  FirstOf({w \in values : TypeOf[w] # TypeOf[v]} \cup {v}) = v
<1> DEFINE new == {w \in values : TypeOf[w] # TypeOf[v]} \cup {v}
<1>1. new \in SUBSET Values /\ v \in new
  OBVIOUS
<1>2. ASSUME NEW w \in new, w # v PROVE Rank(v) < Rank(w)
  <2>1. w \in values /\ w \in Values /\ TypeOf[w] # TypeOf[v]
    BY <1>2
  <2> DEFINE o == FirstOf(values)
  <2>2. o \in values /\ o \in Values /\ Rank(o) <= Rank(w) /\ TypeOf[o] = TypeOf[v]
    BY <2>1, FirstFacts
  <2> HIDE DEF o
  <2>3. Rank(o) = Rank(v)
    BY <2>2 DEF Rank
  <2>4. Rank(v) \in Nat /\ Rank(w) \in Nat /\ TypeOrder[Rank(v)] = TypeOf[v] /\ TypeOrder[Rank(w)] = TypeOf[w]
    BY <2>1, RankFacts
  <2>5. Rank(v) # Rank(w)
    BY <2>1, <2>4
  <2> QED
    BY <2>2, <2>3, <2>4, <2>5
<1> HIDE DEF new
<1>3. FirstOf(new) \in new /\ \A w \in new : Rank(FirstOf(new)) <= Rank(w)
  BY <1>1, FirstFacts
<1>4. \A w \in new : Rank(w) \in Nat
  BY <1>1, RankFacts
<1>5. FirstOf(new) = v
  BY <1>1, <1>2, <1>3, <1>4
<1> QED
  BY <1>5 DEF new

(* The edits reach member lists and leave filters alone.                   *)
LEMMA FiltersStay ==
    ASSUME NEW c, NEW edits, NEW i, NEW f \in FilterFields
    PROVE  Writers(c, edits, i, f) = {}
<1> SUFFICES ASSUME NEW k \in Writers(c, edits, i, f) PROVE FALSE
  OBVIOUS
<1>1. Mappable(c[i].kind, k[2]) /\ Leaf(c[i].kind, k[2]) = f /\ f \in {"filter", "filter-not"}
  BY DEF Writers, FilterFields
<1>2. CASE c[i].kind \in {"address-group", "dynamic-group", "service-group"}
  BY <1>1, <1>2, LeafFacts
<1>3. CASE c[i].kind \in RuleSpaces
  <2>1. k[2] = f
    BY <1>1, <1>3, LeafFacts
  <2> QED
    BY <1>1, <1>3, <2>1 DEF Mappable, RuleFlatFields, RuleSpaces
<1> QED
  BY <1>1, <1>2, <1>3 DEF Mappable, RuleSpaces

(* An edit keeps document and configuration matching.                      *)
LEMMA EditedMatches ==
    ASSUME NEW d, IsDocument(d), NEW c, IsConfig(c), Matches(d, c),
           NEW edits, \A k \in DOMAIN edits : edits[k] \in SUBSET Members
    PROVE  Matches(EditedDoc(d, edits), Edited(c, edits))
<1> DEFINE dd == EditedDoc(d, edits)
           cc == Edited(c, edits)
<1>1. /\ IsDocument(dd) /\ DOMAIN dd = DOMAIN d
      /\ \A e \in DOMAIN d : /\ dd[e].values = d[e].values
                             /\ \A f \in Fields : dd[e].lists[f] = EditedLists(d, edits, e, f)
  BY EditedDocShape
<1>2. /\ IsConfig(cc) /\ DOMAIN cc = DOMAIN c
      /\ \A i \in DOMAIN c : /\ cc[i].kind = c[i].kind /\ cc[i].value = c[i].value
                             /\ \A f \in Fields : cc[i].fields[f] = NewList(c, edits, i, f)
  BY EditedShape, EditedValue
<1> HIDE DEF dd, cc
<1>3. ASSUME NEW e \in DOMAIN d PROVE Reads(dd[e], e, cc[IdOf(e)])
  <2> DEFINE i == IdOf(e)
  <2>1. i \in DOMAIN c /\ Reads(d[e], e, c[i])
    BY DEF Matches
  <2>2. Parse(d)[i].kind = c[i].kind
    BY <2>1, ParseShape DEF Reads
  <2>3. \A f : Writers(Parse(d), edits, i, f) = Writers(c, edits, i, f)
    BY <2>2 DEF Writers
  <2> HIDE DEF i
  <2>4. KindOf(e, dd[e]) = KindOf(e, d[e])
    <3>1. dd[e].lists["filter"] = d[e].lists["filter"]
      <4>1. dd[e].lists["filter"] = EditedLists(d, edits, e, "filter")
        BY <1>1 DEF Fields
      <4>2. Writers(Parse(d), edits, IdOf(e), "filter") = {}
        BY FiltersStay DEF FilterFields
      <4> QED
        BY <4>1, <4>2 DEF EditedLists
    <3> QED
      BY <3>1 DEF KindOf
  <2>5. ASSUME NEW f \in Fields
        PROVE  Back(c[i].kind, f, cc[i].fields[f]) = Back(c[i].kind, f, Shown(dd[e].lists[f]))
    <3> DEFINE by == Writers(c, edits, i, f)
               k == CHOOSE x \in by : TRUE
               rest == IF d[e].lists[f] = <<>> THEN <<>> ELSE Tail(d[e].lists[f])
    <3>1. CASE by = {}
      <4>1. cc[i].fields[f] = c[i].fields[f]
        BY <1>2, <2>1, <3>1 DEF NewList
      <4>2. dd[e].lists[f] = d[e].lists[f]
        BY <1>1, <2>3, <3>1 DEF EditedLists, i
      <4> QED
        BY <2>1, <4>1, <4>2 DEF Reads
    <3>2. CASE by # {}
      <4>1. cc[i].fields[f] = edits[k]
        BY <1>2, <2>1, <3>2 DEF NewList
      <4>2. EditedLists(d, edits, e, f) = <<edits[k]>> \o rest
        BY <2>3, <3>2 DEF EditedLists, i
      <4>3. edits[k] \in SUBSET Members
        BY <3>2 DEF Writers
      <4>4. rest \in Seq(SUBSET Members)
        <5>1. d[e].lists[f] \in Seq(SUBSET Members)
          BY DocumentEntry
        <5> QED
          BY <5>1
      <4> HIDE DEF k, rest, by
      <4>5. Shown(dd[e].lists[f]) = edits[k]
        BY <1>1, <4>2, <4>3, <4>4, ShownFacts
      <4> QED
        BY <4>1, <4>5
    <3> QED
      BY <3>1, <3>2
  <2> QED
    BY <1>1, <1>2, <2>1, <2>4, <2>5 DEF Reads, i
<1>4. DOMAIN cc = {IdOf(e) : e \in DOMAIN dd}
  BY <1>1, <1>2 DEF Matches
<1> QED
  BY <1>1, <1>3, <1>4 DEF Matches, dd, cc

(* A delete keeps document and configuration matching.                     *)
LEMMA WithoutMatches ==
    ASSUME NEW d, IsDocument(d), NEW c, IsConfig(c), Matches(d, c), NEW gone
    PROVE  Matches(WithoutDoc(d, gone), Without(c, gone))
<1>1. /\ DOMAIN WithoutDoc(d, gone) = {e \in DOMAIN d : IdOf(e) \notin gone}
      /\ \A e \in DOMAIN WithoutDoc(d, gone) : WithoutDoc(d, gone)[e] = d[e]
  BY WithoutDocShape
<1>2. DOMAIN Without(c, gone) = DOMAIN c \ gone /\ \A i \in DOMAIN c \ gone : Without(c, gone)[i] = c[i]
  BY WithoutShape
<1>3. DOMAIN Without(c, gone) = {IdOf(e) : e \in DOMAIN WithoutDoc(d, gone)}
  BY <1>1, <1>2 DEF Matches
<1>4. ASSUME NEW e \in DOMAIN WithoutDoc(d, gone)
      PROVE  Reads(WithoutDoc(d, gone)[e], e, Without(c, gone)[IdOf(e)])
  <2>1. e \in DOMAIN d /\ IdOf(e) \notin gone /\ IdOf(e) \in DOMAIN c
    BY <1>1 DEF Matches
  <2> QED
    BY <1>1, <1>2, <2>1 DEF Matches
<1> QED
  BY <1>3, <1>4 DEF Matches

(* One entry takes a new name in the configuration.                        *)
LEMMA RenamedOne ==
    ASSUME NEW c, IsConfig(c), NEW renames, NEW id \in DOMAIN c, NEW to,
           DOMAIN renames = {id}, renames[id] \in Names,
           to = Slot(id.space, renames[id], id.loc), to \notin DOMAIN c
    PROVE  /\ DOMAIN Renamed(c, renames) = (DOMAIN c \ {id}) \cup {to}
           /\ Renamed(c, renames)[to] = c[id]
           /\ \A i \in DOMAIN c \ {id} : Renamed(c, renames)[i] = c[i]
<1> DEFINE moved(i) == Moved(renames, i)
           back(j) == CHOOSE i \in DOMAIN c : moved(i) = j
           dom == {moved(i) : i \in DOMAIN c}
           r == Renamed(c, renames)
<1>1. r = [j \in dom |-> c[back(j)]]
  BY DEF Renamed
<1>2. moved(id) = to
  BY DEF Moved
<1>3. \A i \in DOMAIN c \ {id} : moved(i) = i
  BY DEF Moved
<1> HIDE DEF moved
<1>4. back(to) = id
  <2>1. back(to) \in DOMAIN c /\ moved(back(to)) = to
    BY <1>2
  <2> QED
    BY <1>3, <2>1
<1>5. ASSUME NEW i \in DOMAIN c \ {id} PROVE back(i) = i
  <2>1. back(i) \in DOMAIN c /\ moved(back(i)) = i
    BY <1>3
  <2> QED
    BY <1>2, <1>3, <2>1
<1>6. dom = (DOMAIN c \ {id}) \cup {to}
  BY <1>2, <1>3
<1> HIDE DEF dom, back
<1> QED
  BY <1>1, <1>4, <1>5, <1>6

(* A rename keeps document and configuration matching.                     *)
LEMMA RenamedMatches ==
    ASSUME NEW d, IsDocument(d), NEW c, IsConfig(c), Matches(d, c), NEW renames, NEW from \in DOMAIN d,
           DOMAIN renames = {IdOf(from)}, renames[IdOf(from)] \in Names,
           Slot(IdOf(from).space, renames[IdOf(from)], IdOf(from).loc) \notin {IdOf(e) : e \in DOMAIN d}
    PROVE  Matches(RenamedDoc(d, renames), Renamed(c, renames))
<1> DEFINE id == IdOf(from)
           to == [from EXCEPT !.name = renames[IdOf(from)]]
           slot == Slot(id.space, renames[id], id.loc)
           dd == RenamedDoc(d, renames)
           cc == Renamed(c, renames)
<1>1. to = [from EXCEPT !.name = renames[IdOf(from)]]
  OBVIOUS
<1>2. to.tag = from.tag
  <2>1. from = [tag |-> from.tag, name |-> from.name, loc |-> from.loc]
    BY DocumentEntry, IdFacts
  <2> QED
    BY <2>1
<1> HIDE DEF to
<1>3. /\ IdOf(to) = slot
      /\ DOMAIN dd = (DOMAIN d \ {from}) \cup {to}
      /\ dd[to] = d[from] /\ \A e \in DOMAIN d \ {from} : dd[e] = d[e]
  BY <1>1, RenamedDocShape
<1>4. id \in DOMAIN c /\ slot \notin DOMAIN c
  BY DEF Matches
<1>5. /\ DOMAIN cc = (DOMAIN c \ {id}) \cup {slot}
      /\ cc[slot] = c[id] /\ \A i \in DOMAIN c \ {id} : cc[i] = c[i]
  <2>1. slot = Slot(id.space, renames[id], id.loc) /\ DOMAIN renames = {id} /\ renames[id] \in Names
    OBVIOUS
  <2> HIDE DEF slot, cc, id
  <2>2. /\ DOMAIN Renamed(c, renames) = (DOMAIN c \ {id}) \cup {slot}
        /\ Renamed(c, renames)[slot] = c[id]
        /\ \A i \in DOMAIN c \ {id} : Renamed(c, renames)[i] = c[i]
    BY <1>4, <2>1, RenamedOne
  <2> QED
    BY <2>2 DEF cc
<1> HIDE DEF dd, cc, slot
<1>6. \A e \in DOMAIN d \ {from} : IdOf(e) # id /\ IdOf(e) \in DOMAIN c
  BY DEF IsDocument, Matches
<1>7. DOMAIN cc = {IdOf(e) : e \in DOMAIN dd}
  <2>1. DOMAIN c = {IdOf(e) : e \in DOMAIN d}
    BY DEF Matches
  <2> QED
    BY <1>3, <1>5, <1>6, <2>1
<1>8. ASSUME NEW e \in DOMAIN dd PROVE Reads(dd[e], e, cc[IdOf(e)])
  <2>1. CASE e = to
    <3>1. Reads(d[from], from, c[id])
      BY DEF Matches
    <3>2. KindOf(to, d[from]) = KindOf(from, d[from])
      BY <1>2 DEF KindOf
    <3>3. Reads(d[from], to, c[id])
      BY <3>1, <3>2 DEF Reads
    <3> QED
      BY <1>3, <1>5, <2>1, <3>3
  <2>2. CASE e \in DOMAIN d \ {from}
    <3>1. Reads(d[e], e, c[IdOf(e)])
      BY <2>2 DEF Matches
    <3>2. dd[e] = d[e] /\ cc[IdOf(e)] = c[IdOf(e)]
      BY <1>3, <1>5, <1>6, <2>2
    <3> QED
      BY <3>1, <3>2
  <2> QED
    BY <1>3, <2>1, <2>2
<1> QED
  BY <1>7, <1>8 DEF Matches, dd, cc

-----------------------------------------------------------------------------
(* An object is put into a document.                                       *)

(* A put suits a configuration: it leaves kind and type as they are.       *)
Suits(c, put) ==
    /\ IsPut(put)
    /\ put.id \in DOMAIN c => /\ c[put.id].kind = put.entry.kind
                              /\ TypeOf[c[put.id].value] = TypeOf[put.entry.value]

(* It fills no list that is there without members.                         *)
Solid(d, put) ==
    LET e == ElementOf(put.entry.kind, put.id) IN
    e \in DOMAIN d => \A f \in Fields \ FilterFields :
        put.entry.fields[f] # {} => d[e].lists[f] = <<>> \/ Shown(d[e].lists[f]) # {}

OnePut(put) == [i \in {put.id} |-> put.entry]

(* What can be put, by parts.                                              *)
LEMMA PutFacts ==
    ASSUME NEW put, IsPut(put)
    PROVE  /\ put.id \in Ids /\ put.id \in ObjectIds /\ put.entry \in Entry
           /\ put.entry.kind \in Kinds /\ put.entry.kind \notin RuleSpaces
           /\ put.entry.value \in Values \cup {Nil}
           /\ put.entry.fields \in [Fields -> SUBSET Members]
           /\ SpaceOf(put.entry.kind) = put.id.space
           /\ ElementOf(put.entry.kind, put.id) \in Entries
           /\ IdOf(ElementOf(put.entry.kind, put.id)) = put.id
           /\ ElementOf(put.entry.kind, put.id).tag = Container(put.entry.kind)
           /\ AnyFields(put.entry.kind) = {}
<1>1. put.id \in ObjectIds /\ put.entry \in Entry /\ SpaceOf(put.entry.kind) = put.id.space
  BY DEF IsPut
<1>2. put.id \in Ids /\ put.id.space \in ObjectSpaces
  BY <1>1 DEF ObjectIds, Ids, Spaces
<1>3. /\ put.entry.kind \in Kinds /\ put.entry.value \in Values \cup {Nil}
      /\ put.entry.fields \in [Fields -> SUBSET Members]
  BY <1>1 DEF Entry
<1>4. put.entry.kind \notin RuleSpaces
  BY <1>1, <1>2 DEF SpaceOf, RuleSpaces, ObjectSpaces
<1>5. AnyFields(put.entry.kind) = {}
  BY <1>4 DEF AnyFields, RuleSpaces
<1> HIDE DEF IsPut
<1> DEFINE k == put.entry.kind
           i == put.id
<1>6. k \in Kinds /\ i \in Ids /\ SpaceOf(k) = i.space
  BY <1>1, <1>2, <1>3
<1> HIDE DEF k, i
<1>7. ElementOf(k, i) \in Entries /\ ElementOf(k, i).tag = Container(k) /\ IdOf(ElementOf(k, i)) = i
  BY <1>6, IdFacts
<1> QED
  BY <1>1, <1>2, <1>3, <1>4, <1>5, <1>7 DEF k, i

(* What putting one object does to a configuration.                        *)
LEMMA UpsertedOne ==
    ASSUME NEW c, IsConfig(c), NEW put, IsPut(put), NEW new, new = Upserted(c, OnePut(put))
    PROVE  /\ IsConfig(new) /\ DOMAIN new = DOMAIN c \cup {put.id}
           /\ \A j \in DOMAIN c \ {put.id} : new[j] = c[j]
           /\ put.id \notin DOMAIN c => new[put.id] = put.entry
           /\ put.id \in DOMAIN c =>
                /\ new[put.id].kind = c[put.id].kind
                /\ new[put.id].value = IF put.entry.value = Nil THEN c[put.id].value ELSE put.entry.value
                /\ \A f \in Fields : new[put.id].fields[f] = IF Gives(put.entry, f) THEN put.entry.fields[f]
                                                              ELSE c[put.id].fields[f]
<1> DEFINE i == put.id
           up == OnePut(put)
           plan == Putting(i, put.entry)
<1>1. IsPlan(plan) /\ plan.upserts = up
  <2>1. i \in Ids /\ put.entry \in Entry /\ SpaceOf(put.entry.kind) = i.space
    BY PutFacts
  <2> QED
    BY <2>1, SimplePlans DEF Putting, OnePut, EmptyPlan
<1>2. DOMAIN up = {i} /\ up[i] = put.entry
  BY DEF OnePut
<1>0. new = Upserted(c, up)
  OBVIOUS
<1>3. IsConfig(new) /\ DOMAIN new = DOMAIN c \cup {i}
  <2>1. IsConfig(Upserted(c, plan.upserts)) /\ DOMAIN Upserted(c, plan.upserts) = DOMAIN c \cup DOMAIN plan.upserts
    BY <1>1, UpsertedShape
  <2> QED
    BY <1>0, <1>1, <1>2, <2>1
<1> DEFINE kept == IF up[i].value = Nil THEN c[i].value ELSE up[i].value
           lists == [f \in Fields |-> IF Gives(up[i], f) THEN up[i].fields[f] ELSE c[i].fields[f]]
<1> HIDE DEF up
<1>4. /\ \A j \in DOMAIN c \ {i} : new[j] = c[j]
      /\ i \notin DOMAIN c => new[i] = up[i]
  BY <1>0, <1>2 DEF Upserted
<1>5. ASSUME i \in DOMAIN c
      PROVE  new[i].kind = c[i].kind /\ new[i].value = kept /\ new[i].fields = lists
  <2>1. c[i] \in Entry
    BY <1>5, ConfigEntry
  <2>2. new[i] = [c[i] EXCEPT !.value = kept, !.fields = lists]
    BY <1>0, <1>2, <1>5, ZenonT(60) DEF Upserted
  <2> HIDE DEF kept, lists
  <2> QED
    BY <2>1, <2>2 DEF Entry
<1>6. \A f \in Fields : lists[f] = IF Gives(up[i], f) THEN up[i].fields[f] ELSE c[i].fields[f]
  OBVIOUS
<1> HIDE DEF lists
<1>7. ASSUME i \in DOMAIN c, NEW f \in Fields
      PROVE  new[i].fields[f] = IF Gives(put.entry, f) THEN put.entry.fields[f] ELSE c[i].fields[f]
  BY <1>2, <1>5, <1>6, <1>7
<1>8. i \in DOMAIN c => new[i].value = IF put.entry.value = Nil THEN c[i].value ELSE put.entry.value
  BY <1>2, <1>5
<1> QED
  BY <1>2, <1>3, <1>4, <1>5, <1>7, <1>8 DEF up

(* Where the object of a put is, if it is anywhere.                        *)
LEMMA PutPlace ==
    ASSUME NEW d, IsDocument(d), NEW c, Matches(d, c), NEW put, IsPut(put),
           put.id \in DOMAIN c => Container(c[put.id].kind) = Container(put.entry.kind)
    PROVE  /\ \A e \in DOMAIN d : IdOf(e) = put.id => e = ElementOf(put.entry.kind, put.id)
           /\ put.id \in DOMAIN c <=> ElementOf(put.entry.kind, put.id) \in DOMAIN d
<1>1. ASSUME NEW e \in DOMAIN d, IdOf(e) = put.id PROVE e = ElementOf(put.entry.kind, put.id)
  <2>1. e \in Entries /\ put.id \in DOMAIN c /\ c[put.id].kind = KindOf(e, d[e])
    BY <1>1, DocumentEntry DEF Matches, Reads
  <2>2. Container(put.entry.kind) = e.tag
    BY <2>1, KindFacts
  <2> QED
    BY <1>1, <2>1, <2>2, IdFacts
<1>2. IdOf(ElementOf(put.entry.kind, put.id)) = put.id
  BY PutFacts
<1>3. put.id \in DOMAIN c <=> \E e \in DOMAIN d : IdOf(e) = put.id
  BY DEF Matches
<1> QED
  BY <1>1, <1>2, <1>3

(* The lists and the kind of the object a put writes.                      *)
LEMMA PutReads ==
    ASSUME NEW put, IsPut(put), NEW el \in Element,
           NEW e, e = ElementOf(put.entry.kind, put.id),
           \A f \in Fields \ FilterFields :
                put.entry.fields[f] # {} => el.lists[f] = <<>> \/ Shown(el.lists[f]) # {},
           el.lists["filter"] # <<>> => put.entry.kind = "dynamic-group" \/ e.tag # "address-group"
    PROVE  /\ KindOf(e, Put(el, put.entry)) = put.entry.kind
           /\ Put(el, put.entry).values = NewValues(el, put.entry)
           /\ \A f \in Fields : Shown(Put(el, put.entry).lists[f])
                = IF Gives(put.entry, f) THEN put.entry.fields[f] ELSE Shown(el.lists[f])
<1> DEFINE entry == put.entry
           new == Put(el, entry)
<1>1. /\ entry \in Entry /\ entry.kind \in Kinds /\ entry.kind \notin RuleSpaces
      /\ entry.fields \in [Fields -> SUBSET Members] /\ e.tag = Container(entry.kind)
  BY PutFacts
<1>2. entry.kind # "dynamic-group" => \A f \in FilterFields : entry.fields[f] = {}
  BY DEF IsPut
<1>3. el.lists \in [Fields -> Seq(SUBSET Members)]
  BY DEF Element
<1>4. new.values = NewValues(el, entry) /\ new.lists = NewLists(el, entry)
  BY <1>1, PutShape
<1> HIDE DEF new, entry
<1>5. ASSUME NEW f \in Fields
      PROVE  Shown(new.lists[f]) = IF Gives(entry, f) THEN entry.fields[f] ELSE Shown(el.lists[f])
  <2>1. el.lists[f] \in Seq(SUBSET Members) /\ entry.fields[f] \in SUBSET Members
    BY <1>1, <1>3
  <2>2. CASE f \notin FilterFields
    <3>1. new.lists[f] = PutList(el.lists[f], entry.fields[f])
      BY <1>4, <2>2 DEF NewLists
    <3>2. Gives(entry, f) <=> entry.fields[f] # {}
      BY <2>2 DEF Gives, FilterFields
    <3>3. entry.fields[f] # {} => el.lists[f] = <<>> \/ Shown(el.lists[f]) # {}
      BY <2>2 DEF entry
    <3> DEFINE l == el.lists[f]
               m == entry.fields[f]
    <3>4. l \in Seq(SUBSET Members) /\ m \in SUBSET Members /\ (m # {} => l = <<>> \/ Shown(l) # {})
      BY <2>1, <3>3
    <3> HIDE DEF l, m
    <3>5. CASE m = {}
      <4>1. PutList(l, m) = l
        BY <3>4, <3>5, PutListShown
      <4> QED
        BY <3>1, <3>2, <3>5, <4>1 DEF l, m
    <3>6. CASE m # {}
      <4>1. Shown(PutList(l, m)) = m
        BY <3>4, <3>6, PutListShown
      <4> QED
        BY <3>1, <3>2, <3>6, <4>1 DEF l, m
    <3> QED
      BY <3>5, <3>6
  <2>3. CASE f \in FilterFields /\ entry.kind = "dynamic-group"
    <3>1. new.lists[f] = <<entry.fields[f]>>
      BY <1>4, <2>3 DEF NewLists
    <3>2. Gives(entry, f)
      BY <2>3 DEF Gives, FilterFields
    <3> QED
      BY <3>1, <3>2, ShownFacts
  <2>4. CASE f \in FilterFields /\ entry.kind # "dynamic-group"
    <3>1. new.lists[f] = el.lists[f]
      BY <1>4, <2>4 DEF NewLists
    <3>2. ~Gives(entry, f)
      BY <1>2, <2>4 DEF Gives
    <3> QED
      BY <3>1, <3>2
  <2> QED
    BY <2>2, <2>3, <2>4
<1>6. KindOf(e, new) = entry.kind
  <2>1. CASE entry.kind = "dynamic-group"
    <3>1. new.lists["filter"] = <<entry.fields["filter"]>>
      BY <1>4, <2>1 DEF NewLists, FilterFields, Fields
    <3>2. new.lists["filter"] # <<>>
      BY <3>1
    <3> QED
      BY <1>1, <2>1, <3>2 DEF KindOf, Container
  <2>2. CASE entry.kind # "dynamic-group"
    <3>1. new.lists["filter"] = el.lists["filter"]
      BY <1>4, <2>2 DEF NewLists, FilterFields, Fields
    <3>2. e.tag = entry.kind
      BY <1>1, <2>2 DEF Container
    <3>3. ~(e.tag = "address-group" /\ new.lists["filter"] # <<>>)
      BY <2>2, <3>1 DEF entry
    <3> QED
      BY <3>2, <3>3 DEF KindOf
  <2> QED
    BY <2>1, <2>2
<1> QED
  BY <1>4, <1>5, <1>6 DEF new, entry

(* What putting one object does to a document.                             *)
LEMMA UpsertedDocOne ==
    ASSUME NEW d, IsDocument(d), NEW i, NEW entry, NEW u, DOMAIN u = {i}, u[i] = entry, PutsFit(Parse(d), u)
    PROVE  /\ IsDocument(UpsertedDoc(d, u))
           /\ DOMAIN UpsertedDoc(d, u) = DOMAIN d \cup {ElementOf(entry.kind, i)}
           /\ \A x \in DOMAIN d : IdOf(x) # i => UpsertedDoc(d, u)[x] = d[x]
           /\ UpsertedDoc(d, u)[ElementOf(entry.kind, i)] = Put(Old(d, ElementOf(entry.kind, i)), entry)
<1>1. IsDocument(UpsertedDoc(d, u))
  BY UpsertedDocShape
<1>4. ASSUME NEW x \in DOMAIN d, IdOf(x) # i PROVE UpsertedDoc(d, u)[x] = d[x]
  BY <1>4, UpsertedDocShape
<1> DEFINE e == ElementOf(u[i].kind, i)
<1>7. i \in DOMAIN u /\ e = ElementOf(u[i].kind, i)
  OBVIOUS
<1> HIDE DEF e
<1>5. UpsertedDoc(d, u)[e] = Put(Old(d, e), u[i])
  BY <1>7, UpsertedDocAt
<1> DEFINE ats == {ElementOf(u[j].kind, j) : j \in DOMAIN u}
<1>2. DOMAIN UpsertedDoc(d, u) = DOMAIN d \cup ats
  BY UpsertedDocShape
<1>3. ats = {ElementOf(entry.kind, i)}
  OBVIOUS
<1> QED
  BY <1>1, <1>2, <1>3, <1>4, <1>5, <1>7

(* A put that suits and is solid keeps the two matching.                   *)
LEMMA UpsertedMatches ==
    ASSUME NEW d, IsDocument(d), NEW c, IsConfig(c), Matches(d, c), NEW put, Suits(c, put), Solid(d, put)
    PROVE  Matches(UpsertedDoc(d, OnePut(put)), Upserted(c, OnePut(put)))
<1> DEFINE i == put.id
           entry == put.entry
           e == ElementOf(entry.kind, i)
           dd == UpsertedDoc(d, OnePut(put))
           cc == Upserted(c, OnePut(put))
           el == Old(d, e)
<1>1. /\ IsPut(put)
      /\ i \in DOMAIN c => c[i].kind = entry.kind /\ TypeOf[c[i].value] = TypeOf[entry.value]
  BY DEF Suits
<1>2. /\ i \in Ids /\ entry \in Entry /\ SpaceOf(entry.kind) = i.space /\ IdOf(e) = i
      /\ AnyFields(entry.kind) = {} /\ entry.value \in Values \cup {Nil}
  BY <1>1, PutFacts
<1>3. /\ \A x \in DOMAIN d : IdOf(x) = i => x = e
      /\ i \in DOMAIN c <=> e \in DOMAIN d
  BY <1>1, PutPlace
<1>4. /\ DOMAIN dd = DOMAIN d \cup {e}
      /\ \A x \in DOMAIN d \ {e} : dd[x] = d[x]
      /\ dd[e] = Put(el, entry)
  <2>2. PutsFit(Parse(d), OnePut(put))
    <3>1. i \in DOMAIN Parse(d) => i \in DOMAIN c /\ Parse(d)[i].kind = c[i].kind
      <4>1. ASSUME i \in DOMAIN Parse(d) PROVE i \in DOMAIN c /\ Parse(d)[i].kind = c[i].kind
        <5>0. DOMAIN Parse(d) = {IdOf(x) : x \in DOMAIN d}
          BY ParseShape
        <5>1. PICK x \in DOMAIN d : i = IdOf(x)
          BY <4>1, <5>0
        <5>2. Parse(d)[i].kind = KindOf(x, d[x])
          BY <5>1, ParseShape
        <5> QED
          BY <5>1, <5>2 DEF Matches, Reads
      <4> QED
        BY <4>1
    <3> QED
      BY <1>1, <1>2, <3>1 DEF PutsFit, OnePut
  <2> DEFINE u == OnePut(put)
  <2>3. DOMAIN u = {i} /\ u[i] = entry /\ dd = UpsertedDoc(d, u) /\ PutsFit(Parse(d), u)
    BY <2>2 DEF OnePut
  <2> HIDE DEF dd, u, i, entry
  <2>4. /\ DOMAIN UpsertedDoc(d, u) = DOMAIN d \cup {ElementOf(entry.kind, i)}
        /\ \A x \in DOMAIN d : IdOf(x) # i => UpsertedDoc(d, u)[x] = d[x]
        /\ UpsertedDoc(d, u)[ElementOf(entry.kind, i)] = Put(Old(d, ElementOf(entry.kind, i)), entry)
    BY <2>3, UpsertedDocOne
  <2> QED
    BY <1>3, <2>3, <2>4
<1>5. /\ DOMAIN cc = DOMAIN c \cup {i}
      /\ \A j \in DOMAIN c \ {i} : cc[j] = c[j]
      /\ i \notin DOMAIN c => cc[i] = entry
      /\ i \in DOMAIN c =>
            /\ cc[i].kind = c[i].kind
            /\ cc[i].value = IF entry.value = Nil THEN c[i].value ELSE entry.value
            /\ \A f \in Fields : cc[i].fields[f] = IF Gives(entry, f) THEN entry.fields[f] ELSE c[i].fields[f]
  BY <1>1, UpsertedOne
<1> HIDE DEF dd, cc
<1>11. ASSUME Reads(dd[e], e, cc[i])
       PROVE  Matches(dd, cc)
  <2>1. DOMAIN c = {IdOf(x) : x \in DOMAIN d}
    BY DEF Matches
  <2> HIDE DEF e, i
  <2>2. DOMAIN cc = {IdOf(x) : x \in DOMAIN dd}
    BY <1>2, <1>4, <1>5, <2>1
  <2>3. ASSUME NEW x \in DOMAIN dd PROVE Reads(dd[x], x, cc[IdOf(x)])
    <3>1. CASE x = e
      BY <1>2, <1>11, <3>1
    <3>2. CASE x # e
      <4>1. x \in DOMAIN d \ {e}
        BY <1>4, <3>2
      <4>2. IdOf(x) # i /\ IdOf(x) \in DOMAIN c
        BY <1>3, <2>1, <4>1
      <4>3. Reads(d[x], x, c[IdOf(x)])
        BY <4>1 DEF Matches
      <4>4. dd[x] = d[x] /\ cc[IdOf(x)] = c[IdOf(x)]
        BY <1>4, <1>5, <4>1, <4>2
      <4> QED
        BY <4>3, <4>4
    <3> QED
      BY <3>1, <3>2
  <2> QED
    BY <2>2, <2>3 DEF Matches
<1>6. /\ el \in Element
      /\ \A f \in Fields \ FilterFields :
            entry.fields[f] # {} => el.lists[f] = <<>> \/ Shown(el.lists[f]) # {}
      /\ el.lists["filter"] # <<>> => entry.kind = "dynamic-group" \/ e.tag # "address-group"
  <2>1. CASE e \in DOMAIN d
    <3>1. el = d[e] /\ entry.kind = KindOf(e, d[e])
      BY <1>1, <1>2, <1>3, <2>1 DEF Old, Matches, Reads
    <3>2. d[e] \in Element
      BY <2>1, DocumentEntry
    <3> QED
      BY <2>1, <3>1, <3>2 DEF Solid, KindOf
  <2>2. CASE e \notin DOMAIN d
    <3>1. el = Blank
      BY <2>2 DEF Old
    <3>2. \A f \in Fields : el.lists[f] = <<>>
      BY <3>1, BlankElement
    <3>3. "filter" \in Fields
      BY DEF Fields
    <3> HIDE DEF el
    <3> QED
      BY <3>1, <3>2, <3>3, BlankElement
  <2> QED
    BY <2>1, <2>2
<1>7. e = ElementOf(put.entry.kind, put.id)
  OBVIOUS
<1> HIDE DEF e, el
<1>8. /\ KindOf(e, dd[e]) = entry.kind
      /\ dd[e].values = NewValues(el, entry)
      /\ \A f \in Fields : Shown(dd[e].lists[f]) = IF Gives(entry, f) THEN entry.fields[f] ELSE Shown(el.lists[f])
  BY <1>1, <1>4, <1>6, <1>7, PutReads, SMTT(60)
<1> HIDE DEF entry, i
<1>12. ASSUME Reads(dd[e], e, cc[i])
       PROVE  Matches(UpsertedDoc(d, OnePut(put)), Upserted(c, OnePut(put)))
  BY <1>11, <1>12 DEF dd, cc, i
<1>9. CASE i \notin DOMAIN c
  <2>1. el = Blank /\ cc[i] = entry
    BY <1>3, <1>5, <1>9 DEF Old, el
  <2>2. FirstOf(dd[e].values) = entry.value
    <3>1. CASE entry.value = Nil
      BY <1>8, <2>1, <3>1, BlankElement, FirstFacts DEF NewValues
    <3>2. CASE entry.value # Nil
      <4>1. dd[e].values = {entry.value}
        BY <1>8, <2>1, <3>2, BlankElement DEF NewValues
      <4>2. dd[e].values \in SUBSET Values /\ dd[e].values # {}
        BY <1>2, <3>2, <4>1
      <4> QED
        BY <4>1, <4>2, FirstFacts
    <3> QED
      BY <3>1, <3>2
  <2>3. ASSUME NEW f \in Fields PROVE Shown(dd[e].lists[f]) = entry.fields[f]
    <3>1. Shown(el.lists[f]) = {}
      BY <2>1, BlankElement, ShownFacts
    <3>2. ~Gives(entry, f) => entry.fields[f] = {}
      BY DEF Gives
    <3> QED
      BY <1>8, <3>1, <3>2
  <2>4. Reads(dd[e], e, cc[i])
    BY <1>8, <2>1, <2>2, <2>3 DEF Reads
  <2> QED
    BY <1>12, <2>4
<1>10. CASE i \in DOMAIN c
  <2>1. e \in DOMAIN d /\ el = d[e] /\ Reads(d[e], e, c[i])
    BY <1>2, <1>3, <1>10 DEF Old, Matches, el
  <2>2. d[e].values \in SUBSET Values
    BY <2>1, DocumentEntry
  <2>3. FirstOf(dd[e].values) = cc[i].value
    <3>1. CASE entry.value = Nil
      BY <1>5, <1>8, <1>10, <2>1, <3>1 DEF NewValues, Reads
    <3>2. CASE entry.value # Nil
      <4>1. entry.value \in Values /\ TypeOf[FirstOf(d[e].values)] = TypeOf[entry.value]
        BY <1>1, <1>2, <1>10, <2>1, <3>2 DEF Reads
      <4>2. dd[e].values = {w \in d[e].values : TypeOf[w] # TypeOf[entry.value]} \cup {entry.value}
        BY <1>8, <2>1, <3>2 DEF NewValues
      <4>3. FirstOf(dd[e].values) = entry.value
        BY <2>2, <4>1, <4>2, PutValue
      <4> QED
        BY <1>5, <1>10, <3>2, <4>3
    <3> QED
      BY <3>1, <3>2
  <2>4. cc[i].kind = entry.kind /\ c[i].kind = entry.kind
    BY <1>1, <1>5, <1>10
  <2>5. ASSUME NEW f \in Fields PROVE cc[i].fields[f] = Shown(dd[e].lists[f])
    <3>1. Back(entry.kind, f, c[i].fields[f]) = Back(entry.kind, f, Shown(d[e].lists[f]))
      BY <2>1, <2>4 DEF Reads
    <3>2. c[i].fields[f] = Shown(d[e].lists[f])
      BY <1>2, <3>1 DEF Back
    <3> QED
      BY <1>5, <1>8, <1>10, <2>1, <3>2
  <2>6. Reads(dd[e], e, cc[i])
    BY <1>8, <2>3, <2>4, <2>5 DEF Reads
  <2> QED
    BY <1>12, <2>6
<1> QED
  BY <1>9, <1>10

-----------------------------------------------------------------------------
(* A change applied to the document and to the model alike.                *)

(* A plan without upserts does the same to both.                           *)
LEMMA ApplyMatches ==
    ASSUME NEW doc, IsDocument(doc), NEW plan, Fits(Parse(doc), plan), DOMAIN plan.upserts = {}
    PROVE  Parse(ApplyDoc(doc, plan)) = Apply(Parse(doc), plan)
<1> DEFINE c  == Parse(doc)
           d1 == UpsertedDoc(doc, plan.upserts)
           d2 == EditedDoc(d1, plan.edits)
           d3 == WithoutDoc(d2, plan.ruleDeletes)
           d4 == RenamedDoc(d3, plan.renames)
           c1 == Upserted(c, plan.upserts)
           c2 == Edited(c1, plan.edits)
           c3 == Without(c2, plan.ruleDeletes)
           c4 == Renamed(c3, plan.renames)
           c5 == Without(c4, plan.deletes)
<1>1. Stages(doc, plan, d1, d2, d3, d4)
  BY DEF Stages
<1>2. Apply(c, plan) = ReadBack(c5)
  BY DEF Apply
<1>3. IsPlan(plan) /\ \A k \in DOMAIN plan.edits : plan.edits[k] \in SUBSET Members
  BY DEF Fits, IsPlan
<1>4. IsConfig(c) /\ Matches(doc, c)
  BY ParseShape, ParseMatches
<1>5. c1 = c /\ d1 = doc
  BY <1>4, UpsertedNone, UpsertedDocNone
<1>6. d2 = EditedDoc(d1, plan.edits) /\ c2 = Edited(c1, plan.edits)
  OBVIOUS
<1>7. d3 = WithoutDoc(d2, plan.ruleDeletes) /\ c3 = Without(c2, plan.ruleDeletes)
  OBVIOUS
<1>8. d4 = RenamedDoc(d3, plan.renames) /\ c4 = Renamed(c3, plan.renames)
  OBVIOUS
<1>9. c5 = Without(c4, plan.deletes)
  OBVIOUS
<1> HIDE DEF c, d1, d2, d3, d4, c1, c2, c3, c4, c5
<1>10. /\ IsDocument(d2) /\ IsDocument(d3) /\ IsDocument(d4)
       /\ ApplyDoc(doc, plan) = WithoutDoc(d4, plan.deletes)
       /\ IsDocument(ApplyDoc(doc, plan))
       /\ DOMAIN plan.renames = {} => d4 = d3
       /\ DOMAIN plan.renames # {} =>
            \E from \in DOMAIN doc :
                /\ DOMAIN plan.renames = {IdOf(from)} /\ plan.renames[IdOf(from)] \in Names
                /\ Slot(IdOf(from).space, plan.renames[IdOf(from)], IdOf(from).loc)
                      \notin {IdOf(e) : e \in DOMAIN d3}
       /\ DOMAIN plan.renames # {} => DOMAIN d3 = DOMAIN doc
  BY <1>1, StagesShape
<1>11. IsConfig(c2) /\ Matches(d2, c2)
  <2>1. Matches(EditedDoc(doc, plan.edits), Edited(c, plan.edits))
    BY <1>3, <1>4, EditedMatches
  <2>2. IsConfig(Edited(c, plan.edits))
    BY <1>3, <1>4, EditedShape
  <2> QED
    BY <1>5, <1>6, <2>1, <2>2
<1>12. IsConfig(c3) /\ Matches(d3, c3)
  <2>1. Matches(WithoutDoc(d2, plan.ruleDeletes), Without(c2, plan.ruleDeletes))
    BY <1>10, <1>11, WithoutMatches
  <2>2. IsConfig(Without(c2, plan.ruleDeletes))
    BY <1>11, WithoutShape
  <2> QED
    BY <1>7, <2>1, <2>2
<1>13. IsConfig(c4) /\ Matches(d4, c4)
  <2>1. IsConfig(Renamed(c3, plan.renames))
    BY <1>3, <1>12, RenamedShape DEF IsPlan
  <2>2. CASE DOMAIN plan.renames = {}
    <3>1. Renamed(c3, plan.renames) = c3
      BY <1>12, <2>2, RenamedNone DEF IsConfig
    <3> QED
      BY <1>8, <1>10, <1>12, <2>2, <3>1
  <2>3. CASE DOMAIN plan.renames # {}
    <3>1. PICK from \in DOMAIN d3 :
            /\ DOMAIN plan.renames = {IdOf(from)} /\ plan.renames[IdOf(from)] \in Names
            /\ Slot(IdOf(from).space, plan.renames[IdOf(from)], IdOf(from).loc)
                  \notin {IdOf(e) : e \in DOMAIN d3}
      BY <1>10, <2>3
    <3>2. Matches(RenamedDoc(d3, plan.renames), Renamed(c3, plan.renames))
      BY <1>10, <1>12, <3>1, RenamedMatches
    <3> QED
      BY <1>8, <2>1, <3>2
  <2> QED
    BY <2>2, <2>3
<1>14. IsConfig(c5) /\ Matches(ApplyDoc(doc, plan), c5)
  <2>1. Matches(WithoutDoc(d4, plan.deletes), Without(c4, plan.deletes))
    BY <1>10, <1>13, WithoutMatches
  <2>2. IsConfig(Without(c4, plan.deletes))
    BY <1>13, WithoutShape
  <2> QED
    BY <1>9, <1>10, <2>1, <2>2
<1>15. Parse(ApplyDoc(doc, plan)) = ReadBack(c5)
  BY <1>10, <1>14, MatchesParse
<1> QED
  BY <1>2, <1>15 DEF c

(* The edits and removals of a put: there are none.                        *)
LEMMA EditedDocNone ==
    ASSUME NEW d, IsDocument(d), NEW edits, DOMAIN edits = {}
    PROVE  EditedDoc(d, edits) = d
<1> DEFINE dd == EditedDoc(d, edits)
<1>1. \A k \in DOMAIN edits : edits[k] \in SUBSET Members
  OBVIOUS
<1>2. /\ IsDocument(dd) /\ DOMAIN dd = DOMAIN d
      /\ \A e \in DOMAIN d : /\ dd[e].values = d[e].values
                             /\ \A f \in Fields : dd[e].lists[f] = EditedLists(d, edits, e, f)
  BY <1>1, EditedDocShape
<1> HIDE DEF dd
<1>3. ASSUME NEW e \in DOMAIN d PROVE dd[e] = d[e]
  <2>1. dd[e] \in Element /\ d[e] \in Element
    BY <1>2, DocumentEntry
  <2>2. \A f \in Fields : dd[e].lists[f] = d[e].lists[f]
    BY <1>2 DEF EditedLists, Writers
  <2>3. dd[e].lists \in [Fields -> Seq(SUBSET Members)] /\ d[e].lists \in [Fields -> Seq(SUBSET Members)]
    BY <2>1 DEF Element
  <2>4. dd[e].lists = d[e].lists
    BY <2>2, <2>3
  <2> QED
    BY <1>2, <2>1, <2>4 DEF Element
<1>4. dd = d
  BY <1>2, <1>3 DEF IsDocument
<1> QED
  BY <1>4 DEF dd

(* Deleting nothing leaves the document untouched.                         *)
LEMMA WithoutDocNone ==
    ASSUME NEW d, IsDocument(d)
    PROVE  WithoutDoc(d, {}) = d
<1>1. {x \in DOMAIN d : IdOf(x) \notin {}} = DOMAIN d
  OBVIOUS
<1> QED
  BY <1>1 DEF WithoutDoc, IsDocument

(* To put one object is to upsert it, the other steps being empty.         *)
LEMMA PuttingDoc ==
    ASSUME NEW d, IsDocument(d), NEW put, IsPut(put),
           put.id \in DOMAIN Parse(d) => Container(Parse(d)[put.id].kind) = Container(put.entry.kind)
    PROVE  /\ Fits(Parse(d), Putting(put.id, put.entry))
           /\ PutsFit(Parse(d), OnePut(put))
           /\ IsDocument(UpsertedDoc(d, OnePut(put)))
           /\ ApplyDoc(d, Putting(put.id, put.entry)) = UpsertedDoc(d, OnePut(put))
<1> DEFINE plan == Putting(put.id, put.entry)
           u == OnePut(put)
<1>1. put.id \in Ids /\ put.entry \in Entry /\ SpaceOf(put.entry.kind) = put.id.space
  BY PutFacts
<1>2. /\ Fits(Parse(d), plan) /\ plan.upserts = u
      /\ DOMAIN plan.edits = {} /\ DOMAIN plan.renames = {} /\ plan.ruleDeletes = {} /\ plan.deletes = {}
  <2> DEFINE i == put.id
             e == put.entry
  <2>1. /\ i \in Ids /\ e \in Entry /\ SpaceOf(e.kind) = i.space
        /\ i \in DOMAIN Parse(d) => Container(Parse(d)[i].kind) = Container(e.kind)
    BY <1>1
  <2> HIDE DEF i, e
  <2>2. Fits(Parse(d), Putting(i, e))
    BY <2>1, PuttingFits
  <2> QED
    BY <2>2 DEF i, e, OnePut, Putting, EmptyPlan
<1>3. PutsFit(Parse(d), u)
  BY <1>2 DEF Fits
<1> HIDE DEF plan, u
<1>4. IsDocument(UpsertedDoc(d, u))
  BY <1>3, UpsertedDocShape
<1> DEFINE dd == UpsertedDoc(d, u)
<1>5. ApplyDoc(d, plan) = WithoutDoc(RenamedDoc(WithoutDoc(EditedDoc(dd, plan.edits), {}), plan.renames), {})
  BY <1>2 DEF ApplyDoc
<1>6. IsDocument(dd)
  BY <1>4
<1> HIDE DEF dd
<1>7. EditedDoc(dd, plan.edits) = dd /\ WithoutDoc(dd, {}) = dd /\ RenamedDoc(dd, plan.renames) = dd
  BY <1>2, <1>6, EditedDocNone, WithoutDocNone, RenamedDocNone
<1> QED
  BY <1>2, <1>3, <1>4, <1>5, <1>7 DEF plan, u, dd

(* The same of the executor's model.                                       *)
LEMMA PuttingConfig ==
    ASSUME NEW c, IsConfig(c), NEW put, IsPut(put)
    PROVE  /\ IsConfig(Upserted(c, OnePut(put)))
           /\ Apply(c, Putting(put.id, put.entry)) = ReadBack(Upserted(c, OnePut(put)))
<1> DEFINE plan == Putting(put.id, put.entry)
           cc == Upserted(c, OnePut(put))
<1>1. /\ plan.upserts = OnePut(put) /\ DOMAIN plan.edits = {} /\ DOMAIN plan.renames = {}
      /\ plan.ruleDeletes = {} /\ plan.deletes = {}
  BY DEF Putting, EmptyPlan, OnePut
<1>2. cc = Upserted(c, OnePut(put))
  OBVIOUS
<1> HIDE DEF cc
<1>3. IsConfig(cc)
  BY <1>2, UpsertedOne
<1> HIDE DEF plan
<1>4. Apply(c, plan) = ReadBack(Without(Renamed(Without(Edited(cc, plan.edits), {}), plan.renames), {}))
  BY <1>1, <1>2 DEF Apply
<1>5. Edited(cc, plan.edits) = cc /\ Renamed(cc, plan.renames) = cc
  BY <1>1, <1>3, EditedNone, RenamedNone DEF IsConfig
<1>6. Without(cc, {}) = cc
  BY <1>3 DEF Without, IsConfig
<1> QED
  BY <1>2, <1>3, <1>4, <1>5, <1>6 DEF plan

(* A put that suits what is there does the same to both.                   *)
LEMMA PuttingMatches ==
    ASSUME NEW d, IsDocument(d), NEW put, Suits(Parse(d), put), Solid(d, put)
    PROVE  Parse(ApplyDoc(d, Putting(put.id, put.entry))) = Apply(Parse(d), Putting(put.id, put.entry))
<1> DEFINE c == Parse(d)
<1>1. IsConfig(c) /\ Matches(d, c) /\ Suits(c, put) /\ IsPut(put)
  BY ParseShape, ParseMatches DEF Suits
<1>2. put.id \in DOMAIN Parse(d) => Container(Parse(d)[put.id].kind) = Container(put.entry.kind)
  BY DEF Suits
<1>3. IsDocument(UpsertedDoc(d, OnePut(put))) /\ ApplyDoc(d, Putting(put.id, put.entry)) = UpsertedDoc(d, OnePut(put))
  BY <1>1, <1>2, PuttingDoc
<1> HIDE DEF c
<1>4. Matches(UpsertedDoc(d, OnePut(put)), Upserted(c, OnePut(put)))
  BY <1>1, UpsertedMatches
<1>5. IsConfig(Upserted(c, OnePut(put))) /\ Apply(c, Putting(put.id, put.entry)) = ReadBack(Upserted(c, OnePut(put)))
  BY <1>1, PuttingConfig
<1>6. Parse(UpsertedDoc(d, OnePut(put))) = ReadBack(Upserted(c, OnePut(put)))
  BY <1>3, <1>4, <1>5, MatchesParse
<1> QED
  BY <1>3, <1>5, <1>6 DEF c

-----------------------------------------------------------------------------
(* The records of a file, one after another.                               *)

LoadSteps(g, doc, records) ==
    /\ g[0] = doc
    /\ \A k \in Nat : k + 1 <= Len(records) =>
          g[k + 1] = ApplyDoc(g[k], Putting(records[k + 1].id, records[k + 1].entry))

CollectSteps(g, c, records) ==
    /\ g[0] = c
    /\ \A k \in Nat : k + 1 <= Len(records) =>
          g[k + 1] = Apply(g[k], Putting(records[k + 1].id, records[k + 1].entry))

(* The documents between the records are a walk from the first.            *)
LEMMA LoadingWalk ==
    ASSUME NEW doc, NEW records, Len(records) \in Nat
    PROVE  \E g : LoadSteps(g, doc, records) /\ Loading(doc, records) = g[Len(records)]
<1> DEFINE step(d, k) == ApplyDoc(d, Putting(records[k].id, records[k].entry))
           Walk(g, n) == g = [k \in 0 .. n |-> IF k = 0 THEN doc ELSE step(g[k - 1], k)]
           G(n) == \E g : Walk(g, n)
           upTo == CHOOSE g : Walk(g, Len(records))
           N == {n \in Nat : G(n)}
<1>1. Loading(doc, records) = upTo[Len(records)]
  BY DEF Loading
<1> HIDE DEF step
<1>2. G(0)
  <2> DEFINE g == [k \in 0 .. 0 |-> doc]
  <2>1. Walk(g, 0)
    OBVIOUS
  <2> QED
    BY <2>1
<1>3. ASSUME NEW n \in Nat, G(n) PROVE G(n + 1)
  <2>1. PICK g : Walk(g, n)
    BY <1>3
  <2> DEFINE h == [k \in 0 .. n + 1 |-> IF k = n + 1 THEN step(g[n], n + 1) ELSE g[k]]
  <2>2. ASSUME NEW k \in 0 .. n + 1
        PROVE  h[k] = IF k = 0 THEN doc ELSE step(h[k - 1], k)
    BY <2>1
  <2>3. Walk(h, n + 1)
    <3>1. h = [k \in 0 .. n + 1 |-> h[k]]
      OBVIOUS
    <3> HIDE DEF h
    <3> QED
      BY <3>1, <2>2
  <2> QED
    BY <2>3
<1> HIDE DEF G
<1>4. G(Len(records))
  <2>1. N \in SUBSET Nat /\ 0 \in N /\ \A n \in N : n + 1 \in N
    BY <1>2, <1>3
  <2> HIDE DEF N
  <2>2. N = Nat
    BY <2>1, Induction
  <2> QED
    BY <2>2 DEF N
<1>5. Walk(upTo, Len(records))
  <2> HIDE DEF Walk
  <2> QED
    BY <1>4 DEF G
<1> HIDE DEF upTo
<1>6. upTo[0] = doc /\ \A k \in Nat : k + 1 <= Len(records) => upTo[k + 1] = step(upTo[k], k + 1)
  BY <1>5
<1> QED
  BY <1>1, <1>6 DEF LoadSteps, step

(* The configurations between the records are a walk from the first.       *)
LEMMA CollectedWalk ==
    ASSUME NEW c, NEW records, Len(records) \in Nat
    PROVE  \E g : CollectSteps(g, c, records) /\ Collected(c, records) = g[Len(records)]
<1> DEFINE step(d, k) == Apply(d, Putting(records[k].id, records[k].entry))
           Walk(g, n) == g = [k \in 0 .. n |-> IF k = 0 THEN c ELSE step(g[k - 1], k)]
           G(n) == \E g : Walk(g, n)
           upTo == CHOOSE g : Walk(g, Len(records))
           N == {n \in Nat : G(n)}
<1>1. Collected(c, records) = upTo[Len(records)]
  BY DEF Collected
<1> HIDE DEF step
<1>2. G(0)
  <2> DEFINE g == [k \in 0 .. 0 |-> c]
  <2>1. Walk(g, 0)
    OBVIOUS
  <2> QED
    BY <2>1
<1>3. ASSUME NEW n \in Nat, G(n) PROVE G(n + 1)
  <2>1. PICK g : Walk(g, n)
    BY <1>3
  <2> DEFINE h == [k \in 0 .. n + 1 |-> IF k = n + 1 THEN step(g[n], n + 1) ELSE g[k]]
  <2>2. ASSUME NEW k \in 0 .. n + 1
        PROVE  h[k] = IF k = 0 THEN c ELSE step(h[k - 1], k)
    BY <2>1
  <2>3. Walk(h, n + 1)
    <3>1. h = [k \in 0 .. n + 1 |-> h[k]]
      OBVIOUS
    <3> HIDE DEF h
    <3> QED
      BY <3>1, <2>2
  <2> QED
    BY <2>3
<1> HIDE DEF G
<1>4. G(Len(records))
  <2>1. N \in SUBSET Nat /\ 0 \in N /\ \A n \in N : n + 1 \in N
    BY <1>2, <1>3
  <2> HIDE DEF N
  <2>2. N = Nat
    BY <2>1, Induction
  <2> QED
    BY <2>2 DEF N
<1>5. Walk(upTo, Len(records))
  <2> HIDE DEF Walk
  <2> QED
    BY <1>4 DEF G
<1> HIDE DEF upTo
<1>6. upTo[0] = c /\ \A k \in Nat : k + 1 <= Len(records) => upTo[k + 1] = step(upTo[k], k + 1)
  BY <1>5
<1> QED
  BY <1>1, <1>6 DEF CollectSteps, step

(* A file the importer takes: puts for one container.                      *)
IsFile(records) ==
    /\ Len(records) \in Nat /\ DOMAIN records = 1..Len(records)
    /\ \A k \in DOMAIN records : IsPut(records[k])
    /\ \A j, k \in DOMAIN records :
          Container(records[j].entry.kind) = Container(records[k].entry.kind)

(* Its objects are in that container, if they are there.                   *)
Homes(d, records) ==
    \A j \in DOMAIN records : \A e \in DOMAIN d :
        IdOf(e) = records[j].id => e.tag = Container(records[j].entry.kind)

(* Where an object is at home, it is read from there.                      *)
LEMMA HomesRead ==
    ASSUME NEW d, IsDocument(d), NEW records, Homes(d, records), NEW j \in DOMAIN records,
           records[j].id \in DOMAIN Parse(d)
    PROVE  Container(Parse(d)[records[j].id].kind) = Container(records[j].entry.kind)
<1>1. DOMAIN Parse(d) = {IdOf(e) : e \in DOMAIN d}
  BY ParseShape
<1>2. PICK e \in DOMAIN d : records[j].id = IdOf(e)
  BY <1>1
<1>3. Container(Parse(d)[IdOf(e)].kind) = e.tag
  BY ReadElement
<1> QED
  BY <1>2, <1>3 DEF Homes

(* A file that is not refused puts its objects where they are, as what     *)
(* they are.                                                               *)
LEMMA HomesStart ==
    ASSUME NEW d, IsDocument(d), NEW records, ~ImportRefused(Parse(d), records)
    PROVE  /\ Homes(d, records)
           /\ \A j \in DOMAIN records :
                records[j].id \in DOMAIN Parse(d) =>
                    /\ Parse(d)[records[j].id].kind = records[j].entry.kind
                    /\ TypeOf[Parse(d)[records[j].id].value] = TypeOf[records[j].entry.value]
<1>1. ASSUME NEW j \in DOMAIN records, records[j].id \in DOMAIN Parse(d)
      PROVE  /\ Parse(d)[records[j].id].kind = records[j].entry.kind
             /\ TypeOf[Parse(d)[records[j].id].value] = TypeOf[records[j].entry.value]
  <2>1. ~PlanPut(Parse(d), records[j].id, records[j].entry).blocked
    BY DEF ImportRefused
  <2>2. Refusal.blocked = TRUE
    BY DEF Refusal, EmptyPlan
  <2> QED
    BY <1>1, <2>1, <2>2 DEF PlanPut, Taken
<1>2. Homes(d, records)
  <2>1. \A e \in DOMAIN d : IdOf(e) \in DOMAIN Parse(d) /\ Container(Parse(d)[IdOf(e)].kind) = e.tag
    BY ReadElement
  <2> QED
    BY <1>1, <2>1 DEF Homes
<1> QED
  BY <1>1, <1>2

(* One record.                                                             *)
LEMMA RecordLoaded ==
    ASSUME NEW d, IsDocument(d), NEW records, IsFile(records), Homes(d, records), NEW k \in DOMAIN records,
           NEW new, new = ApplyDoc(d, Putting(records[k].id, records[k].entry))
    PROVE  /\ IsDocument(new) /\ Homes(new, records)
           /\ new = UpsertedDoc(d, OnePut(records[k])) /\ PutsFit(Parse(d), OnePut(records[k]))
<1> DEFINE put == records[k]
<1>1. /\ IsPut(put)
      /\ put.id \in DOMAIN Parse(d) => Container(Parse(d)[put.id].kind) = Container(put.entry.kind)
  BY HomesRead DEF IsFile
<1>2. new = ApplyDoc(d, Putting(put.id, put.entry))
  OBVIOUS
<1>3. \A j \in DOMAIN records : Container(records[j].entry.kind) = Container(put.entry.kind)
  BY DEF IsFile
<1> HIDE DEF put
<1>4. /\ IsDocument(UpsertedDoc(d, OnePut(put))) /\ PutsFit(Parse(d), OnePut(put))
      /\ ApplyDoc(d, Putting(put.id, put.entry)) = UpsertedDoc(d, OnePut(put))
  BY <1>1, PuttingDoc
<1> DEFINE at == ElementOf(put.entry.kind, put.id)
           u == OnePut(put)
<1>5. at.tag = Container(put.entry.kind) /\ DOMAIN u = {put.id} /\ u[put.id] = put.entry
  BY <1>1, PutFacts DEF OnePut
<1> HIDE DEF u
<1>6. DOMAIN new = DOMAIN d \cup {at}
  <2> DEFINE i == put.id
             entry == put.entry
  <2>1. DOMAIN u = {i} /\ u[i] = entry /\ PutsFit(Parse(d), u) /\ new = UpsertedDoc(d, u)
    BY <1>2, <1>4, <1>5 DEF u
  <2> HIDE DEF i, entry
  <2>2. DOMAIN UpsertedDoc(d, u) = DOMAIN d \cup {ElementOf(entry.kind, i)}
    BY <2>1, UpsertedDocOne, SMTT(60)
  <2> QED
    BY <2>1, <2>2 DEF i, entry
<1> HIDE DEF at
<1>7. Homes(new, records)
  BY <1>3, <1>5, <1>6 DEF Homes
<1> QED
  BY <1>2, <1>4, <1>7 DEF put

(* A file that is taken makes a document.                                  *)
LEMMA FileLoaded ==
    ASSUME NEW doc, IsDocument(doc), NEW records, IsFile(records), ~ImportRefused(Parse(doc), records)
    PROVE  IsDocument(Loading(doc, records))
<1> DEFINE n == Len(records)
<1>1. n \in Nat /\ DOMAIN records = 1..n
  BY DEF IsFile
<1>2. PICK g : LoadSteps(g, doc, records) /\ Loading(doc, records) = g[n]
  BY <1>1, LoadingWalk
<1> HIDE DEF n
<1>3. /\ g[0] = doc
      /\ \A k \in Nat : k + 1 <= n =>
            g[k + 1] = ApplyDoc(g[k], Putting(records[k + 1].id, records[k + 1].entry))
  BY <1>2 DEF LoadSteps, n
<1> DEFINE N == {k \in Nat : k <= n => IsDocument(g[k]) /\ Homes(g[k], records)}
<1>4. N = Nat
  <2>1. N \in SUBSET Nat /\ 0 \in N
    BY <1>3, HomesStart
  <2>2. ASSUME NEW k \in N PROVE k + 1 \in N
    <3>1. k \in Nat /\ (k + 1 <= n => k <= n /\ k + 1 \in 1 .. n)
      BY <1>1
    <3>2. ASSUME k + 1 <= n PROVE IsDocument(g[k + 1]) /\ Homes(g[k + 1], records)
      <4>1. IsDocument(g[k]) /\ Homes(g[k], records) /\ k + 1 \in DOMAIN records
        BY <1>1, <3>1, <3>2
      <4>2. g[k + 1] = ApplyDoc(g[k], Putting(records[k + 1].id, records[k + 1].entry))
        BY <1>3, <3>1, <3>2
      <4> QED
        BY <4>1, <4>2, RecordLoaded
    <3> QED
      BY <3>1, <3>2
  <2> HIDE DEF N
  <2> QED
    BY <2>1, <2>2, Induction
<1> QED
  BY <1>1, <1>2, <1>4

-----------------------------------------------------------------------------
(* What suits and is solid stays so.                                       *)

(* What suits and is solid stays so, whatever else is put, if one object   *)
(* is put with one type.                                                   *)
SameType(put, other) ==
    put.id = other.id => /\ put.entry.kind = other.entry.kind
                         /\ TypeOf[put.entry.value] = TypeOf[other.entry.value]

(* What suits a configuration suits it after another put.                  *)
LEMMA SuitsNext ==
    ASSUME NEW c, IsConfig(c), NEW put, Suits(c, put), NEW other, Suits(c, other), SameType(put, other)
    PROVE  Suits(Apply(c, Putting(put.id, put.entry)), other)
<1> DEFINE cc == Upserted(c, OnePut(put))
           new == Apply(c, Putting(put.id, put.entry))
           i == put.id
           j == other.id
<1>1. IsPut(put) /\ IsPut(other)
  BY DEF Suits
<1>2. IsConfig(cc) /\ new = ReadBack(cc)
  BY <1>1, PuttingConfig
<1>3. cc = Upserted(c, OnePut(put))
  OBVIOUS
<1> HIDE DEF cc, new
<1>4. /\ DOMAIN cc = DOMAIN c \cup {put.id}
      /\ \A x \in DOMAIN c \ {put.id} : cc[x] = c[x]
      /\ put.id \notin DOMAIN c => cc[put.id] = put.entry
      /\ put.id \in DOMAIN c =>
            /\ cc[put.id].kind = c[put.id].kind
            /\ cc[put.id].value = IF put.entry.value = Nil THEN c[put.id].value ELSE put.entry.value
  BY <1>1, <1>2, <1>3, UpsertedOne, SMTT(60)
<1>5. ASSUME j \in DOMAIN new PROVE new[j].kind = other.entry.kind /\ TypeOf[new[j].value] = TypeOf[other.entry.value]
  <2>1. j \in DOMAIN cc /\ new[j].kind = cc[j].kind /\ new[j].value = cc[j].value
    BY <1>2, <1>5, ReadBackShape, ReadBackValue
  <2>2. CASE j # i
    <3>1. j \in DOMAIN c /\ cc[j] = c[j]
      BY <1>4, <2>1, <2>2
    <3> QED
      BY <2>1, <3>1 DEF Suits
  <2>3. CASE j = i
    <3>1. put.entry.kind = other.entry.kind /\ TypeOf[put.entry.value] = TypeOf[other.entry.value]
      BY <2>3 DEF SameType
    <3>2. CASE i \in DOMAIN c
      BY <1>4, <2>1, <2>3, <3>1, <3>2 DEF Suits
    <3>3. CASE i \notin DOMAIN c
      BY <1>4, <2>1, <2>3, <3>1, <3>3
    <3> QED
      BY <3>2, <3>3
  <2> QED
    BY <2>2, <2>3
<1> QED
  BY <1>1, <1>5 DEF Suits, new

(* What is solid in a document is so after another put.                    *)
LEMMA SolidNext ==
    ASSUME NEW d, IsDocument(d), NEW put, IsPut(put), PutsFit(Parse(d), OnePut(put)),
           NEW other, IsPut(other), Solid(d, other), SameType(put, other),
           NEW new, new = UpsertedDoc(d, OnePut(put))
    PROVE  Solid(new, other)
<1> DEFINE at == ElementOf(put.entry.kind, put.id)
           e == ElementOf(other.entry.kind, other.id)
           u == OnePut(put)
<1>1. /\ IdOf(at) = put.id /\ IdOf(e) = other.id
      /\ put.entry \in Entry /\ put.entry.fields \in [Fields -> SUBSET Members]
  BY PutFacts
<1>2. /\ DOMAIN new = DOMAIN d \cup {at}
      /\ \A x \in DOMAIN d : IdOf(x) # put.id => new[x] = d[x]
      /\ new[at] = Put(Old(d, at), put.entry)
  <2> DEFINE i == put.id
             entry == put.entry
  <2>1. DOMAIN u = {i} /\ u[i] = entry /\ PutsFit(Parse(d), u) /\ new = UpsertedDoc(d, u)
    BY DEF OnePut
  <2> HIDE DEF i, entry, u
  <2>2. /\ DOMAIN UpsertedDoc(d, u) = DOMAIN d \cup {ElementOf(entry.kind, i)}
        /\ \A x \in DOMAIN d : IdOf(x) # i => UpsertedDoc(d, u)[x] = d[x]
        /\ UpsertedDoc(d, u)[ElementOf(entry.kind, i)] = Put(Old(d, ElementOf(entry.kind, i)), entry)
    BY <2>1, UpsertedDocOne
  <2> QED
    BY <2>1, <2>2 DEF i, entry
<1>3. other.id = put.id => e = at
  BY DEF SameType
<1>4. e \in DOMAIN d => \A f \in Fields \ FilterFields :
        other.entry.fields[f] # {} => d[e].lists[f] = <<>> \/ Shown(d[e].lists[f]) # {}
  BY DEF Solid
<1>5. SUFFICES ASSUME e \in DOMAIN new, NEW f \in Fields \ FilterFields, other.entry.fields[f] # {}
               PROVE  new[e].lists[f] = <<>> \/ Shown(new[e].lists[f]) # {}
  BY DEF Solid
<1>6. e # at => e \in DOMAIN d /\ new[e] = d[e]
  BY <1>1, <1>2, <1>3, <1>5
<1>7. CASE e # at
  BY <1>4, <1>5, <1>6, <1>7
<1>8. CASE e = at
  <2> DEFINE el == Old(d, at)
             l == el.lists[f]
             m == put.entry.fields[f]
  <2>1. el \in Element /\ (l = <<>> \/ Shown(l) # {})
    <3>1. CASE e \in DOMAIN d
      BY <1>4, <1>5, <1>8, <3>1, DocumentEntry DEF Old
    <3>2. CASE e \notin DOMAIN d
      <4>1. el = Blank
        BY <1>8, <3>2 DEF Old
      <4> HIDE DEF el
      <4> QED
        BY <4>1, BlankElement
    <3> QED
      BY <3>1, <3>2
  <2> HIDE DEF el, at, e
  <2>2. new[e].lists[f] = PutList(l, m)
    <3>1. Put(el, put.entry) = [values |-> NewValues(el, put.entry), lists |-> NewLists(el, put.entry)]
      BY <1>1, <2>1, PutShape
    <3>2. Put(el, put.entry).lists[f] = NewLists(el, put.entry)[f]
      BY <3>1
    <3> QED
      BY <1>2, <1>8, <3>2 DEF NewLists, el
  <2>3. l \in Seq(SUBSET Members) /\ m \in SUBSET Members
    BY <1>1, <2>1 DEF Element
  <2> HIDE DEF l, m
  <2>4. PutList(l, m) = <<>> \/ Shown(PutList(l, m)) # {}
    <3>1. CASE m = {}
      BY <2>1, <2>3, <3>1, PutListShown
    <3>2. CASE m # {}
      BY <2>1, <2>3, <3>2, PutListShown
    <3> QED
      BY <3>1, <3>2
  <2> QED
    BY <2>2, <2>4 DEF e
<1> QED
  BY <1>7, <1>8

(* A file that is taken, gives one object one type and fills no emptied    *)
(* list does the same to both.                                             *)
LEMMA FileMatches ==
    ASSUME NEW doc, IsDocument(doc), NEW records, IsFile(records), ~ImportRefused(Parse(doc), records),
           \A j, k \in DOMAIN records : SameType(records[j], records[k]),
           \A k \in DOMAIN records : Solid(doc, records[k])
    PROVE  Parse(Loading(doc, records)) = Collected(Parse(doc), records)
<1> DEFINE n == Len(records)
           Good(d) == \A j \in DOMAIN records : Suits(Parse(d), records[j]) /\ Solid(d, records[j])
<1>1. n \in Nat /\ DOMAIN records = 1..n /\ \A j \in DOMAIN records : IsPut(records[j])
  BY DEF IsFile
<1>2. PICK g : LoadSteps(g, doc, records) /\ Loading(doc, records) = g[n]
  BY <1>1, LoadingWalk
<1>3. PICK h : CollectSteps(h, Parse(doc), records) /\ Collected(Parse(doc), records) = h[n]
  BY <1>1, CollectedWalk
<1>4. Homes(doc, records) /\ Good(doc)
  BY <1>1, HomesStart DEF Suits
<1> HIDE DEF n
<1>5. /\ g[0] = doc /\ h[0] = Parse(doc)
      /\ \A k \in Nat : k + 1 <= n =>
            /\ g[k + 1] = ApplyDoc(g[k], Putting(records[k + 1].id, records[k + 1].entry))
            /\ h[k + 1] = Apply(h[k], Putting(records[k + 1].id, records[k + 1].entry))
  BY <1>2, <1>3 DEF LoadSteps, CollectSteps, n
<1>6. ASSUME NEW d, IsDocument(d), Homes(d, records), Good(d), NEW k \in DOMAIN records,
             NEW new, new = ApplyDoc(d, Putting(records[k].id, records[k].entry))
      PROVE  /\ IsDocument(new) /\ Homes(new, records) /\ Good(new)
             /\ Parse(new) = Apply(Parse(d), Putting(records[k].id, records[k].entry))
  <2>1. /\ IsDocument(new) /\ Homes(new, records)
        /\ new = UpsertedDoc(d, OnePut(records[k])) /\ PutsFit(Parse(d), OnePut(records[k]))
    BY <1>6, RecordLoaded
  <2> DEFINE put == records[k]
  <2>2. Suits(Parse(d), put) /\ Solid(d, put) /\ IsPut(put) /\ IsConfig(Parse(d))
    BY <1>1, <1>6, ParseShape
  <2>3. \A j \in DOMAIN records : SameType(put, records[j])
    OBVIOUS
  <2>4. new = ApplyDoc(d, Putting(put.id, put.entry)) /\ new = UpsertedDoc(d, OnePut(put)) /\ PutsFit(Parse(d), OnePut(put))
    BY <1>6, <2>1
  <2> HIDE DEF put
  <2>5. Parse(ApplyDoc(d, Putting(put.id, put.entry))) = Apply(Parse(d), Putting(put.id, put.entry))
    BY <1>6, <2>2, PuttingMatches
  <2>6. Parse(new) = Apply(Parse(d), Putting(put.id, put.entry))
    BY <2>4, <2>5
  <2>7. ASSUME NEW j \in DOMAIN records PROVE Suits(Parse(new), records[j]) /\ Solid(new, records[j])
    <3>1. Suits(Parse(d), records[j]) /\ Solid(d, records[j]) /\ SameType(put, records[j]) /\ IsPut(records[j])
      BY <1>1, <1>6, <2>3
    <3>2. Suits(Apply(Parse(d), Putting(put.id, put.entry)), records[j])
      BY <2>2, <3>1, SuitsNext
    <3>3. Solid(new, records[j])
      BY <1>6, <2>2, <2>4, <3>1, SolidNext
    <3> QED
      BY <2>6, <3>2, <3>3
  <2> QED
    BY <2>1, <2>6, <2>7 DEF put
<1> DEFINE N == {k \in Nat : k <= n => /\ IsDocument(g[k]) /\ Homes(g[k], records) /\ Good(g[k])
                                       /\ Parse(g[k]) = h[k]}
<1> HIDE DEF Good
<1>7. N = Nat
  <2>1. N \in SUBSET Nat /\ 0 \in N
    BY <1>4, <1>5
  <2>2. ASSUME NEW k \in N PROVE k + 1 \in N
    <3>1. k \in Nat /\ (k + 1 <= n => k <= n /\ k + 1 \in 1 .. n)
      BY <1>1 DEF n
    <3>2. ASSUME k + 1 <= n
          PROVE  /\ IsDocument(g[k + 1]) /\ Homes(g[k + 1], records) /\ Good(g[k + 1])
                 /\ Parse(g[k + 1]) = h[k + 1]
      <4>1. /\ IsDocument(g[k]) /\ Homes(g[k], records) /\ Good(g[k]) /\ Parse(g[k]) = h[k]
            /\ k + 1 \in DOMAIN records
        BY <1>1, <3>1, <3>2 DEF n
      <4>2. /\ g[k + 1] = ApplyDoc(g[k], Putting(records[k + 1].id, records[k + 1].entry))
            /\ h[k + 1] = Apply(h[k], Putting(records[k + 1].id, records[k + 1].entry))
        BY <1>5, <3>1, <3>2
      <4>3. /\ IsDocument(g[k + 1]) /\ Homes(g[k + 1], records) /\ Good(g[k + 1])
            /\ Parse(g[k + 1]) = Apply(Parse(g[k]), Putting(records[k + 1].id, records[k + 1].entry))
        BY <1>6, <4>1, <4>2
      <4> QED
        BY <4>1, <4>2, <4>3
    <3> QED
      BY <3>1, <3>2
  <2> HIDE DEF N
  <2> QED
    BY <2>1, <2>2, Induction
<1>8. n \in Nat /\ n <= n
  BY <1>1 DEF n
<1> QED
  BY <1>2, <1>3, <1>7, <1>8

-----------------------------------------------------------------------------
(* The scan of the firewalls.                                              *)

(* What was asked is accounted for: every firewall asked or unqueryable is *)
(* in one of the three results, and an answer without lost rows is what    *)
(* the firewall held.                                                      *)
IsScan(s) ==
    s = [phase |-> s.phase, partial |-> s.partial, todo |-> s.todo, unreadable |-> s.unreadable,
         answers |-> s.answers, short |-> s.short, failed |-> s.failed, held |-> s.held]

Accounted(s) ==
    /\ s.answers = [f \in DOMAIN s.answers |-> s.answers[f]]
    /\ s.held = [f \in DOMAIN s.held |-> s.held[f]]
    /\ DOMAIN s.held = DOMAIN s.answers \cup s.failed \cup s.unreadable
    /\ s.todo \cap DOMAIN s.held = {}
    /\ s.todo \subseteq Firewalls
    /\ \A f \in DOMAIN s.answers \ s.short : s.answers[f] = s.held[f]

(* Firewalls are left to ask while a command is asking, and only then.     *)
Phased(s) ==
    /\ s.phase \in {"idle", "asking", "done"}
    /\ s.phase = "asking" <=> s.todo # {}

ScanInv ==
    registered \in [Firewalls -> Registrations] /\ IsScan(scan) /\ Accounted(scan) /\ Phased(scan)

(* No scan leaves nothing unaccounted for.                                 *)
LEMMA NothingAsked == IsScan(NoScan) /\ Accounted(NoScan) /\ Phased(NoScan)
BY DEF Accounted, NoScan, IsScan, Phased

(* The end of a scan forgets nothing.                                      *)
LEMMA ContinuedAccounted ==
    ASSUME NEW s, IsScan(s), Accounted(s), s.phase = "asking"
    PROVE  IsScan(Continued(s)) /\ Accounted(Continued(s)) /\ Phased(Continued(s))
<1>1. CASE Continued(s) = s /\ s.todo # {}
  BY <1>1 DEF Phased
<1>2. CASE Continued(s) = NoScan
  BY <1>2, NothingAsked
<1>3. CASE Continued(s) = [s EXCEPT !.phase = "done"] /\ s.todo = {}
  <2> DEFINE t == [s EXCEPT !.phase = "done"]
  <2>1. t = [phase |-> "done", partial |-> s.partial, todo |-> s.todo, unreadable |-> s.unreadable,
             answers |-> s.answers, short |-> s.short, failed |-> s.failed, held |-> s.held]
    BY DEF IsScan
  <2> HIDE DEF t
  <2>2. /\ t.answers = s.answers /\ t.held = s.held /\ t.failed = s.failed
        /\ t.unreadable = s.unreadable /\ t.todo = s.todo /\ t.short = s.short
    BY <2>1
  <2>3. IsScan(t) /\ Accounted(t) /\ Phased(t)
    <3>1. IsScan(t)
      BY <2>1 DEF IsScan
    <3>2. Phased(t)
      BY <1>3, <2>1 DEF Phased
    <3> QED
      BY <2>2, <3>1, <3>2 DEF Accounted
  <2> QED
    BY <1>3, <2>3 DEF t
<1> QED
  BY <1>1, <1>2, <1>3 DEF Continued

(* What asking one firewall records before its answer is looked at.        *)
LEMMA AskedShape ==
    ASSUME ScanInv, NEW f \in scan.todo
    PROVE  LET held == [g \in DOMAIN scan.held \cup {f} |->
                           IF g = f THEN registered[f] ELSE scan.held[g]]
           IN  /\ Asked(f) = [phase |-> scan.phase, partial |-> scan.partial,
                              todo |-> scan.todo \ {f}, unreadable |-> scan.unreadable,
                              answers |-> scan.answers, short |-> scan.short,
                              failed |-> scan.failed, held |-> held]
               /\ registered[f] \in [Values -> SUBSET Names]
               /\ f \notin DOMAIN scan.held /\ f \notin DOMAIN scan.answers
<1>1. registered[f] \in [Values -> SUBSET Names]
  BY RegistrationsAssumption DEF ScanInv, Accounted
<1>2. Asked(f) = [scan EXCEPT !.todo = scan.todo \ {f},
                             !.held = [g \in DOMAIN scan.held \cup {f} |->
                                          IF g = f THEN registered[f] ELSE scan.held[g]]]
  BY DEF Asked
<1> QED
  BY <1>1, <1>2 DEF ScanInv, IsScan, Accounted

(* Two fields changed at once, one field after the other.                  *)
LEMMA AnswerRecorded ==
    ASSUME NEW r, IsScan(r), NEW x, NEW y
    PROVE  [r EXCEPT !.answers = x, !.short = y]
             = [phase |-> r.phase, partial |-> r.partial, todo |-> r.todo, unreadable |-> r.unreadable, answers |-> x,
                short |-> y, failed |-> r.failed, held |-> r.held]
<1> DEFINE q == [r EXCEPT !.answers = x]
<1>1. q = [phase |-> r.phase, partial |-> r.partial, todo |-> r.todo, unreadable |-> r.unreadable, answers |-> x,
           short |-> r.short, failed |-> r.failed, held |-> r.held]
  BY DEF IsScan
<1>2. [r EXCEPT !.answers = x, !.short = y] = [q EXCEPT !.short = y]
  OBVIOUS
<1> HIDE DEF q
<1> QED
  BY <1>1, <1>2

(* The first record of a scan.                                             *)
LEMMA StartRecorded ==
    ASSUME NEW r, IsScan(r), NEW ph, NEW p, NEW t, NEW u, NEW k
    PROVE  [r EXCEPT !.phase = ph, !.partial = p, !.todo = t, !.unreadable = u, !.held = k]
             = [phase |-> ph, partial |-> p, todo |-> t, unreadable |-> u, answers |-> r.answers,
                short |-> r.short, failed |-> r.failed, held |-> k]
<1> DEFINE q == [r EXCEPT !.phase = ph, !.partial = p]
           s == [q EXCEPT !.todo = t, !.unreadable = u]
<1>1. q = [phase |-> ph, partial |-> p, todo |-> r.todo, unreadable |-> r.unreadable, answers |-> r.answers,
           short |-> r.short, failed |-> r.failed, held |-> r.held]
  <2> DEFINE o == [r EXCEPT !.phase = ph]
  <2>1. o = [phase |-> ph, partial |-> r.partial, todo |-> r.todo, unreadable |-> r.unreadable, answers |-> r.answers,
             short |-> r.short, failed |-> r.failed, held |-> r.held]
    BY DEF IsScan
  <2>2. q = [o EXCEPT !.partial = p]
    OBVIOUS
  <2> HIDE DEF o, q
  <2> QED
    BY <2>1, <2>2
<1>2. s = [phase |-> ph, partial |-> p, todo |-> t, unreadable |-> u, answers |-> r.answers,
           short |-> r.short, failed |-> r.failed, held |-> r.held]
  <2> DEFINE o == [q EXCEPT !.todo = t]
  <2> HIDE DEF q
  <2>1. o = [phase |-> ph, partial |-> p, todo |-> t, unreadable |-> r.unreadable, answers |-> r.answers,
             short |-> r.short, failed |-> r.failed, held |-> r.held]
    BY <1>1
  <2>2. s = [o EXCEPT !.unreadable = u]
    OBVIOUS
  <2> HIDE DEF o, s
  <2> QED
    BY <2>1, <2>2
<1>3. [r EXCEPT !.phase = ph, !.partial = p, !.todo = t, !.unreadable = u, !.held = k]
        = [s EXCEPT !.held = k]
  OBVIOUS
<1> HIDE DEF q, s
<1> QED
  BY <1>2, <1>3

(* A scan starts with every firewall to be asked or unqueryable.           *)
LEMMA StartInv ==
    ASSUME ScanInv, NEW p, NEW rows, StartScan(p, rows)
    PROVE  ScanInv'
<1> DEFINE unreadable == {f \in Firewalls : rows[f] = "unreadable"}
           held == [f \in unreadable |-> registered[f]]
           todo == {f \in Firewalls : rows[f] = "connected"}
           s == [NoScan EXCEPT !.phase = "asking", !.partial = p, !.todo = todo,
                               !.unreadable = unreadable, !.held = held]
<1>1. scan' = Continued(s) /\ registered' = registered
  BY DEF StartScan
<1>2. todo \cap unreadable = {} /\ todo \subseteq Firewalls
  OBVIOUS
<1>3. held = [f \in DOMAIN held |-> held[f]] /\ DOMAIN held = unreadable
  OBVIOUS
<1> HIDE DEF todo, unreadable, held
<1>4. s = [phase |-> "asking", partial |-> p, todo |-> todo, unreadable |-> unreadable,
           answers |-> <<>>, short |-> {}, failed |-> {}, held |-> held]
  <2> DEFINE r == NoScan
  <2>1. /\ IsScan(r)
        /\ r.answers = <<>> /\ r.short = {} /\ r.failed = {}
    BY NothingAsked DEF NoScan
  <2>2. s = [r EXCEPT !.phase = "asking", !.partial = p, !.todo = todo,
                      !.unreadable = unreadable, !.held = held]
    OBVIOUS
  <2> HIDE DEF r, s
  <2>3. s = [phase |-> "asking", partial |-> p, todo |-> todo, unreadable |-> unreadable,
             answers |-> r.answers, short |-> r.short, failed |-> r.failed, held |-> held]
    BY <2>1, <2>2, StartRecorded, ZenonT(60)
  <2> QED
    BY <2>1, <2>3
<1> HIDE DEF s
<1>5. IsScan(s) /\ Accounted(s) /\ s.phase = "asking"
  BY <1>2, <1>3, <1>4 DEF IsScan, Accounted
<1> QED
  BY <1>1, <1>5, ContinuedAccounted DEF ScanInv

(* An answer is recorded with what it leaves out.                          *)
LEMMA AnswerInv ==
    ASSUME ScanInv, NEW f \in Firewalls, NEW lost, Answer(f, lost)
    PROVE  ScanInv'
<1> DEFINE rows == [v \in Values |-> IF v \in lost THEN {} ELSE registered[f][v]]
           answers == Extended(scan.answers, f, rows)
           short == IF lost = {} THEN scan.short ELSE scan.short \cup {f}
           held == [g \in DOMAIN scan.held \cup {f} |-> IF g = f THEN registered[f] ELSE scan.held[g]]
           s == [Asked(f) EXCEPT !.answers = answers, !.short = short]
<1>1. f \in scan.todo /\ registered' = registered
  BY DEF Answer
<1>2. /\ Asked(f) = [phase |-> scan.phase, partial |-> scan.partial,
                     todo |-> scan.todo \ {f}, unreadable |-> scan.unreadable,
                     answers |-> scan.answers, short |-> scan.short,
                     failed |-> scan.failed, held |-> held]
      /\ registered[f] \in [Values -> SUBSET Names]
      /\ f \notin DOMAIN scan.held /\ f \notin DOMAIN scan.answers
  BY <1>1, AskedShape
<1>3. lost = {} => rows = registered[f]
  BY <1>2
<1>4. /\ answers = [g \in DOMAIN answers |-> answers[g]]
      /\ DOMAIN answers = DOMAIN scan.answers \cup {f}
      /\ answers[f] = rows /\ \A g \in DOMAIN scan.answers : g # f => answers[g] = scan.answers[g]
  BY DEF Extended
<1>5. /\ held = [g \in DOMAIN held |-> held[g]] /\ DOMAIN held = DOMAIN scan.held \cup {f}
      /\ held[f] = registered[f] /\ \A g \in DOMAIN scan.held : g # f => held[g] = scan.held[g]
  OBVIOUS
<1>6. scan' = Continued(s)
  BY <1>2 DEF Answer
<1> HIDE DEF rows, answers, held, short
<1>7. s = [phase |-> scan.phase, partial |-> scan.partial, todo |-> scan.todo \ {f},
           unreadable |-> scan.unreadable, answers |-> answers, short |-> short,
           failed |-> scan.failed, held |-> held]
  <2> DEFINE r == Asked(f)
  <2>1. IsScan(r) /\ r.phase = scan.phase /\ r.partial = scan.partial /\ r.todo = scan.todo \ {f}
        /\ r.unreadable = scan.unreadable /\ r.failed = scan.failed /\ r.held = held
    BY <1>2 DEF IsScan
  <2>2. s = [r EXCEPT !.answers = answers, !.short = short]
    OBVIOUS
  <2> HIDE DEF r, s
  <2> QED
    BY <2>1, <2>2, AnswerRecorded, ZenonT(60)
<1> HIDE DEF s
<1>8. IsScan(s) /\ s.phase = "asking"
  BY <1>1, <1>7 DEF IsScan, ScanInv, Phased
<1>9. Accounted(s)
  BY <1>1, <1>2, <1>3, <1>4, <1>5, <1>7 DEF ScanInv, Accounted, short
<1> QED
  BY <1>1, <1>6, <1>8, <1>9, ContinuedAccounted DEF ScanInv

(* A firewall that fails is recorded as failed.                            *)
LEMMA FailInv ==
    ASSUME ScanInv, NEW f \in Firewalls, Fail(f)
    PROVE  ScanInv'
<1> DEFINE held == [g \in DOMAIN scan.held \cup {f} |-> IF g = f THEN registered[f] ELSE scan.held[g]]
           s == [Asked(f) EXCEPT !.failed = scan.failed \cup {f}]
<1>1. f \in scan.todo /\ registered' = registered
  BY DEF Fail
<1>2. /\ Asked(f) = [phase |-> scan.phase, partial |-> scan.partial,
                     todo |-> scan.todo \ {f}, unreadable |-> scan.unreadable,
                     answers |-> scan.answers, short |-> scan.short,
                     failed |-> scan.failed, held |-> held]
      /\ f \notin DOMAIN scan.held /\ f \notin DOMAIN scan.answers
  BY <1>1, AskedShape
<1>3. scan' = Continued(s) \/ scan' = NoScan
  BY <1>2 DEF Fail
<1>4. /\ held = [g \in DOMAIN held |-> held[g]] /\ DOMAIN held = DOMAIN scan.held \cup {f}
      /\ \A g \in DOMAIN scan.held : g # f => held[g] = scan.held[g]
  OBVIOUS
<1> HIDE DEF held
<1>5. s = [phase |-> scan.phase, partial |-> scan.partial, todo |-> scan.todo \ {f},
           unreadable |-> scan.unreadable, answers |-> scan.answers, short |-> scan.short,
           failed |-> scan.failed \cup {f}, held |-> held]
  BY <1>2
<1> HIDE DEF s
<1>6. IsScan(s) /\ Accounted(s) /\ s.phase = "asking"
  <2>1. IsScan(s) /\ s.phase = "asking"
    BY <1>1, <1>5 DEF IsScan, ScanInv, Phased
  <2> QED
    BY <1>1, <1>2, <1>4, <1>5, <2>1 DEF ScanInv, Accounted
<1> QED
  BY <1>1, <1>3, <1>6, ContinuedAccounted, NothingAsked DEF ScanInv

(* Every step keeps the accounts of the scan.                              *)
LEMMA NextScanInv == ScanInv /\ [Next]_vars => ScanInv'
<1> SUFFICES ASSUME ScanInv, [Next]_vars PROVE ScanInv'
  OBVIOUS
<1>1. CASE registered' = registered /\ scan' = scan
  BY <1>1 DEF ScanInv
<1>2. CASE Scanning
  <2>1. CASE \E f \in Firewalls : \E rows \in Registrations : Register(f, rows)
    BY <2>1 DEF Register, ScanInv
  <2> QED
    BY <1>2, <2>1, StartInv, AnswerInv, FailInv DEF Scanning, ScanNext
<1>3. CASE UNCHANGED vars
  BY <1>1, <1>3 DEF vars
<1>4. CASE Next /\ ~Scanning
  BY <1>1, <1>4, ZenonT(60) DEF Next, Set, Import, EditGroup, EditRule, Rename, Delete, Cleanup, Purge,
                   Change, ReportUnused, Trace, Reporting
<1> QED
  BY <1>2, <1>3, <1>4

-----------------------------------------------------------------------------
(* The invariant and its preservation.                                     *)

(* The invariant: documents are readable, the partial document tracks the  *)
(* changes, and what is reported is there to be deleted.                   *)
HInv ==
    /\ medium \in {"file", "device"}
    /\ IsDocument(source) /\ IsDocument(document)
    /\ Tracks(source, partial, document)
    /\ partial.present \cap partial.removed = {}
    /\ changes \in 0..MaxChanges
    /\ changes = 0 => partial = NothingTouched
    /\ report.objects \subseteq DOMAIN cfg \cap ObjectIds

(* Nothing is recorded as both present and removed.                        *)
LEMMA RecordedDisjoint ==
    ASSUME NEW p, p.present \cap p.removed = {}, NEW c, NEW plan
    PROVE  Recorded(p, c, plan).present \cap Recorded(p, c, plan).removed = {}
<1>1. \A q, es : q.present \cap q.removed = {} =>
          /\ Presented(q, es).present \cap Presented(q, es).removed = {}
          /\ Removed(q, es).present \cap Removed(q, es).removed = {}
  BY DEF Presented, Removed
<1> DEFINE kind(i)    == IF i \in DOMAIN plan.upserts THEN plan.upserts[i].kind ELSE c[i].kind
           at(i)      == ElementOf(kind(i), i)
           referrers  == {k[1] : k \in {x \in DOMAIN plan.edits : c[x[1]].kind \in GroupKinds \cup RuleSpaces}}
           renamed(i) == [at(i) EXCEPT !.name = plan.renames[i]]
           es1 == {at(i) : i \in DOMAIN plan.upserts \cup referrers}
           es2 == {at(i) : i \in plan.ruleDeletes}
           es3 == {renamed(i) : i \in DOMAIN plan.renames}
           es4 == {at(i) : i \in DOMAIN plan.renames}
           es5 == {at(i) : i \in plan.deletes}
<1>2. Recorded(p, c, plan)
        = Removed(Removed(Presented(Removed(Presented(p, es1), es2), es3), es4), es5)
  BY DEF Recorded
<1> HIDE DEF es1, es2, es3, es4, es5
<1>3. Presented(p, es1).present \cap Presented(p, es1).removed = {}
  BY <1>1
<1> DEFINE q1 == Presented(p, es1)
           q2 == Removed(q1, es2)
           q3 == Presented(q2, es3)
           q4 == Removed(q3, es4)
           q5 == Removed(q4, es5)
<1>4. Recorded(p, c, plan) = q5
  BY <1>2
<1>5. q1.present \cap q1.removed = {}
  BY <1>3
<1> HIDE DEF q1
<1>6. q2.present \cap q2.removed = {}
  BY <1>1, <1>5
<1> HIDE DEF q2
<1>7. q3.present \cap q3.removed = {}
  BY <1>1, <1>6
<1> HIDE DEF q3
<1>8. q4.present \cap q4.removed = {}
  BY <1>1, <1>7
<1> HIDE DEF q4
<1>9. q5.present \cap q5.removed = {}
  BY <1>1, <1>8
<1> QED
  BY <1>4, <1>9

(* A change whose plan fits keeps the invariant.                           *)
LEMMA ChangeInv ==
    ASSUME HInv, NEW op, NEW plan, NEW puts, Change(op, plan, puts), Fits(cfg, plan)
    PROVE  HInv'
<1>1. /\ document' = ApplyDoc(document, plan) /\ partial' = Recorded(partial, cfg, plan)
      /\ changes' = changes + 1 /\ changes < MaxChanges
      /\ report' = NoReport /\ medium' = medium /\ source' = source
  BY DEF Change
<1>2. IsDocument(document) /\ Fits(Parse(document), plan) /\ Tracks(source, partial, document)
  BY DEF HInv, cfg
<1>3. IsDocument(ApplyDoc(document, plan))
  <2> DEFINE d1 == UpsertedDoc(document, plan.upserts)
             d2 == EditedDoc(d1, plan.edits)
             d3 == WithoutDoc(d2, plan.ruleDeletes)
             d4 == RenamedDoc(d3, plan.renames)
  <2>1. Stages(document, plan, d1, d2, d3, d4)
    BY DEF Stages
  <2> HIDE DEF d1, d2, d3, d4
  <2> QED
    BY <1>2, <2>1, StagesShape
<1>4. Tracks(source, Recorded(partial, Parse(document), plan), ApplyDoc(document, plan))
  BY <1>2, ChangeTracks
<1>5. partial'.present \cap partial'.removed = {}
  BY <1>1, RecordedDisjoint DEF HInv
<1>6. changes' \in 0..MaxChanges /\ changes' # 0
  BY <1>1, HousekeepingAssumption DEF HInv
<1>7. IsDocument(document') /\ Tracks(source', partial', document')
  BY <1>1, <1>3, <1>4 DEF cfg
<1>8. report'.objects = {}
  BY <1>1 DEF NoReport
<1> QED
  BY <1>1, <1>5, <1>6, <1>7, <1>8 DEF HInv

(* The plans of the changes fit.                                           *)
LEMMA SetFits ==
    ASSUME HInv, NEW put \in Puts, ~PlanPut(cfg, put.id, put.entry).blocked
    PROVE  /\ PlanPut(cfg, put.id, put.entry) = Putting(put.id, put.entry)
           /\ Fits(cfg, Putting(put.id, put.entry))
           /\ Suits(cfg, put)
<1>1. IsPut(put) /\ IsDocument(document)
  BY PutsAssumption DEF HInv
<1>2. Refusal.blocked = TRUE
  BY DEF Refusal, EmptyPlan
<1>3. /\ PlanPut(cfg, put.id, put.entry) = Putting(put.id, put.entry)
      /\ put.id \in DOMAIN cfg => cfg[put.id].kind = put.entry.kind
                                  /\ TypeOf[cfg[put.id].value] = TypeOf[put.entry.value]
  BY <1>2 DEF PlanPut, Taken
<1>4. Fits(Parse(document), Putting(put.id, put.entry))
  <2>1. put.id \in DOMAIN Parse(document) => Container(Parse(document)[put.id].kind) = Container(put.entry.kind)
    BY <1>3 DEF cfg
  <2> QED
    BY <1>1, <2>1, PuttingDoc
<1> QED
  BY <1>1, <1>3, <1>4 DEF Suits, cfg

(* The configuration read from the document has its type.                  *)
LEMMA ConfigRead == ASSUME HInv PROVE IsConfig(cfg)
BY ParseShape DEF HInv, cfg

(* A name is a member.                                                     *)
LEMMA NamesAreMembers == Names \subseteq Members
BY DEF Members

(* A purge of unused objects fits.                                         *)
LEMMA PurgeFits ==
    ASSUME HInv, NEW targets \in SUBSET ObjectIds,
           NEW cm, cm = [op |-> "purge", targets |-> targets, keepGroups |-> FALSE, keepRules |-> FALSE]
    PROVE  Revises(cfg, PlanTeardown(cfg, cm, Cascade(cfg, cm)))
<1>1. cm \in Commands
  BY DEF Commands
<1>2. IsConfig(cfg)
  BY ConfigRead
<1> QED
  BY <1>1, <1>2, TeardownFits

(* What a step changes, all in one: the changes and their plans.           *)
Changed(plan) ==
    \E op, puts :
        /\ Change(op, plan, puts) /\ op # "import"
        /\ \/ Revises(cfg, plan)
           \/ \E put : /\ puts = <<put>> /\ plan = Putting(put.id, put.entry)
                       /\ Suits(cfg, put) /\ Fits(cfg, plan)

(* The commands that change a configuration by a plan.                     *)
Changing == Set \/ EditGroup \/ EditRule \/ Rename \/ Delete \/ Cleanup

(* Each of them applies a plan that fits.                                  *)
LEMMA ChangingPlans ==
    ASSUME HInv, Changing
    PROVE  \E plan : Changed(plan)
<1>1. IsConfig(cfg)
  BY ConfigRead
<1>2. CASE Set
  <2>1. PICK put \in Puts : Change("set", PlanPut(cfg, put.id, put.entry), <<put>>)
    BY <1>2 DEF Set
  <2>2. ~PlanPut(cfg, put.id, put.entry).blocked
    BY <2>1 DEF Change
  <2>3. /\ PlanPut(cfg, put.id, put.entry) = Putting(put.id, put.entry)
        /\ Fits(cfg, Putting(put.id, put.entry)) /\ Suits(cfg, put)
    BY <2>2, SetFits
  <2>4. Changed(Putting(put.id, put.entry))
    <3>1. Change("set", Putting(put.id, put.entry), <<put>>)
      BY <2>1, <2>3
    <3> QED
      BY <2>3, <3>1 DEF Changed
  <2> QED
    BY <2>4
<1>3. CASE EditGroup
  <2>1. PICK g \in DOMAIN cfg, op \in {"add", "remove"}, member \in Names :
            Change("edit", PlanGroupMemberEdit(cfg, g.name, {g.loc}, op, member), <<>>)
    BY <1>3 DEF EditGroup
  <2>2. ~PlanGroupMemberEdit(cfg, g.name, {g.loc}, op, member).blocked
    BY <2>1 DEF Change
  <2>3. Revises(cfg, PlanGroupMemberEdit(cfg, g.name, {g.loc}, op, member))
    BY <1>1, <2>2, GroupEditFits, NamesAreMembers
  <2>4. Changed(PlanGroupMemberEdit(cfg, g.name, {g.loc}, op, member))
    BY <2>1, <2>3 DEF Changed
  <2> QED
    BY <2>4
<1>4. CASE EditRule
  <2>1. PICK r \in DOMAIN cfg, field \in EditableFields, op \in {"add", "remove"}, member \in Names :
            Change("edit", PlanRuleMemberEdit(cfg, r.name, {r.loc}, field, op, member), <<>>)
    BY <1>4 DEF EditRule
  <2>2. ~PlanRuleMemberEdit(cfg, r.name, {r.loc}, field, op, member).blocked
    BY <2>1 DEF Change
  <2>3. Revises(cfg, PlanRuleMemberEdit(cfg, r.name, {r.loc}, field, op, member))
    BY <1>1, <2>2, RuleEditFits, NamesAreMembers
  <2>4. Changed(PlanRuleMemberEdit(cfg, r.name, {r.loc}, field, op, member))
    BY <2>1, <2>3 DEF Changed
  <2> QED
    BY <2>4
<1>5. CASE Rename
  <2>1. PICK id \in DOMAIN cfg, new \in Names : Change("rename", PlanRename(cfg, id, new), <<>>)
    BY <1>5, HousekeepingAssumption DEF Rename
  <2>2. ~PlanRename(cfg, id, new).blocked
    BY <2>1 DEF Change
  <2>3. Revises(cfg, PlanRename(cfg, id, new))
    BY <1>1, <2>2, RenameFits
  <2>4. Changed(PlanRename(cfg, id, new))
    BY <2>1, <2>3 DEF Changed
  <2> QED
    BY <2>4
<1>6. ASSUME NEW op, op # "import", NEW targets \in SUBSET ObjectIds, Purge(cfg, op, targets)
      PROVE  \E plan : Changed(plan)
  <2> DEFINE cm == [op |-> "purge", targets |-> targets, keepGroups |-> FALSE, keepRules |-> FALSE]
             plan == PlanTeardown(cfg, cm, Cascade(cfg, cm))
  <2>1. Change(op, plan, <<>>)
    BY <1>6 DEF Purge
  <2>2. Revises(cfg, plan)
    BY PurgeFits
  <2> HIDE DEF plan
  <2>3. Changed(plan)
    BY <1>6, <2>1, <2>2 DEF Changed
  <2> QED
    BY <2>3
<1>7. CASE Delete
  BY <1>6, <1>7 DEF Delete
<1>8. CASE Cleanup
  <2>1. PICK targets \in {report.objects} \cup {{i} : i \in report.objects} : Purge(cfg, "cleanup", targets)
    BY <1>8 DEF Cleanup
  <2>2. targets \in SUBSET ObjectIds
    BY <2>1 DEF HInv
  <2> QED
    BY <1>6, <2>1, <2>2
<1> QED
  BY <1>2, <1>3, <1>4, <1>5, <1>7, <1>8 DEF Changing

-----------------------------------------------------------------------------
(* What is reported is in the configuration, and no rule.                  *)
LEMMA UnusedObjects ==
    ASSUME NEW c, IsConfig(c), NEW live, NEW kind \in ReportedKinds, NEW ignore
    PROVE  Unused(c, live, kind, ignore) \subseteq DOMAIN c \cap ObjectIds
<1>1. ASSUME NEW i \in DOMAIN c, i.space \in ObjectSpaces PROVE i \in ObjectIds
  <2>1. i \in Ids
    BY ConfigEntry
  <2> QED
    BY <1>1, <2>1 DEF Ids, ObjectIds
<1>2. CASE kind = "tag"
  <2>1. Unused(c, live, kind, ignore) = UnusedTags(c)
    BY <1>2 DEF Unused
  <2>2. \A i \in UnusedTags(c) : i \in DOMAIN c /\ i.space = "tag"
    BY DEF UnusedTags
  <2> QED
    BY <1>1, <2>1, <2>2 DEF ObjectSpaces
<1>3. CASE kind # "tag"
  <2>1. \A i \in Unused(c, live, kind, ignore) : i \in DOMAIN c /\ OfKind(c[i], kind)
    BY <1>3 DEF Unused
  <2>2. ASSUME NEW i \in DOMAIN c, OfKind(c[i], kind) PROVE i.space \in ObjectSpaces
    <3>1. c[i].kind \in {"address", "address-group", "dynamic-group", "service", "service-group"}
      BY <1>3, <2>2 DEF OfKind, ReportedKinds
    <3>2. SpaceOf(c[i].kind) = i.space
      BY ConfigEntry
    <3> QED
      BY <3>1, <3>2, SpaceOfFacts DEF ObjectSpaces
  <2> QED
    BY <1>1, <2>1, <2>2
<1> QED
  BY <1>2, <1>3

(* A report finds objects that are there.                                  *)
LEMMA ReportInv ==
    ASSUME HInv, NEW live, NEW verdict, NEW objects, NEW enabled,
           Reporting(live, verdict, objects, enabled), objects \subseteq DOMAIN cfg \cap ObjectIds
    PROVE  HInv'
<1>1. /\ report'.objects = objects
      /\ medium' = medium /\ source' = source /\ document' = document
      /\ partial' = partial /\ changes' = changes
  BY DEF Reporting
<1> QED
  BY <1>1 DEF HInv, cfg

(* A file of records keeps the invariant.                                  *)
LEMMA ImportInv == ASSUME HInv, Import PROVE HInv'
<1>1. PICK records \in Imports :
        /\ ~ImportRefused(cfg, records)
        /\ document' = Loading(document, records)
        /\ source' = document'
  BY DEF Import
<1>2. IsFile(records)
  BY PutsAssumption DEF IsFile
<1>3. IsDocument(document')
  BY <1>1, <1>2, FileLoaded DEF HInv, cfg
<1>4. /\ changes' = 1 /\ report' = NoReport /\ medium' = medium /\ partial' = partial /\ changes = 0
  BY DEF Import
<1>5. partial = NothingTouched
  BY <1>4 DEF HInv
<1>6. Tracks(source', partial', document')
  BY <1>1, <1>4, <1>5, TracksNothing
<1>7. changes' \in 0..MaxChanges
  BY <1>4, HousekeepingAssumption
<1>8. report'.objects = {}
  BY <1>4 DEF NoReport
<1> QED
  BY <1>1, <1>3, <1>4, <1>6, <1>7, <1>8 DEF HInv

(* Every step keeps the invariant.                                         *)
LEMMA NextHInv == HInv /\ [Next]_vars => HInv'
<1> SUFFICES ASSUME HInv, [Next]_vars PROVE HInv'
  OBVIOUS
<1>1. CASE Changing
  <2>1. PICK plan : Changed(plan)
    BY <1>1, ChangingPlans
  <2>2. PICK op, puts : Change(op, plan, puts) /\ Fits(cfg, plan)
    BY <2>1 DEF Changed, Revises
  <2> QED
    BY <2>2, ChangeInv
<1>2. CASE Import
  BY <1>2, ImportInv
<1>3. CASE Scanning
  BY <1>3 DEF Scanning, HInv, cfg
<1>4. CASE ReportUnused
  <2>1. PICK live \in BOOLEAN, ignore \in BOOLEAN, kind \in ReportedKinds :
            Reporting(live, "listed", Unused(cfg, Seen(live), kind, ignore), ignore)
    BY <1>4 DEF ReportUnused
  <2>2. Unused(cfg, Seen(live), kind, ignore) \subseteq DOMAIN cfg \cap ObjectIds
    BY ConfigRead, UnusedObjects
  <2> QED
    BY <2>1, <2>2, ReportInv
<1>5. CASE Trace
  <2>1. PICK live \in BOOLEAN, id \in DOMAIN cfg \cap ObjectIds :
            \E verdict, objects :
                /\ objects \subseteq {id}
                /\ Reporting(live, verdict, objects, FALSE)
    BY <1>5 DEF Trace
  <2> QED
    BY <2>1, ReportInv
<1>6. CASE UNCHANGED vars
  BY <1>6 DEF vars, HInv, cfg
<1> QED
  BY <1>1, <1>2, <1>3, <1>4, <1>5, <1>6 DEF Next, Changing

(* The invariants hold at the start.                                       *)
LEMMA InitHInv == Init => HInv /\ ScanInv
<1> SUFFICES ASSUME Init PROVE HInv /\ ScanInv
  OBVIOUS
<1>1. /\ medium \in {"file", "device"} /\ IsDocument(source)
      /\ registered \in [Firewalls -> Registrations]
  BY HousekeepingAssumption DEF Init
<1>2. /\ document = source /\ partial = NothingTouched /\ changes = 0
      /\ report.objects = {} /\ scan = NoScan
  BY DEF Init, NoReport
<1>3. Tracks(source, partial, document) /\ partial.present \cap partial.removed = {}
  BY <1>2, TracksNothing DEF NothingTouched
<1>4. changes \in 0..MaxChanges
  BY <1>2, HousekeepingAssumption
<1> QED
  BY <1>1, <1>2, <1>3, <1>4, NothingAsked DEF HInv, ScanInv

-----------------------------------------------------------------------------
(* What the rules reach.                                                   *)

(* What a name resolves to is defined in the namespace it is looked up in. *)
LEMMA ResolvedIn ==
    ASSUME NEW c, IsConfig(c), NEW space \in Spaces, NEW name, NEW loc \in Locs,
           Resolve(DOMAIN c, space, name, loc) # Nil
    PROVE  /\ name \in Names
           /\ Resolve(DOMAIN c, space, name, loc) \in DOMAIN c
           /\ Resolve(DOMAIN c, space, name, loc).space = space
<1>1. PICK k \in DOMAIN Chain[loc] : Slot(space, name, Chain[loc][k]) \in DOMAIN c
  BY DEF Resolve
<1>2. Slot(space, name, Chain[loc][k]) \in Ids
  BY <1>1 DEF IsConfig
<1>3. name \in Names
  BY <1>2 DEF Slot, Ids
<1>4. Resolve(DOMAIN c, space, name, loc) \in DOMAIN c
  BY <1>3, ResolveProperties
<1>5. Resolve(DOMAIN c, space, name, loc).space = space
  BY DEF Resolve, Slot
<1> QED
  BY <1>3, <1>4, <1>5

(* The list of a group's members, by kind.                                 *)
Named(c, i) == UNION {c[i].fields[f] : f \in Walked(c[i].kind) \cap {"static", "members"}}

(* Only the groups that are written out name their members.                *)
LEMMA NamedFacts ==
    ASSUME NEW c, IsConfig(c), NEW i \in DOMAIN c
    PROVE  /\ c[i].kind = "address-group" => Named(c, i) = c[i].fields["static"]
           /\ c[i].kind = "service-group" => Named(c, i) = c[i].fields["members"]
           /\ c[i].kind \notin {"address-group", "service-group"} => Named(c, i) = {}
<1>1. c[i].kind \in Kinds
  BY ConfigEntry
<1>2. /\ c[i].kind = "address-group" => Walked(c[i].kind) \cap {"static", "members"} = {"static"}
      /\ c[i].kind = "service-group" => Walked(c[i].kind) \cap {"static", "members"} = {"members"}
      /\ c[i].kind \notin {"address-group", "service-group"}
            => Walked(c[i].kind) \cap {"static", "members"} = {}
  BY <1>1, WalkedFacts DEF Kinds, RuleSpaces
<1> QED
  BY <1>2 DEF Named

(* A group contains objects of its namespace, nothing else contains any.   *)
LEMMA MembersFacts ==
    ASSUME NEW c, IsConfig(c), NEW live, NEW i \in DOMAIN c
    PROVE  /\ SpaceOf(c[i].kind) = c[i].kind => MembersOf(c, live, i) = {}
           /\ \A m \in MembersOf(c, live, i) : m \in DOMAIN c /\ m.space \in {"address", "service"}
           /\ MembersOf(c, live, i) =
                (IF c[i].kind = "dynamic-group" THEN Selected(c, live, i) ELSE {})
                \cup ({Resolve(DOMAIN c, i.space, n, i.loc) : n \in Named(c, i)} \ {Nil})
<1>1. /\ c[i].kind \in Kinds /\ i \in Ids /\ SpaceOf(c[i].kind) = i.space
      /\ i.space \in Spaces /\ i.loc \in Locs
  BY ConfigEntry DEF Ids
<1>2. MembersOf(c, live, i) =
        (IF c[i].kind = "dynamic-group" THEN Selected(c, live, i) ELSE {})
        \cup ({Resolve(DOMAIN c, i.space, n, i.loc) : n \in Named(c, i)} \ {Nil})
  BY DEF MembersOf, Named
<1>3. SpaceOf(c[i].kind) = c[i].kind => c[i].kind \notin {"address-group", "service-group", "dynamic-group"}
  BY SpaceOfFacts
<1>4. SpaceOf(c[i].kind) = c[i].kind => MembersOf(c, live, i) = {}
  BY <1>2, <1>3, NamedFacts
<1>5. \A m \in Selected(c, live, i) : m \in DOMAIN c /\ m.space = "address"
  <2>1. \A m \in Selected(c, live, i) : m \in DOMAIN c /\ c[m].kind = "address"
    BY DEF Selected, DagMembers
  <2> QED
    BY <2>1, ConfigEntry, SpaceOfFacts
<1>6. ASSUME NEW n \in Named(c, i), Resolve(DOMAIN c, i.space, n, i.loc) # Nil
      PROVE  /\ Resolve(DOMAIN c, i.space, n, i.loc) \in DOMAIN c
             /\ Resolve(DOMAIN c, i.space, n, i.loc).space \in {"address", "service"}
  <2>1. c[i].kind \in {"address-group", "service-group"}
    BY <1>6, NamedFacts
  <2>2. i.space \in {"address", "service"}
    BY <2>1, <1>1, SpaceOfFacts
  <2> QED
    BY <2>2, <1>1, <1>6, ResolvedIn
<1> QED
  BY <1>2, <1>4, <1>5, <1>6

-----------------------------------------------------------------------------
(* The walk down from some objects.                                        *)

(* The groups of a configuration: the longest way down.                    *)
GroupsOf(c) == {i \in DOMAIN c : SpaceOf(c[i].kind) # c[i].kind}

(* A walk down, one level at a time.                                       *)
Descends(b, c, live, tops) ==
    /\ b[0] = tops
    /\ \A n \in Nat : n + 1 <= Cardinality(GroupsOf(c)) => b[n + 1] = b[n] \cup Contents(c, live, b[n])

(* What is below is what such a walk ends with.                            *)
LEMMA BelowWalk ==
    ASSUME NEW c, NEW live, NEW tops, Cardinality(GroupsOf(c)) \in Nat
    PROVE  \E b : Descends(b, c, live, tops) /\ Below(c, live, tops) = b[Cardinality(GroupsOf(c))]
<1> DEFINE depth == Cardinality(GroupsOf(c))
           step(s) == s \cup Contents(c, live, s)
           Walk(g, n) == g = [k \in 0 .. n |-> IF k = 0 THEN tops ELSE step(g[k - 1])]
           G(n) == \E g : Walk(g, n)
           upTo == CHOOSE g : Walk(g, depth)
           N == {n \in Nat : G(n)}
<1>1. Below(c, live, tops) = upTo[depth]
  BY DEF Below, GroupsOf
<1> HIDE DEF step
<1>2. G(0)
  <2> DEFINE g == [k \in 0 .. 0 |-> tops]
  <2>1. Walk(g, 0)
    OBVIOUS
  <2> QED
    BY <2>1
<1>3. ASSUME NEW n \in Nat, G(n) PROVE G(n + 1)
  <2>1. PICK g : Walk(g, n)
    BY <1>3
  <2> DEFINE h == [k \in 0 .. n + 1 |-> IF k = n + 1 THEN step(g[n]) ELSE g[k]]
  <2>2. ASSUME NEW k \in 0 .. n + 1
        PROVE  h[k] = IF k = 0 THEN tops ELSE step(h[k - 1])
    BY <2>1
  <2>3. Walk(h, n + 1)
    <3>1. h = [k \in 0 .. n + 1 |-> h[k]]
      OBVIOUS
    <3> HIDE DEF h
    <3> QED
      BY <3>1, <2>2
  <2> QED
    BY <2>3
<1> HIDE DEF G
<1>4. G(depth)
  <2>1. N \in SUBSET Nat /\ 0 \in N /\ \A n \in N : n + 1 \in N
    BY <1>2, <1>3
  <2> HIDE DEF N
  <2>2. N = Nat
    BY <2>1, Induction
  <2> QED
    BY <2>2 DEF N
<1>5. Walk(upTo, depth)
  <2> HIDE DEF Walk
  <2> QED
    BY <1>4 DEF G
<1> HIDE DEF upTo
<1>6. upTo[0] = tops /\ \A k \in Nat : k + 1 <= depth => upTo[k + 1] = step(upTo[k])
  BY <1>5
<1> QED
  BY <1>1, <1>6 DEF Descends, step

(* The groups of a configuration are finitely many.                        *)
LEMMA GroupsFinite ==
    ASSUME NEW c, IsConfig(c)
    PROVE  IsFiniteSet(GroupsOf(c)) /\ Cardinality(GroupsOf(c)) \in Nat
<1>1. GroupsOf(c) \in SUBSET Ids
  BY DEF GroupsOf, IsConfig
<1>2. IsFiniteSet(GroupsOf(c))
  BY <1>1, FiniteAssumption, FS_Subset
<1> QED
  BY <1>2, FS_CardinalityType

(* Everything below some objects: it holds them and what its members       *)
(* contain, and nothing that another such set could do without.            *)
LEMMA BelowIsLeast ==
    ASSUME NEW c, IsConfig(c), NEW live, NEW tops \in SUBSET DOMAIN c
    PROVE  /\ tops \subseteq Below(c, live, tops)
           /\ Below(c, live, tops) \subseteq DOMAIN c
           /\ Contents(c, live, Below(c, live, tops)) \subseteq Below(c, live, tops)
           /\ \A s : tops \subseteq s /\ Contents(c, live, s) \subseteq s => Below(c, live, tops) \subseteq s
<1> DEFINE depth == Cardinality(GroupsOf(c))
           In(s) == Contents(c, live, s)
<1>1. depth \in Nat /\ IsFiniteSet(GroupsOf(c))
  BY GroupsFinite
<1>2. PICK b : Descends(b, c, live, tops) /\ Below(c, live, tops) = b[depth]
  BY <1>1, BelowWalk
<1>3. b[0] = tops /\ \A n \in Nat : n + 1 <= depth => b[n + 1] = b[n] \cup In(b[n])
  BY <1>2 DEF Descends
<1>4. \A s, t : s \subseteq t => In(s) \subseteq In(t)
  BY DEF Contents
<1>5. \A s \in SUBSET DOMAIN c : In(s) \subseteq DOMAIN c
  BY MembersFacts DEF Contents
<1>6. \A s, t \in SUBSET DOMAIN c : s \cap GroupsOf(c) \subseteq t => In(s) \subseteq In(t)
  <2>1. \A i \in DOMAIN c : MembersOf(c, live, i) # {} => i \in GroupsOf(c)
    BY MembersFacts DEF GroupsOf
  <2> QED
    BY <2>1 DEF Contents
<1> HIDE DEF In
<1> DEFINE N == {n \in Nat : n <= depth =>
                  /\ tops \subseteq b[n] /\ b[n] \subseteq DOMAIN c
                  /\ \A s : tops \subseteq s /\ In(s) \subseteq s => b[n] \subseteq s
                  /\ \/ In(b[n]) \subseteq b[n]
                     \/ Cardinality(b[n] \cap GroupsOf(c)) >= n + 1}
<1>7. \A s : IsFiniteSet(s \cap GroupsOf(c)) /\ Cardinality(s \cap GroupsOf(c)) \in Nat
             /\ Cardinality(s \cap GroupsOf(c)) <= depth
  <2>1. \A s : s \cap GroupsOf(c) \in SUBSET GroupsOf(c)
    OBVIOUS
  <2> QED
    BY <2>1, <1>1, FS_Subset, FS_CardinalityType
<1>8. 0 \in N
  <2>1. ASSUME ~(In(tops) \subseteq tops) PROVE Cardinality(tops \cap GroupsOf(c)) >= 1
    <3>1. tops \cap GroupsOf(c) # {}
      <4> SUFFICES ASSUME tops \cap GroupsOf(c) = {} PROVE In(tops) \subseteq tops
        BY <2>1
      <4>1. In(tops) \subseteq In({})
        BY <1>6
      <4>2. In({}) = {}
        BY DEF In, Contents
      <4> QED
        BY <4>1, <4>2
    <3>2. Cardinality(tops \cap GroupsOf(c)) # 0
      BY <3>1, <1>7, FS_EmptySet
    <3> QED
      BY <3>2, <1>7
  <2> QED
    BY <2>1, <1>3
<1>9. ASSUME NEW n \in N PROVE n + 1 \in N
  <2> SUFFICES ASSUME n + 1 <= depth
               PROVE  /\ tops \subseteq b[n + 1] /\ b[n + 1] \subseteq DOMAIN c
                      /\ \A s : tops \subseteq s /\ In(s) \subseteq s => b[n + 1] \subseteq s
                      /\ \/ In(b[n + 1]) \subseteq b[n + 1]
                         \/ Cardinality(b[n + 1] \cap GroupsOf(c)) >= n + 2
    OBVIOUS
  <2>1. /\ n \in Nat /\ n <= depth /\ tops \subseteq b[n] /\ b[n] \subseteq DOMAIN c
        /\ \A s : tops \subseteq s /\ In(s) \subseteq s => b[n] \subseteq s
        /\ \/ In(b[n]) \subseteq b[n]
           \/ Cardinality(b[n] \cap GroupsOf(c)) >= n + 1
    BY <1>1
  <2>2. b[n + 1] = b[n] \cup In(b[n])
    BY <1>3, <2>1
  <2>3. tops \subseteq b[n + 1] /\ b[n + 1] \subseteq DOMAIN c
    BY <2>1, <2>2, <1>5
  <2>4. ASSUME NEW s, tops \subseteq s, In(s) \subseteq s PROVE b[n + 1] \subseteq s
    <3>1. b[n] \subseteq s
      BY <2>1, <2>4
    <3>2. In(b[n]) \subseteq In(s)
      BY <3>1, <1>4
    <3> QED
      BY <3>1, <3>2, <2>2, <2>4
  <2>5. CASE In(b[n]) \subseteq b[n]
    <3>1. b[n + 1] = b[n]
      BY <2>2, <2>5
    <3> QED
      BY <3>1, <2>3, <2>4, <2>5
  <2>6. CASE Cardinality(b[n] \cap GroupsOf(c)) >= n + 1 /\ b[n + 1] \cap GroupsOf(c) = b[n] \cap GroupsOf(c)
    <3>1. In(b[n + 1]) \subseteq In(b[n])
      BY <2>1, <2>3, <2>6, <1>6
    <3>2. In(b[n + 1]) \subseteq b[n + 1]
      BY <3>1, <2>2
    <3> QED
      BY <3>2, <2>3, <2>4
  <2>7. CASE Cardinality(b[n] \cap GroupsOf(c)) >= n + 1 /\ b[n + 1] \cap GroupsOf(c) # b[n] \cap GroupsOf(c)
    <3>1. b[n] \cap GroupsOf(c) \in SUBSET (b[n + 1] \cap GroupsOf(c))
      BY <2>2
    <3>2. Cardinality(b[n] \cap GroupsOf(c)) <= Cardinality(b[n + 1] \cap GroupsOf(c))
          /\ Cardinality(b[n] \cap GroupsOf(c)) # Cardinality(b[n + 1] \cap GroupsOf(c))
      BY <3>1, <2>7, <1>7, FS_Subset
    <3>3. Cardinality(b[n + 1] \cap GroupsOf(c)) >= n + 2
      BY <3>2, <2>1, <2>7, <1>7
    <3> QED
      BY <3>3, <2>3, <2>4
  <2> QED
    BY <2>1, <2>5, <2>6, <2>7
<1>10. N = Nat
  <2>1. N \in SUBSET Nat /\ 0 \in N /\ \A n \in N : n + 1 \in N
    BY <1>8, <1>9
  <2> HIDE DEF N
  <2> QED
    BY <2>1, Induction
<1>11. /\ tops \subseteq b[depth] /\ b[depth] \subseteq DOMAIN c
       /\ \A s : tops \subseteq s /\ In(s) \subseteq s => b[depth] \subseteq s
       /\ \/ In(b[depth]) \subseteq b[depth]
          \/ Cardinality(b[depth] \cap GroupsOf(c)) >= depth + 1
  <2>1. depth \in N
    BY <1>1, <1>10
  <2> QED
    BY <2>1
<1>12. ~(Cardinality(b[depth] \cap GroupsOf(c)) >= depth + 1)
  <2>1. Cardinality(b[depth] \cap GroupsOf(c)) \in Nat /\ Cardinality(b[depth] \cap GroupsOf(c)) <= depth
    BY <1>7
  <2> HIDE DEF depth
  <2> QED
    BY <2>1, <1>1
<1>13. In(b[depth]) \subseteq b[depth]
  BY <1>11, <1>12
<1> QED
  BY <1>2, <1>11, <1>13 DEF In

-----------------------------------------------------------------------------
(* What is unused.                                                         *)

(* What the rules name is defined.                                         *)
LEMMA SeedsFacts ==
    ASSUME NEW c, IsConfig(c), NEW ignore
    PROVE  RuleSeeds(c, ignore) \in SUBSET DOMAIN c
<1>1. ASSUME NEW r \in Refs(c), Target(DOMAIN c, r) # Nil PROVE Target(DOMAIN c, r) \in DOMAIN c
  BY <1>1, RefsType, ResolvedIn DEF Target
<1> QED
  BY <1>1 DEF RuleSeeds

(* What the rules reach holds what they name and all that it contains, and *)
(* nothing that another such set could do without.                         *)
LEMMA ReachedFacts ==
    ASSUME NEW c, IsConfig(c), NEW live, NEW ignore,
           NEW R, R = ReachedByRules(c, live, ignore)
    PROVE  /\ RuleSeeds(c, ignore) \subseteq R /\ R \subseteq DOMAIN c
           /\ \A i \in R : MembersOf(c, live, i) \subseteq R
           /\ \A s : RuleSeeds(c, ignore) \subseteq s /\ Contents(c, live, s) \subseteq s => R \subseteq s
<1> DEFINE tops == RuleSeeds(c, ignore)
           B == Below(c, live, tops)
<1>1. tops \in SUBSET DOMAIN c
  BY SeedsFacts
<1> HIDE DEF tops
<1>2. /\ tops \subseteq B /\ B \subseteq DOMAIN c /\ Contents(c, live, B) \subseteq B
      /\ \A s : tops \subseteq s /\ Contents(c, live, s) \subseteq s => B \subseteq s
  BY <1>1, BelowIsLeast
<1>3. R = B
  BY DEF ReachedByRules, tops
<1> HIDE DEF B
<1>4. \A i \in B : MembersOf(c, live, i) \subseteq B
  BY <1>2 DEF Contents
<1> QED
  BY <1>2, <1>3, <1>4 DEF tops

(* A reference is a rule's, a tag's, or a member's of a group.             *)
LEMMA RefKinds ==
    ASSUME NEW c, IsConfig(c), NEW live, NEW r \in Refs(c), Target(DOMAIN c, r) # Nil
    PROVE  /\ Target(DOMAIN c, r) \in DOMAIN c /\ Target(DOMAIN c, r).space = NsOf(r.field)
           /\ \/ r.by.space \in RuleSpaces
              \/ r.field = "tag" /\ Target(DOMAIN c, r).space = "tag"
              \/ Target(DOMAIN c, r) \in MembersOf(c, live, r.by)
<1>1. /\ r.by \in DOMAIN c /\ r.by \in Ids /\ r.by.loc \in Locs /\ r.field \in Walked(c[r.by].kind)
      /\ r.name \in Names /\ r.name \in c[r.by].fields[r.field] /\ NsOf(r.field) \in Spaces
  BY RefsType
<1>2. c[r.by].kind \in Kinds /\ SpaceOf(c[r.by].kind) = r.by.space
  BY <1>1, ConfigEntry
<1>3. Target(DOMAIN c, r) \in DOMAIN c /\ Target(DOMAIN c, r).space = NsOf(r.field)
  BY <1>1, ResolvedIn DEF Target
<1>4. CASE c[r.by].kind \in RuleSpaces
  BY <1>2, <1>3, <1>4, SpaceOfFacts
<1>5. CASE c[r.by].kind \notin RuleSpaces /\ r.field = "tag"
  BY <1>3, <1>5, NsOfFacts
<1>6. CASE c[r.by].kind \notin RuleSpaces /\ r.field # "tag"
  <2>1. \/ c[r.by].kind = "address-group" /\ r.field = "static"
        \/ c[r.by].kind = "service-group" /\ r.field = "members"
    BY <1>1, <1>2, <1>6, WalkedFacts DEF Kinds
  <2>2. r.name \in Named(c, r.by)
    BY <1>1, <2>1, NamedFacts
  <2>3. NsOf(r.field) = r.by.space
    BY <1>2, <2>1, NsOfFacts, SpaceOfFacts
  <2>4. Target(DOMAIN c, r) = Resolve(DOMAIN c, r.by.space, r.name, r.by.loc)
    BY <2>3 DEF Target
  <2>5. Target(DOMAIN c, r) \in {Resolve(DOMAIN c, r.by.space, n, r.by.loc) : n \in Named(c, r.by)} \ {Nil}
    BY <2>2, <2>4
  <2> QED
    BY <1>1, <1>3, <2>5, MembersFacts
<1> QED
  BY <1>4, <1>5, <1>6

-----------------------------------------------------------------------------
(* A report is of the configuration that is there.                         *)
Reported ==
    /\ report.verdict = "listed" =>
          \E kind \in ReportedKinds :
             report.objects = Unused(cfg, Seen(report.live), kind, report.enabledOnly)
    /\ report.verdict = "unused" =>
          \E id \in DOMAIN cfg \cap ObjectIds :
             report.objects = {id} /\ ReferrersOf(cfg, Seen(report.live), id) = {}
    /\ report.live => scan.phase = "done"

(* Without a report there is nothing to show.                              *)
LEMMA NoReported == ASSUME report' = NoReport PROVE Reported'
BY DEF Reported, NoReport

(* A report stands as long as nothing changes.                             *)
LEMMA StillReported ==
    ASSUME Reported, UNCHANGED <<report, document, scan>> PROVE Reported'
BY DEF Reported, cfg, Seen

(* Every step keeps the report of the configuration that is there.         *)
LEMMA NextReported == Reported /\ [Next]_vars => Reported'
<1> SUFFICES ASSUME Reported, [Next]_vars PROVE Reported'
  OBVIOUS
<1>1. \A op, plan, puts : Change(op, plan, puts) => report' = NoReport
  BY DEF Change
<1>2. CASE Changing
  <2>1. report' = NoReport
    BY <1>1, <1>2 DEF Changing, Set, EditGroup, EditRule, Rename, Delete, Cleanup, Purge
  <2> QED
    BY <2>1, NoReported
<1>3. CASE Import
  BY <1>3, NoReported DEF Import
<1>4. CASE Scanning
  BY <1>4, NoReported DEF Scanning
<1>5. CASE ReportUnused
  <2>1. PICK live \in BOOLEAN, ignore \in BOOLEAN, kind \in ReportedKinds :
            Reporting(live, "listed", Unused(cfg, Seen(live), kind, ignore), ignore)
    BY <1>5 DEF ReportUnused
  <2>2. /\ report'.verdict = "listed" /\ report'.live = live /\ report'.enabledOnly = ignore
        /\ report'.objects = Unused(cfg, Seen(live), kind, ignore)
        /\ live => scan.phase = "done"
        /\ scan' = scan /\ document' = document
    BY <2>1 DEF Reporting
  <2> QED
    BY <2>2 DEF Reported, cfg, Seen
<1>6. CASE Trace
  <2>1. PICK live \in BOOLEAN, id \in DOMAIN cfg \cap ObjectIds :
            Reporting(live,
                IF ReferrersOf(cfg, Seen(live), id) # {} THEN "used"
                ELSE IF live /\ IsPartial(scan) THEN "unknown" ELSE "unused",
                IF ReferrersOf(cfg, Seen(live), id) = {} THEN {id} ELSE {}, FALSE)
    BY <1>6 DEF Trace
  <2>2. /\ report'.verdict \in {"used", "unknown", "unused"} /\ report'.live = live
        /\ report'.verdict = "unused" =>
              ReferrersOf(cfg, Seen(live), id) = {} /\ report'.objects = {id}
        /\ live => scan.phase = "done"
        /\ scan' = scan /\ document' = document
    BY <2>1 DEF Reporting
  <2> QED
    BY <2>2 DEF Reported, cfg, Seen
<1>7. CASE UNCHANGED vars
  BY <1>7, StillReported DEF vars
<1> QED
  BY <1>2, <1>3, <1>4, <1>5, <1>6, <1>7 DEF Next, Changing

-----------------------------------------------------------------------------
(* What a firewall holds is selected, if the scan has no gap.              *)
LEMMA HoldsSelected ==
    ASSUME HInv, ScanInv, Reported, GapsAreSaid, ~(report.live /\ IsPartial(scan)),
           NEW g \in DOMAIN cfg, NEW a \in DOMAIN cfg, cfg[a].kind = "address",
           NEW tags \in TagsOf(cfg, a), Holds(cfg, tags, g, a)
    PROVE  a \in Selected(cfg, Seen(report.live), g)
<1> DEFINE c == cfg
           v == c[a].value
<1>1. IsConfig(c)
  BY ConfigRead
<1> HIDE DEF c
<1>2. CASE a \in DagMembers(c, g)
  BY <1>2 DEF Selected, c
<1>3. CASE a \notin DagMembers(c, g)
  <2>1. /\ tags # {}
        /\ IsShared(g.loc) \/ \E k \in DOMAIN Chain[g.loc] : Chain[g.loc][k] = a.loc
        /\ Satisfies(c[g], c[a].fields["tag"] \cup tags)
    BY <1>3 DEF Holds, c
  <2>2. report.live /\ v # Nil /\ \E f \in DOMAIN scan.held : tags = scan.held[f][v]
    BY <2>1 DEF TagsOf, c
  <2>3. c[a] \in Entry
    BY <1>1, ConfigEntry DEF c
  <2>4. v \in Values
    BY <2>2, <2>3 DEF Entry
  <2>5. scan.answers = scan.held
    BY <2>2 DEF GapsAreSaid, Reported
  <2>6. tags \in ByKey(scan)[v]
    <3>1. PICK f \in DOMAIN scan.answers : tags = scan.answers[f][v]
      BY <2>2, <2>5
    <3>2. tags \in {scan.answers[h][v] : h \in DOMAIN scan.answers} \ {{}}
      BY <2>1, <3>1
    <3>3. ByKey(scan)[v] = {scan.answers[h][v] : h \in DOMAIN scan.answers} \ {{}}
      BY <2>2, <2>4 DEF ByKey
    <3> QED
      BY <3>2, <3>3
  <2>7. Seen(report.live) = ByKey(scan)
    BY <2>2 DEF Seen
  <2>8. MatchesLive(c, Seen(report.live), g, a)
    BY <2>1, <2>6, <2>7 DEF MatchesLive
  <2>9. a \in DOMAIN c /\ c[a].kind = "address"
    BY DEF c
  <2>10. a \in Selected(c, Seen(report.live), g)
    BY <2>1, <2>8, <2>9 DEF Selected
  <2> QED
    BY <2>10 DEF c
<1> QED
  BY <1>2, <1>3

(* One object without referrers is isolated.                               *)
LEMMA TracedIsolated ==
    ASSUME HInv, ScanInv, Reported, GapsAreSaid, ~(report.live /\ IsPartial(scan)),
           report.verdict = "unused"
    PROVE  Isolated(cfg, report.objects, report.enabledOnly, FALSE)
<1> DEFINE c == cfg
           live == Seen(report.live)
<1>1. PICK id \in DOMAIN c : report.objects = {id} /\ ReferrersOf(c, live, id) = {}
  BY DEF Reported
<1>2. \A r \in Refs(c) : Target(DOMAIN c, r) # id
  BY <1>1 DEF ReferrersOf
<1>3. \A g \in DOMAIN c : c[g].kind = "dynamic-group" => id \notin Selected(c, live, g)
  BY <1>1 DEF ReferrersOf
<1>4. ASSUME NEW g \in DOMAIN c \ {id}, c[g].kind = "dynamic-group",
             NEW a \in {x \in {id} : c[x].kind = "address"}, NEW tags \in TagsOf(c, a)
      PROVE  ~Holds(c, tags, g, a)
  <2>1. a = id /\ a \in DOMAIN c /\ c[a].kind = "address"
    OBVIOUS
  <2>2. Holds(c, tags, g, a) => a \in Selected(c, live, g)
    BY <2>1, HoldsSelected
  <2> QED
    BY <1>3, <1>4, <2>1, <2>2
<1> HIDE DEF c, live
<1>5. Isolated(c, {id}, report.enabledOnly, FALSE)
  BY <1>2, <1>4 DEF Isolated
<1> QED
  BY <1>1, <1>5 DEF c

(* So are tags that nothing carries and no filter names.                   *)
LEMMA TagsIsolated ==
    ASSUME NEW c, IsConfig(c), NEW enabledOnly
    PROVE  Isolated(c, UnusedTags(c), enabledOnly, TRUE)
<1> DEFINE set == UnusedTags(c)
<1>1. \A i \in set : i \in DOMAIN c /\ i.space = "tag"
  BY DEF UnusedTags
<1>2. ASSUME NEW r \in Refs(c) PROVE Target(DOMAIN c, r) \notin set
  <2>1. CASE NsOf(r.field) = "tag"
    BY <2>1 DEF UnusedTags
  <2>2. CASE NsOf(r.field) # "tag"
    <3>1. Target(DOMAIN c, r) # Nil => Target(DOMAIN c, r).space # "tag"
      BY <2>2, RefKinds
    <3>2. Nil \notin set
      BY <1>1, NamesAssumption DEF IsConfig
    <3> QED
      BY <1>1, <3>1, <3>2
  <2> QED
    BY <2>1, <2>2
<1>3. ASSUME NEW g \in DOMAIN c, c[g].kind = "dynamic-group", NEW t \in FilterTags(c[g])
      PROVE  Resolve(DOMAIN c, "tag", t, g.loc) \notin set
  BY <1>3 DEF UnusedTags
<1>4. \A a \in set : c[a].kind # "address"
  BY <1>1, ConfigEntry, SpaceOfFacts
<1> HIDE DEF set
<1>5. Isolated(c, set, enabledOnly, TRUE)
  BY <1>2, <1>3, <1>4 DEF Isolated
<1> QED
  BY <1>5 DEF set

(* So is everything but tags that the rules do not reach.                  *)
LEMMA UnreachedIsolated ==
    ASSUME HInv, ScanInv, Reported, GapsAreSaid, ~(report.live /\ IsPartial(scan)),
           NEW R, R = ReachedByRules(cfg, Seen(report.live), report.enabledOnly),
           NEW set, set = {i \in DOMAIN cfg : i.space \in {"address", "service"}} \ R
    PROVE  Isolated(cfg, set, report.enabledOnly, TRUE)
<1> DEFINE c == cfg
           live == Seen(report.live)
           only == report.enabledOnly
<1>1. IsConfig(c)
  BY ConfigRead
<1>2. /\ RuleSeeds(c, only) \subseteq R /\ R \subseteq DOMAIN c
      /\ \A i \in R : MembersOf(c, live, i) \subseteq R
  BY <1>1, ReachedFacts
<1>3. Nil \notin set
  BY <1>1, NamesAssumption DEF IsConfig
<1>4. ASSUME NEW r \in Refs(c), r.by \notin set, ~(only /\ r.by \in DisabledRules)
      PROVE  Target(DOMAIN c, r) \notin set
  <2>1. r.by \in DOMAIN c /\ r.by \in Ids
    BY <1>1, RefsType
  <2>2. CASE Target(DOMAIN c, r) = Nil
    BY <2>2, <1>3
  <2>3. CASE Target(DOMAIN c, r) # Nil /\ r.by.space \in RuleSpaces
    <3>1. Target(DOMAIN c, r) \in RuleSeeds(c, only)
      BY <1>4, <2>3 DEF RuleSeeds
    <3> QED
      BY <3>1, <1>2
  <2>4. CASE Target(DOMAIN c, r) # Nil /\ r.by.space \notin RuleSpaces
    <3>1. \/ Target(DOMAIN c, r).space = "tag"
          \/ Target(DOMAIN c, r) \in MembersOf(c, live, r.by)
      BY <1>1, <2>4, RefKinds
    <3>2. CASE Target(DOMAIN c, r) \in MembersOf(c, live, r.by)
      <4>1. MembersOf(c, live, r.by) # {} => r.by.space # "tag"
        <5>1. r.by.space = "tag" => c[r.by].kind = "tag"
          BY <1>1, <2>1, ConfigEntry, SpaceOfFacts DEF Kinds
        <5> QED
          BY <5>1, <1>1, <2>1, MembersFacts, SpaceOfFacts
      <4>2. r.by.space \in {"address", "service"}
        BY <2>1, <2>4, <3>2, <4>1 DEF Ids, Spaces, ObjectSpaces
      <4>3. r.by \in R
        BY <1>4, <2>1, <4>2
      <4> QED
        BY <1>2, <3>2, <4>3
    <3> QED
      BY <3>1, <3>2
  <2> QED
    BY <2>2, <2>3, <2>4
<1>5. ASSUME NEW g \in DOMAIN c \ set, c[g].kind = "dynamic-group"
      PROVE  /\ \A t \in FilterTags(c[g]) : Resolve(DOMAIN c, "tag", t, g.loc) \notin set
             /\ \A a \in {x \in set : c[x].kind = "address"} :
                   \A tags \in TagsOf(c, a) : ~Holds(c, tags, g, a)
  <2>1. g \in R
    BY <1>1, <1>5, ConfigEntry, SpaceOfFacts
  <2>2. Selected(c, live, g) \subseteq MembersOf(c, live, g)
    BY <1>5 DEF MembersOf
  <2>3. ASSUME NEW t PROVE Resolve(DOMAIN c, "tag", t, g.loc) \notin set
    <3>1. g.loc \in Locs /\ "tag" \in Spaces
      BY <1>1, ConfigEntry DEF Ids, Spaces, ObjectSpaces
    <3> QED
      BY <1>1, <1>3, <3>1, ResolvedIn
  <2>4. ASSUME NEW a \in set, c[a].kind = "address", NEW tags \in TagsOf(c, a), Holds(c, tags, g, a)
        PROVE  FALSE
    <3>1. a \in Selected(c, live, g)
      BY <1>5, <2>4, HoldsSelected
    <3> QED
      BY <1>2, <2>1, <2>2, <2>4, <3>1
  <2> QED
    BY <2>3, <2>4
<1> HIDE DEF c, live, only
<1>6. Isolated(c, set, only, TRUE)
  BY <1>4, <1>5 DEF Isolated
<1> QED
  BY <1>6 DEF c, only

(* What is reported unused is part of a set that nobody else uses.         *)
LEMMA ReportsIsolated ==
    ASSUME HInv, ScanInv, Reported, GapsAreSaid
    PROVE  CalledUnusedIsUnused
<1> DEFINE live == Seen(report.live)
           only == report.enabledOnly
<1> SUFFICES ASSUME report.verdict \in {"listed", "unused"}, ~(report.live /\ IsPartial(scan))
             PROVE  \E others \in SUBSET ((DOMAIN cfg \cap ObjectIds) \ report.objects) :
                        Isolated(cfg, report.objects \cup others, only, report.verdict = "listed")
  BY DEF CalledUnusedIsUnused
<1>1. IsConfig(cfg)
  BY ConfigRead
<1>2. ASSUME NEW set \in SUBSET (DOMAIN cfg \cap ObjectIds), report.objects \subseteq set,
             Isolated(cfg, set, only, report.verdict = "listed")
      PROVE  \E others \in SUBSET ((DOMAIN cfg \cap ObjectIds) \ report.objects) :
                 Isolated(cfg, report.objects \cup others, only, report.verdict = "listed")
  <2>1. report.objects \cup (set \ report.objects) = set
    BY <1>2
  <2>2. set \ report.objects \in SUBSET ((DOMAIN cfg \cap ObjectIds) \ report.objects)
    OBVIOUS
  <2> QED
    BY <1>2, <2>1, <2>2
<1>3. CASE report.verdict = "unused"
  <2>1. Isolated(cfg, report.objects, only, report.verdict = "listed")
    <3>1. (report.verdict = "listed") = FALSE
      BY <1>3
    <3> QED
      BY <3>1, <1>3, TracedIsolated
  <2>2. report.objects \in SUBSET (DOMAIN cfg \cap ObjectIds)
    BY DEF HInv
  <2> QED
    BY <1>2, <2>1, <2>2
<1>4. CASE report.verdict = "listed"
  <2>1. PICK kind \in ReportedKinds : report.objects = Unused(cfg, live, kind, only)
    BY <1>4 DEF Reported
  <2>2. (report.verdict = "listed") = TRUE
    BY <1>4
  <2>3. CASE kind = "tag"
    <3>1. report.objects = UnusedTags(cfg)
      BY <2>1, <2>3 DEF Unused
    <3>2. Isolated(cfg, report.objects, only, report.verdict = "listed")
      BY <1>1, <2>2, <3>1, TagsIsolated
    <3>3. report.objects \in SUBSET (DOMAIN cfg \cap ObjectIds)
      BY DEF HInv
    <3> QED
      BY <1>2, <3>2, <3>3
  <2>4. CASE kind # "tag"
    <3> DEFINE R == ReachedByRules(cfg, live, only)
               set == {i \in DOMAIN cfg : i.space \in {"address", "service"}} \ R
    <3>1. report.objects = {i \in DOMAIN cfg : OfKind(cfg[i], kind)} \ R
      BY <2>1, <2>4 DEF Unused
    <3>2. \A i \in DOMAIN cfg : OfKind(cfg[i], kind) => i.space \in {"address", "service"}
      <4>1. ASSUME NEW i \in DOMAIN cfg, OfKind(cfg[i], kind) PROVE i.space \in {"address", "service"}
        <5>1. cfg[i].kind \in {"address", "address-group", "dynamic-group", "service", "service-group"}
          BY <2>4, <4>1 DEF OfKind, ReportedKinds
        <5> QED
          BY <5>1, <1>1, ConfigEntry, SpaceOfFacts
      <4> QED
        BY <4>1
    <3>3. report.objects \subseteq set
      BY <3>1, <3>2
    <3>4. set \in SUBSET (DOMAIN cfg \cap ObjectIds)
      BY <1>1, ConfigEntry DEF Ids, ObjectIds, ObjectSpaces
    <3>5. Isolated(cfg, set, only, TRUE)
      BY UnreachedIsolated
    <3> HIDE DEF set
    <3> QED
      BY <1>2, <2>2, <3>3, <3>4, <3>5
  <2> QED
    BY <2>3, <2>4
<1> QED
  BY <1>3, <1>4

(* At the start there is no report.                                        *)
LEMMA InitReported == Init => Reported
BY DEF Init, Reported, NoReport

-----------------------------------------------------------------------------
(* What a cleanup leaves.                                                  *)

(* A cascade that starts elsewhere spares what the rules reach.            *)
LEMMA CascadeSpares ==
    ASSUME NEW c, IsConfig(c), NEW cm \in Commands, ~cm.keepGroups, NEW live,
           NEW R \in SUBSET DOMAIN c, \A i \in R : MembersOf(c, live, i) \subseteq R,
           cm.targets \cap R = {}
    PROVE  Cascade(c, cm) \cap R = {}
<1> DEFINE dead == Cascade(c, cm)
           left == dead \ R
<1>1. PICK gs \in SUBSET Emptiable(c) : dead = Matched(c, cm) \cup gs
  BY CascadeLeast
<1>2. /\ NewlyEmptyGroups(c, dead) = {}
      /\ \A hs \in SUBSET Emptiable(c) :
            NewlyEmptyGroups(c, Matched(c, cm) \cup hs) = {} => dead \subseteq Matched(c, cm) \cup hs
  BY CascadeLeast
<1>3. Matched(c, cm) \cap R = {}
  BY EmptiableFacts
<1> HIDE DEF dead
<1>4. left = Matched(c, cm) \cup (gs \ R) /\ gs \ R \in SUBSET Emptiable(c)
  BY <1>1, <1>3
<1>5. NewlyEmptyGroups(c, left) = {}
  <2> SUFFICES ASSUME NEW g \in NewlyEmptyGroups(c, left) PROVE FALSE
    OBVIOUS
  <2>1. /\ g \in DOMAIN c /\ g \notin left /\ c[g].kind \in {"address-group", "service-group"}
        /\ MemberRefs(c, g) # {} /\ \A r \in MemberRefs(c, g) : Breaks(c, r, left)
    BY DEF NewlyEmptyGroups
  <2>2. CASE g \notin dead
    <3>1. left \subseteq dead
      OBVIOUS
    <3> HIDE DEF left
    <3> QED
      BY <2>2, <3>1, <1>2, NewlyEmptyMonotone
  <2>3. CASE g \in R
    <3>1. PICK r \in MemberRefs(c, g) : Breaks(c, r, left)
      BY <2>1
    <3>2. r \in Refs(c) /\ r.by = g /\ r.field \in {"static", "members"}
      BY <2>1, <3>1, MemberRefFacts DEF MemberRefs, ListField
    <3>3. Target(DOMAIN c, r) \in left /\ Target(DOMAIN c, r) # Nil
      BY <3>1, <3>2, BreaksTarget DEF Breaks
    <3>4. r.by.space \notin RuleSpaces
      <4>1. SpaceOf(c[g].kind) = g.space
        BY <2>1, ConfigEntry
      <4> QED
        BY <2>1, <3>2, <4>1, SpaceOfFacts DEF RuleSpaces
    <3>5. Target(DOMAIN c, r) \in MembersOf(c, live, r.by)
      BY <3>2, <3>3, <3>4, RefKinds
    <3> QED
      BY <2>3, <3>2, <3>3, <3>5
  <2> QED
    BY <2>1, <2>2, <2>3
<1> HIDE DEF left
<1>6. dead \subseteq left
  BY <1>2, <1>4, <1>5
<1> QED
  BY <1>6 DEF left, dead

(* Rules restrict what the next parse would read as any, if it restricts   *)
(* nothing.                                                                *)
Restricts(c) == \A i \in DOMAIN c : \A f \in AnyFields(c[i].kind) : c[i].fields[f] # {}

LEMMA ParseRestricts ==
    ASSUME NEW doc, IsDocument(doc) PROVE Restricts(Parse(doc))
<1> SUFFICES ASSUME NEW i \in DOMAIN Parse(doc), NEW f \in AnyFields(Parse(doc)[i].kind)
             PROVE  Parse(doc)[i].fields[f] # {}
  BY DEF Restricts
<1>1. PICK e \in DOMAIN doc : i = IdOf(e)
  BY ParseShape
<1>2. f \in Fields
  BY AnyFieldFacts
<1>3. Parse(doc)[i].kind = KindOf(e, doc[e])
      /\ Parse(doc)[i].fields[f] = Back(KindOf(e, doc[e]), f, Shown(doc[e].lists[f]))
  BY <1>1, <1>2, ParseShape
<1> QED
  BY <1>3 DEF Back

(* A teardown takes what it deletes, and leaves a configuration.           *)
LEMMA TeardownShape ==
    ASSUME NEW c, NEW cm, NEW dead, Planning(c, cm, dead),
           NEW p, p = PlanTeardown(c, cm, dead), NEW cc, cc = Apply(c, p)
    PROVE  /\ IsConfig(cc) /\ DOMAIN cc = DOMAIN c \ (p.ruleDeletes \cup p.deletes)
           /\ \A i \in DOMAIN cc : cc[i].kind = c[i].kind
<1> DEFINE q == PlanTeardown(c, cm, dead)
           new == Apply(c, q)
<1>1. /\ DOMAIN q.upserts = {} /\ DOMAIN q.renames = {}
      /\ \A k \in DOMAIN q.edits : q.edits[k] \in SUBSET Members
  BY PlanShape, DraftShape
<1> HIDE DEF q
<1>2. IsConfig(c)
  BY DEF Planning
<1>3. IsConfig(new) /\ DOMAIN new = DOMAIN c \ (q.ruleDeletes \cup q.deletes)
  BY <1>1, <1>2, ApplyShape
<1>4. \A i \in DOMAIN new : new[i].kind = c[i].kind
  BY <1>1, <1>2, ApplyShape
<1>5. p = q /\ cc = new
  BY DEF q
<1> HIDE DEF new
<1> QED
  BY <1>3, <1>4, <1>5

(* What no touched reference names is left alone by a teardown.            *)
LEMMA LeftAlone ==
    ASSUME NEW c, NEW cm, NEW dead, Planning(c, cm, dead), Restricts(c),
           NEW p, p = PlanTeardown(c, cm, dead), NEW i \in DOMAIN Apply(c, p),
           \A r \in Touched(c, cm, dead) : r.by = i => OwnTag(c, r)
    PROVE  i \in DOMAIN c /\ Apply(c, p)[i] = c[i]
<1> DEFINE edited == Edited(c, p.edits)
           left == Without(edited, p.ruleDeletes \cup p.deletes)
           edits == ScrubEdits(c, cm, Touched(c, cm, dead))
<1>1. /\ DOMAIN p.upserts = {} /\ DOMAIN p.renames = {}
      /\ \A k \in DOMAIN p.edits : p.edits[k] \in SUBSET Members
      /\ DOMAIN p.edits \subseteq DOMAIN edits
  BY PlanShape, DraftShape
<1>2. \A k \in DOMAIN edits : \E r \in Touched(c, cm, dead) : ~OwnTag(c, r) /\ k = <<r.by, r.field>>
  BY TouchedRefs, ScrubEditsShape DEF Planning
<1> HIDE DEF edits
<1>3. \A f : Writers(c, p.edits, i, f) = {}
  BY <1>1, <1>2 DEF Writers
<1>4. i \in DOMAIN c /\ Apply(c, p)[i].kind = c[i].kind
  BY SurvivorKind
<1>5. ASSUME NEW f \in Fields PROVE Apply(c, p)[i].fields[f] = c[i].fields[f]
  <2>1. NewList(c, p.edits, i, f) = c[i].fields[f]
    BY <1>3 DEF NewList
  <2>2. f \notin AnyFields(c[i].kind) \/ c[i].fields[f] # {}
    BY <1>4 DEF Restricts
  <2> QED
    BY <2>1, <2>2, SurvivorList
<1>6. Apply(c, p)[i].value = c[i].value
  <2>1. Apply(c, p) = ReadBack(left)
    BY <1>1, ApplyEdits DEF Planning
  <2>2. IsConfig(edited) /\ DOMAIN edited = DOMAIN c /\ edited[i].value = c[i].value
    BY <1>1, <1>4, EditedShape, EditedValue DEF Planning
  <2> HIDE DEF edited
  <2>3. /\ IsConfig(left) /\ DOMAIN left = DOMAIN edited \ (p.ruleDeletes \cup p.deletes)
        /\ \A j \in DOMAIN edited \ (p.ruleDeletes \cup p.deletes) : left[j] = edited[j]
    BY <2>2, WithoutShape, ZenonT(60)
  <2> HIDE DEF left
  <2>4. i \in DOMAIN left
    BY <2>1, <2>3, ReadBackShape
  <2> QED
    BY <2>1, <2>2, <2>3, <2>4, ReadBackValue
<1>7. IsConfig(Apply(c, p)) /\ IsConfig(c)
  BY <1>1, ApplyShape DEF Planning
<1>8. Apply(c, p)[i] = c[i]
  <2> DEFINE new == Apply(c, p)[i]
  <2>1. new \in Entry /\ c[i] \in Entry
    BY <1>4, <1>7, ConfigEntry
  <2>2. new.kind = c[i].kind /\ new.value = c[i].value /\ \A f \in Fields : new.fields[f] = c[i].fields[f]
    BY <1>4, <1>5, <1>6
  <2> HIDE DEF new
  <2>3. new.fields = c[i].fields
    <3>1. new.fields \in [Fields -> SUBSET Members] /\ c[i].fields \in [Fields -> SUBSET Members]
      BY <2>1 DEF Entry
    <3> QED
      BY <2>2, <3>1
  <2>4. /\ new = [kind |-> new.kind, value |-> new.value, fields |-> new.fields]
        /\ c[i] = [kind |-> c[i].kind, value |-> c[i].value, fields |-> c[i].fields]
    BY <2>1 DEF Entry
  <2>5. new = c[i]
    BY <2>2, <2>3, <2>4
  <2> QED
    BY <2>5 DEF new
<1> QED
  BY <1>4, <1>8

(* The command of a cleanup.                                               *)
Purging(targets) == [op |-> "purge", targets |-> targets, keepGroups |-> FALSE, keepRules |-> FALSE]

(* A cleanup of objects the rules do not reach leaves alone what they      *)
(* reach, the rules that were looked at, and every address that stays.     *)
LEMMA CleanupSpares ==
    ASSUME NEW c, IsConfig(c), Restricts(c), NEW live, NEW only,
           NEW R, R = ReachedByRules(c, live, only),
           NEW targets \in SUBSET ObjectIds, targets \cap R = {},
           NEW cm, cm = Purging(targets),
           NEW p, p = PlanTeardown(c, cm, Cascade(c, cm)),
           NEW cc, cc = Apply(c, p)
    PROVE  /\ IsConfig(cc) /\ DOMAIN cc = DOMAIN c \ (p.ruleDeletes \cup p.deletes)
           /\ \A i \in R : i \in DOMAIN cc /\ cc[i] = c[i]
           /\ \A i \in DOMAIN cc : cc[i].kind = c[i].kind /\ (c[i].kind = "address" => cc[i] = c[i])
           /\ \A i \in DOMAIN c : i.space \in RuleSpaces /\ ~(only /\ i \in DisabledRules)
                => i \in DOMAIN cc /\ cc[i] = c[i]
<1> DEFINE dead == Cascade(c, cm)
           touched == Touched(c, cm, dead)
           edits == ScrubEdits(c, cm, touched)
           looked(i) == i.space \in RuleSpaces /\ ~(only /\ i \in DisabledRules)
<1>1. cm \in Commands /\ cm.op = "purge" /\ ~cm.keepGroups /\ ~cm.keepRules /\ cm.targets = targets
  BY DEF Commands, Purging
<1>2. Planning(c, cm, dead)
  BY <1>1, CascadeFacts
<1>3. /\ RuleSeeds(c, only) \subseteq R /\ R \subseteq DOMAIN c
      /\ \A i \in R : MembersOf(c, live, i) \subseteq R
  BY ReachedFacts
<1>4. dead \cap R = {}
  BY <1>1, <1>3, CascadeSpares
<1>5. /\ DOMAIN p.upserts = {} /\ DOMAIN p.renames = {}
      /\ \A k \in DOMAIN p.edits : p.edits[k] \in SUBSET Members
  BY <1>2, PlanShape, DraftShape
<1>6. /\ IsConfig(cc) /\ DOMAIN cc = DOMAIN c \ (p.ruleDeletes \cup p.deletes)
      /\ \A i \in DOMAIN cc : cc[i].kind = c[i].kind
  BY <1>2, TeardownShape
<1>7. \A i \in R : i.space \notin RuleSpaces
  <2>1. ASSUME NEW s \in SUBSET DOMAIN c, s = {i \in DOMAIN c : i.space \notin RuleSpaces}
        PROVE  R \subseteq s
    <3>1. RuleSeeds(c, only) \subseteq s
      <4>1. ASSUME NEW r \in Refs(c), Target(DOMAIN c, r) # Nil PROVE Target(DOMAIN c, r) \in s
        <5>1. Target(DOMAIN c, r) \in DOMAIN c /\ Target(DOMAIN c, r).space = NsOf(r.field)
          BY <4>1, RefKinds
        <5>2. NsOf(r.field) \in ObjectSpaces
          BY NsOfFacts
        <5> QED
          BY <5>1, <5>2, <2>1 DEF ObjectSpaces, RuleSpaces
      <4> QED
        BY <4>1 DEF RuleSeeds
    <3>2. Contents(c, live, s) \subseteq s
      <4>1. ASSUME NEW i \in s PROVE MembersOf(c, live, i) \subseteq s
        <5>1. i \in DOMAIN c
          OBVIOUS
        <5>2. \A m \in MembersOf(c, live, i) : m \in DOMAIN c /\ m.space \in {"address", "service"}
          BY <5>1, MembersFacts
        <5> QED
          BY <5>2, <2>1 DEF RuleSpaces
      <4> QED
        BY <4>1 DEF Contents
    <3> QED
      BY <3>1, <3>2, ReachedFacts
  <2> DEFINE objects == {i \in DOMAIN c : i.space \notin RuleSpaces}
  <2>2. objects \in SUBSET DOMAIN c
    OBVIOUS
  <2>3. R \subseteq objects
    BY <2>1, <2>2
  <2> QED
    BY <2>3
<1>8. \A r \in touched : r \in Refs(c) /\ Target(DOMAIN c, r) \in dead /\ Target(DOMAIN c, r) # Nil
  BY <1>1 DEF Touched, RefsInto, Breaks
<1>9. ASSUME NEW r \in touched, looked(r.by) PROVE FALSE
  <2>1. Target(DOMAIN c, r) \in RuleSeeds(c, only)
    BY <1>8, <1>9 DEF RuleSeeds
  <2> QED
    BY <1>3, <1>4, <1>8, <2>1
<1>10. ASSUME NEW r \in touched, r.by \in R PROVE OwnTag(c, r)
  <2>1. \/ r.by.space \in RuleSpaces
        \/ r.field = "tag" /\ Target(DOMAIN c, r).space = "tag"
        \/ Target(DOMAIN c, r) \in MembersOf(c, live, r.by)
    BY <1>8, RefKinds
  <2>2. r.field = "tag"
    BY <1>3, <1>4, <1>7, <1>8, <1>10, <2>1
  <2>3. c[r.by].kind \notin RuleSpaces
    <3>1. r.by \in DOMAIN c /\ r.by.space \notin RuleSpaces
      BY <1>3, <1>7, <1>10
    <3> QED
      BY <3>1, ConfigEntry, SpaceOfFacts
  <2> QED
    BY <2>2, <2>3 DEF OwnTag
<1>11. ASSUME NEW r \in touched, c[r.by].kind = "address" PROVE OwnTag(c, r)
  <2>1. r.field \in Walked(c[r.by].kind)
    BY <1>8, RefsType
  <2> QED
    BY <1>11, <2>1, WalkedFacts DEF OwnTag, RuleSpaces
<1>12. p.deletes \subseteq dead /\ \A i \in p.ruleDeletes : i \in DOMAIN c /\ i.space \in RuleSpaces /\ ~looked(i)
  <2>1. /\ p.deletes \subseteq dead
        /\ p.ruleDeletes = {} \/ p.ruleDeletes = Draft(c, cm, dead).ruleDeletes
        /\ p.ruleDeletes \subseteq {i \in DOMAIN c : c[i].kind \in RuleSpaces}
    BY <1>1, <1>2, PlanShape, DraftShape
  <2>2. Draft(c, cm, dead).ruleDeletes = Orphaned(c, cm, edits)
    BY <1>1 DEF Draft, EmptyPlan
  <2>3. \A k \in DOMAIN edits : \E r \in touched : k = <<r.by, r.field>>
    BY TouchedRefs, ScrubEditsShape
  <2> HIDE DEF edits, touched
  <2>4. \A i \in Orphaned(c, cm, edits) : \E r \in touched : i = r.by
    BY <2>3 DEF Orphaned
  <2>5. ASSUME NEW i \in p.ruleDeletes PROVE i \in DOMAIN c /\ i.space \in RuleSpaces /\ ~looked(i)
    <3>1. i \in DOMAIN c /\ c[i].kind \in RuleSpaces
      BY <2>1
    <3>2. i.space \in RuleSpaces
      BY <3>1, ConfigEntry, SpaceOfFacts
    <3>3. ~looked(i)
      BY <2>1, <2>2, <2>4, <1>9
    <3> QED
      BY <3>1, <3>2, <3>3
  <2> QED
    BY <2>1, <2>5
<1> HIDE DEF touched
<1>13. ASSUME NEW i \in DOMAIN cc, \A r \in touched : r.by = i => OwnTag(c, r) PROVE cc[i] = c[i]
  BY <1>2, <1>13, LeftAlone DEF touched
<1> HIDE DEF dead, edits
<1>14. ASSUME NEW i \in R PROVE i \in DOMAIN cc /\ cc[i] = c[i]
  <2>1. i \in DOMAIN cc
    BY <1>3, <1>4, <1>6, <1>7, <1>12
  <2> QED
    BY <1>10, <1>13, <2>1
<1>15. ASSUME NEW i \in DOMAIN cc, c[i].kind = "address" PROVE cc[i] = c[i]
  BY <1>11, <1>13, <1>15
<1>16. ASSUME NEW i \in DOMAIN c, looked(i) PROVE i \in DOMAIN cc /\ cc[i] = c[i]
  <2>1. i \notin dead
    BY <1>2, <1>16 DEF Planning, ObjectIds, ObjectSpaces, RuleSpaces
  <2>2. i \in DOMAIN cc
    BY <1>6, <1>12, <1>16, <2>1
  <2> QED
    BY <1>9, <1>13, <1>16, <2>2
<1> QED
  BY <1>6, <1>14, <1>15, <1>16

(* What the rules stand for is a matter of what they reach.                *)
LEMMA SameStands ==
    ASSUME NEW c, IsConfig(c), NEW cc, IsConfig(cc), DOMAIN cc \subseteq DOMAIN c,
           NEW live, NEW only, NEW R, R = ReachedByRules(c, live, only),
           \A i \in R : i \in DOMAIN cc /\ cc[i] = c[i],
           \A i \in DOMAIN cc : cc[i].kind = c[i].kind /\ (c[i].kind = "address" => cc[i] = c[i]),
           NEW rule \in DOMAIN c, rule.space \in RuleSpaces, ~(only /\ rule \in DisabledRules),
           rule \in DOMAIN cc, cc[rule] = c[rule]
    PROVE  Stands(cc, live, rule) = Stands(c, live, rule)
<1>1. /\ RuleSeeds(c, only) \subseteq R /\ R \subseteq DOMAIN c
      /\ \A i \in R : MembersOf(c, live, i) \subseteq R
  BY ReachedFacts
<1>2. ASSUME NEW space \in Spaces, NEW n, NEW loc \in Locs,
             Resolve(DOMAIN c, space, n, loc) = Nil \/ Resolve(DOMAIN c, space, n, loc) \in R
      PROVE  Resolve(DOMAIN cc, space, n, loc) = Resolve(DOMAIN c, space, n, loc)
  <2>1. CASE Resolve(DOMAIN c, space, n, loc) = Nil
    <3>1. CASE Resolve(DOMAIN cc, space, n, loc) = Nil
      BY <2>1, <3>1
    <3>2. CASE Resolve(DOMAIN cc, space, n, loc) # Nil
      <4>1. n \in Names
        BY <3>2, ResolvedIn
      <4> QED
        BY <2>1, <4>1, ResolveMonotone
    <3> QED
      BY <3>1, <3>2
  <2>2. CASE Resolve(DOMAIN c, space, n, loc) # Nil
    <3>1. n \in Names /\ Resolve(DOMAIN c, space, n, loc) \in R
      BY <1>2, <2>2, ResolvedIn
    <3> DEFINE gone == DOMAIN c \ DOMAIN cc
    <3>2. DOMAIN cc = DOMAIN c \ gone /\ Resolve(DOMAIN c, space, n, loc) \notin gone
      BY <3>1
    <3> HIDE DEF gone
    <3>3. Resolve(DOMAIN c \ gone, space, n, loc) = Resolve(DOMAIN c, space, n, loc)
      BY <2>2, <3>1, <3>2, ResolveSurvivor
    <3> QED
      BY <3>2, <3>3
  <2> QED
    BY <2>1, <2>2
<1>3. ASSUME NEW i \in R PROVE MembersOf(cc, live, i) = MembersOf(c, live, i)
  <2>1. i \in DOMAIN c /\ i \in DOMAIN cc /\ cc[i] = c[i] /\ i \in Ids /\ i.space \in Spaces /\ i.loc \in Locs
    BY <1>1, ConfigEntry DEF Ids
  <2>2. /\ MembersOf(c, live, i) =
             (IF c[i].kind = "dynamic-group" THEN Selected(c, live, i) ELSE {})
             \cup ({Resolve(DOMAIN c, i.space, n, i.loc) : n \in Named(c, i)} \ {Nil})
        /\ MembersOf(cc, live, i) =
             (IF cc[i].kind = "dynamic-group" THEN Selected(cc, live, i) ELSE {})
             \cup ({Resolve(DOMAIN cc, i.space, n, i.loc) : n \in Named(cc, i)} \ {Nil})
    BY <2>1, MembersFacts
  <2>3. Named(cc, i) = Named(c, i)
    BY <2>1 DEF Named
  <2>4. ASSUME NEW n \in Named(c, i)
        PROVE  Resolve(DOMAIN cc, i.space, n, i.loc) = Resolve(DOMAIN c, i.space, n, i.loc)
    <3>1. Resolve(DOMAIN c, i.space, n, i.loc) = Nil \/ Resolve(DOMAIN c, i.space, n, i.loc) \in MembersOf(c, live, i)
      BY <2>2
    <3> QED
      BY <1>1, <1>2, <2>1, <3>1
  <2>5. ASSUME c[i].kind = "dynamic-group" PROVE Selected(cc, live, i) = Selected(c, live, i)
    <3>1. \A a \in Selected(c, live, i) : a \in R
      BY <1>1, <2>2, <2>5
    <3>2. ASSUME NEW a \in Selected(c, live, i) PROVE a \in Selected(cc, live, i)
      <4>1. a \in DOMAIN cc /\ cc[a] = c[a] /\ a \in DOMAIN c
        BY <1>1, <3>1
      <4> QED
        BY <2>1, <4>1 DEF Selected, DagMembers, MatchesLive, Satisfies
    <3>3. ASSUME NEW a \in Selected(cc, live, i) PROVE a \in Selected(c, live, i)
      <4>1. a \in DOMAIN cc /\ cc[a].kind = "address"
        BY DEF Selected, DagMembers
      <4>2. a \in DOMAIN c /\ c[a].kind = "address"
        BY <4>1
      <4>3. cc[a] = c[a]
        BY <4>1, <4>2
      <4> QED
        BY <2>1, <4>1, <4>2, <4>3 DEF Selected, DagMembers, MatchesLive, Satisfies
    <3> QED
      BY <3>2, <3>3
  <2> QED
    BY <2>1, <2>2, <2>3, <2>4, <2>5
<1>4. ASSUME NEW heads \in SUBSET R PROVE Below(cc, live, heads) = Below(c, live, heads)
  <2> DEFINE B == Below(c, live, heads)
             BB == Below(cc, live, heads)
  <2>1. heads \in SUBSET DOMAIN c /\ heads \in SUBSET DOMAIN cc
    BY <1>1
  <2>2. /\ heads \subseteq B /\ Contents(c, live, B) \subseteq B
        /\ \A s : heads \subseteq s /\ Contents(c, live, s) \subseteq s => B \subseteq s
    BY <2>1, BelowIsLeast
  <2>3. /\ heads \subseteq BB /\ Contents(cc, live, BB) \subseteq BB
        /\ \A s : heads \subseteq s /\ Contents(cc, live, s) \subseteq s => BB \subseteq s
    BY <2>1, BelowIsLeast
  <2> HIDE DEF B, BB
  <2>4. Contents(c, live, R) \subseteq R
    BY <1>1 DEF Contents
  <2>5. B \subseteq R
    BY <2>2, <2>4
  <2>6. ASSUME NEW s \in SUBSET R PROVE Contents(cc, live, s) = Contents(c, live, s)
    BY <1>3 DEF Contents
  <2>7. BB \subseteq B
    BY <2>2, <2>3, <2>5, <2>6
  <2>8. B \subseteq BB
    BY <2>2, <2>3, <2>5, <2>6, <2>7
  <2> QED
    BY <2>7, <2>8 DEF B, BB
<1>5. \A heads \in SUBSET R : Below(c, live, heads) \subseteq R
  <2>1. ASSUME NEW heads \in SUBSET R PROVE Below(c, live, heads) \subseteq R
    <3>1. Contents(c, live, R) \subseteq R /\ heads \in SUBSET DOMAIN c
      BY <1>1 DEF Contents
    <3> QED
      BY <3>1, BelowIsLeast
  <2> QED
    BY <2>1
<1> DEFINE heads(d, f) == {Resolve(DOMAIN d, NsOf(f), n, rule.loc) : n \in c[rule].fields[f]} \ {Nil}
           lists == MatchFields \cap Walked(c[rule].kind)
           of(d, f) == [values |-> {d[i].value : i \in Below(d, live, heads(d, f))},
                        others |-> c[rule].fields[f] \cap Predefined]
<1>6. /\ Stands(c, live, rule) = [f \in lists |-> of(c, f)]
      /\ Stands(cc, live, rule) = [f \in lists |-> of(cc, f)]
  BY DEF Stands
<1>7. ASSUME NEW f \in lists PROVE heads(c, f) \in SUBSET R /\ heads(cc, f) = heads(c, f)
  <2>1. rule.loc \in Locs /\ NsOf(f) \in Spaces /\ f \in Walked(c[rule].kind) /\ f \in Fields
    BY ConfigEntry, NsOfFacts DEF Ids, Spaces, MatchFields, Fields
  <2>2. ASSUME NEW n \in c[rule].fields[f]
        PROVE  Resolve(DOMAIN c, NsOf(f), n, rule.loc) = Nil \/ Resolve(DOMAIN c, NsOf(f), n, rule.loc) \in R
    <3> SUFFICES ASSUME Resolve(DOMAIN c, NsOf(f), n, rule.loc) # Nil
                 PROVE  Resolve(DOMAIN c, NsOf(f), n, rule.loc) \in R
      OBVIOUS
    <3>1. n \in Names
      BY <2>1, ResolvedIn
    <3> DEFINE r == [by |-> rule, field |-> f, name |-> n]
    <3>2. r \in Refs(c) /\ r.by = rule /\ Target(DOMAIN c, r) = Resolve(DOMAIN c, NsOf(f), n, rule.loc)
      BY <2>1, <3>1, RefsMembership DEF Target
    <3> HIDE DEF r
    <3>3. Target(DOMAIN c, r) \in RuleSeeds(c, only)
      BY <3>2 DEF RuleSeeds
    <3> QED
      BY <1>1, <3>2, <3>3
  <2>3. \A n \in c[rule].fields[f] :
            Resolve(DOMAIN cc, NsOf(f), n, rule.loc) = Resolve(DOMAIN c, NsOf(f), n, rule.loc)
    BY <1>2, <2>1, <2>2
  <2> QED
    BY <2>2, <2>3
<1>8. ASSUME NEW f \in lists PROVE of(cc, f) = of(c, f)
  <2>1. heads(c, f) \in SUBSET R /\ heads(cc, f) = heads(c, f)
    BY <1>7
  <2> HIDE DEF heads
  <2>2. /\ Below(cc, live, heads(cc, f)) = Below(c, live, heads(c, f))
        /\ Below(c, live, heads(c, f)) \subseteq R
    BY <1>4, <1>5, <2>1
  <2>3. {cc[i].value : i \in Below(cc, live, heads(cc, f))} = {c[i].value : i \in Below(c, live, heads(c, f))}
    BY <2>2
  <2> QED
    BY <2>3
<1> HIDE DEF of, lists
<1> QED
  BY <1>6, <1>8

(* What a report calls unused the rules do not reach.                      *)
LEMMA UnusedUnreached ==
    ASSUME NEW c, IsConfig(c), NEW live, NEW only, NEW objects,
           \/ \E kind \in ReportedKinds : objects = Unused(c, live, kind, only)
           \/ \E id \in DOMAIN c \cap ObjectIds :
                 objects = {id} /\ ReferrersOf(c, live, id) = {}
    PROVE  objects \cap ReachedByRules(c, live, only) = {}
<1> DEFINE R == ReachedByRules(c, live, only)
<1>1. /\ RuleSeeds(c, only) \subseteq R /\ R \subseteq DOMAIN c
      /\ \A s : RuleSeeds(c, only) \subseteq s /\ Contents(c, live, s) \subseteq s => R \subseteq s
  BY ReachedFacts
<1> HIDE DEF R
<1>2. ASSUME NEW kind \in ReportedKinds, objects = Unused(c, live, kind, only), kind # "tag"
      PROVE  objects \cap R = {}
  BY <1>2 DEF Unused, R
<1>3. ASSUME objects = UnusedTags(c) PROVE objects \cap R = {}
  <2> DEFINE s == DOMAIN c \ UnusedTags(c)
  <2>1. RuleSeeds(c, only) \subseteq s
    <3>1. ASSUME NEW r \in Refs(c), Target(DOMAIN c, r) # Nil PROVE Target(DOMAIN c, r) \in s
      <4>1. Target(DOMAIN c, r) \in DOMAIN c /\ Target(DOMAIN c, r).space = NsOf(r.field)
        BY <3>1, RefKinds
      <4>2. Target(DOMAIN c, r) \notin UnusedTags(c)
        BY <4>1 DEF UnusedTags
      <4> QED
        BY <4>1, <4>2
    <3> QED
      BY <3>1 DEF RuleSeeds
  <2>2. Contents(c, live, s) \subseteq s
    <3>1. ASSUME NEW i \in DOMAIN c, NEW m \in MembersOf(c, live, i) PROVE m \in s
      <4>1. m \in DOMAIN c /\ m.space \in {"address", "service"}
        BY MembersFacts
      <4>2. \A t \in UnusedTags(c) : t.space = "tag"
        BY DEF UnusedTags
      <4> QED
        BY <4>1, <4>2
    <3> QED
      BY <3>1 DEF Contents
  <2>3. R \subseteq s
    BY <1>1, <2>1, <2>2
  <2> QED
    BY <1>3, <2>3
<1>4. ASSUME NEW id \in DOMAIN c \cap ObjectIds, objects = {id}, ReferrersOf(c, live, id) = {}
      PROVE  objects \cap R = {}
  <2> DEFINE s == DOMAIN c \ {id}
  <2>1. /\ \A r \in Refs(c) : Target(DOMAIN c, r) # id
        /\ \A g \in DOMAIN c : c[g].kind = "dynamic-group" => id \notin Selected(c, live, g)
    BY <1>4 DEF ReferrersOf
  <2>2. RuleSeeds(c, only) \subseteq s
    <3>1. RuleSeeds(c, only) \subseteq DOMAIN c
      BY SeedsFacts
    <3>2. id \notin RuleSeeds(c, only)
      BY <2>1 DEF RuleSeeds
    <3> QED
      BY <3>1, <3>2
  <2>3. ASSUME NEW i \in DOMAIN c, NEW m \in MembersOf(c, live, i) PROVE m \in s
    <3>1. m \in DOMAIN c
      BY MembersFacts
    <3>2. m # id
      <4>1. \/ c[i].kind = "dynamic-group" /\ m \in Selected(c, live, i)
            \/ \E n \in Named(c, i) : m = Resolve(DOMAIN c, i.space, n, i.loc) /\ m # Nil
        BY MembersFacts
      <4>2. CASE c[i].kind = "dynamic-group" /\ m \in Selected(c, live, i)
        BY <2>1, <4>2
      <4>3. CASE \E n \in Named(c, i) : m = Resolve(DOMAIN c, i.space, n, i.loc) /\ m # Nil
        <5>1. PICK n \in Named(c, i) : m = Resolve(DOMAIN c, i.space, n, i.loc) /\ m # Nil
          BY <4>3
        <5>2. i \in Ids /\ i.loc \in Locs /\ i.space \in Spaces /\ SpaceOf(c[i].kind) = i.space
          BY ConfigEntry DEF Ids
        <5>3. n \in Names
          BY <5>1, <5>2, ResolvedIn
        <5>4. PICK f \in Fields : /\ f \in Walked(c[i].kind) /\ n \in c[i].fields[f]
                                  /\ NsOf(f) = i.space
          <6>1. c[i].kind \in {"address-group", "service-group"}
            BY <5>1, NamedFacts
          <6>2. CASE c[i].kind = "address-group"
            BY <5>1, <5>2, <6>2, NamedFacts, WalkedFacts, NsOfFacts, SpaceOfFacts DEF Fields
          <6>3. CASE c[i].kind = "service-group"
            BY <5>1, <5>2, <6>3, NamedFacts, WalkedFacts, NsOfFacts, SpaceOfFacts DEF Fields
          <6> QED
            BY <6>1, <6>2, <6>3
        <5> DEFINE r == [by |-> i, field |-> f, name |-> n]
        <5>5. r \in Refs(c) /\ Target(DOMAIN c, r) = m
          BY <5>1, <5>3, <5>4, RefsMembership DEF Target
        <5> QED
          BY <2>1, <5>5
      <4> QED
        BY <4>1, <4>2, <4>3
    <3> QED
      BY <3>1, <3>2
  <2>4. Contents(c, live, s) \subseteq s
    BY <2>3 DEF Contents
  <2>5. R \subseteq s
    BY <1>1, <2>2, <2>4
  <2> QED
    BY <1>4, <2>5
<1>5. objects \cap R = {}
  BY <1>2, <1>3, <1>4 DEF Unused
<1> QED
  BY <1>5 DEF R

-----------------------------------------------------------------------------
(* The theorems.                                                           *)

(* Documents stay readable through any changes: an entry of a namespace is *)
(* in one container, what is read is a configuration, what is reported is  *)
(* in it, and nothing the partial document holds is also to be removed.    *)
THEOREM HousekeepingTypes == Spec => []TypeOK
<1>1. HInv /\ ScanInv => TypeOK
  <2> SUFFICES ASSUME HInv, ScanInv PROVE TypeOK
    OBVIOUS
  <2>1. IsConfig(cfg)
    BY ConfigRead
  <2> QED
    BY <2>1 DEF HInv, ScanInv, Phased, TypeOK
<1> QED
  BY <1>1, InitHInv, NextHInv, NextScanInv, PTL DEF Spec

(* The partial document of a batch is enough, whatever the changes were    *)
(* and in whatever order: loaded into the source, with the removals it     *)
(* reports, it gives the document with all the changes.                    *)
THEOREM PartialTheorem == Spec => []PartialIsEnough
<1>1. HInv => PartialIsEnough
  BY TracksLoaded DEF HInv, PartialIsEnough, IsDocument
<1> QED
  BY <1>1, InitHInv, NextHInv, NextScanInv, PTL DEF Spec

(* A scan that does not call itself partial has read everything that every *)
(* firewall the manager named held when it was asked.                      *)
THEOREM GapsTheorem == Spec => []GapsAreSaid
<1>1. ScanInv => GapsAreSaid
  BY DEF ScanInv, Accounted, GapsAreSaid, IsPartial
<1> QED
  BY <1>1, InitHInv, NextScanInv, PTL DEF Spec

(* What is called unused, by a list or a trace with all the coverage it    *)
(* claims, belongs to a set that nothing else uses: no rule, no other      *)
(* object, and on no firewall a dynamic group.                             *)
THEOREM UnusedTheorem == Spec => []CalledUnusedIsUnused
<1>1. HInv /\ ScanInv /\ Reported => CalledUnusedIsUnused
  <2>1. ScanInv => GapsAreSaid
    BY DEF ScanInv, Accounted, GapsAreSaid, IsPartial
  <2> QED
    BY <2>1, ReportsIsolated
<1> QED
  BY <1>1, InitHInv, InitReported, NextHInv, NextScanInv, NextReported, PTL DEF Spec

(* Deleting what a report of this very configuration listed, all of it or  *)
(* a pick, with whatever groups that empties, leaves every rule the report *)
(* looked at with what it stood for.                                       *)
THEOREM CleanupTheorem == Spec => CleanupKeepsRules
<1> DEFINE live == Seen(report.live)
           only == report.enabledOnly
           Kept(after) == \A rule \in {i \in DOMAIN cfg : i.space \in RuleSpaces} :
                            ~(only /\ rule \in DisabledRules) =>
                                /\ rule \in DOMAIN after
                                /\ Stands(after, live, rule) = Stands(cfg, live, rule)
           Good == changes' > changes /\ run'.op = "cleanup" => Kept(cfg')
<1>1. ASSUME HInv, Reported, [Next]_vars PROVE Good
  <2> SUFFICES ASSUME changes' > changes, run'.op = "cleanup" PROVE Kept(cfg')
    OBVIOUS
  <2>1. Cleanup
    <3>1. changes \in Nat
      BY <1>1 DEF HInv
    <3>2. CASE Scanning \/ ReportUnused \/ Trace \/ UNCHANGED vars
      <4>1. changes' = changes
        BY <3>2 DEF Scanning, ReportUnused, Trace, Reporting, vars
      <4> QED
        BY <3>1, <4>1
    <3>3. CASE Import
      BY <3>3 DEF Import
    <3>4. \A op, plan, puts : Change(op, plan, puts) => run'.op = op
      BY DEF Change
    <3>5. CASE Set
      BY <3>4, <3>5 DEF Set
    <3>6. CASE EditGroup
      <4>1. \E plan, puts : Change("edit", plan, puts)
        BY <3>6 DEF EditGroup
      <4> QED
        BY <3>4, <4>1
    <3>7. CASE EditRule
      <4>1. \E plan, puts : Change("edit", plan, puts)
        BY <3>7 DEF EditRule
      <4> QED
        BY <3>4, <4>1
    <3>8. CASE Rename
      <4>1. \E plan, puts : Change("rename", plan, puts)
        BY <3>8 DEF Rename
      <4> QED
        BY <3>4, <4>1
    <3>9. CASE Delete
      <4>1. \E plan, puts : Change("delete", plan, puts)
        BY <3>9 DEF Delete, Purge
      <4> QED
        BY <3>4, <4>1
    <3> QED
      BY <1>1, <3>2, <3>3, <3>5, <3>6, <3>7, <3>8, <3>9 DEF Next
  <2>2. PICK targets \in {report.objects} \cup {{i} : i \in report.objects} : Purge(cfg, "cleanup", targets)
    BY <2>1 DEF Cleanup
  <2> DEFINE cm == Purging(targets)
             p == PlanTeardown(cfg, cm, Cascade(cfg, cm))
             R == ReachedByRules(cfg, live, only)
  <2>3. /\ IsDocument(document) /\ IsConfig(cfg) /\ Restricts(cfg)
        /\ report.objects \subseteq DOMAIN cfg \cap ObjectIds
    BY <1>1, ConfigRead, ParseRestricts DEF HInv, cfg
  <2>4. report.objects \cap R = {}
    <3>1. \/ \E kind \in ReportedKinds : report.objects = Unused(cfg, live, kind, only)
          \/ \E id \in DOMAIN cfg \cap ObjectIds :
                report.objects = {id} /\ ReferrersOf(cfg, live, id) = {}
      BY <1>1, <2>1 DEF Reported, Cleanup
    <3> HIDE DEF live, only
    <3> QED
      BY <2>3, <3>1, UnusedUnreached
  <2>5. targets \in SUBSET ObjectIds /\ targets \cap R = {}
    BY <2>2, <2>3, <2>4
  <2>6. document' = ApplyDoc(document, p)
    BY <2>2 DEF Purge, Change, Purging
  <2>7. Revises(cfg, p)
    BY <1>1, <2>5, PurgeFits DEF Purging
  <2> HIDE DEF p
  <2>8. cfg' = Apply(cfg, p)
    <3>1. Parse(ApplyDoc(document, p)) = Apply(Parse(document), p)
      BY <2>3, <2>7, ApplyMatches DEF Revises, cfg
    <3> QED
      BY <2>6, <3>1 DEF cfg
  <2> DEFINE cc == Apply(cfg, p)
  <2>9. cc = Apply(cfg, p) /\ p = PlanTeardown(cfg, cm, Cascade(cfg, cm)) /\ R = ReachedByRules(cfg, live, only)
         /\ cm = Purging(targets)
    BY DEF p
  <2> HIDE DEF cm, R, live, only, cc
  <2>10. /\ IsConfig(cc) /\ DOMAIN cc = DOMAIN cfg \ (p.ruleDeletes \cup p.deletes)
         /\ \A i \in R : i \in DOMAIN cc /\ cc[i] = cfg[i]
         /\ \A i \in DOMAIN cc : cc[i].kind = cfg[i].kind /\ (cfg[i].kind = "address" => cc[i] = cfg[i])
         /\ \A i \in DOMAIN cfg : i.space \in RuleSpaces /\ ~(only /\ i \in DisabledRules)
              => i \in DOMAIN cc /\ cc[i] = cfg[i]
    BY <2>3, <2>5, <2>9, CleanupSpares
  <2>11. ASSUME NEW rule \in DOMAIN cfg, rule.space \in RuleSpaces, ~(only /\ rule \in DisabledRules)
         PROVE  rule \in DOMAIN cc /\ Stands(cc, live, rule) = Stands(cfg, live, rule)
    <3>1. rule \in DOMAIN cc /\ cc[rule] = cfg[rule] /\ DOMAIN cc \subseteq DOMAIN cfg
      BY <2>10, <2>11
    <3> QED
      BY <2>3, <2>10, <2>11, <3>1, SameStands DEF R
  <2>12. Kept(cc)
    BY <2>11
  <2>13. cfg' = cc
    BY <2>8 DEF cc
  <2> QED
    BY <2>12, <2>13
<1>2. HInv /\ Reported /\ [Next]_vars => [Good]_vars
  BY <1>1
<1> QED
  BY <1>2, InitHInv, InitReported, NextHInv, NextReported, PTL DEF Spec, CleanupKeepsRules

(* The document and the plan tell the same story, after every change of    *)
(* every sequence: what the next parse of the edited elements reads is     *)
(* what the executor's model says, unless a put fills a list that was      *)
(* emptied before, or a file gives one object two types.                   *)
THEOREM FollowsTheorem == Spec => DocumentFollowsPlan
<1> DEFINE Good ==
      changes' > changes /\ ~FillsHollow(run'.puts) /\ ~PutsTwoTypes(run'.puts) =>
        cfg' = IF run'.op = "import" THEN Collected(cfg, run'.puts) ELSE Apply(cfg, run'.plan)
<1>1. ASSUME HInv, [Next]_vars PROVE Good
  <2> SUFFICES ASSUME changes' > changes, ~FillsHollow(run'.puts), ~PutsTwoTypes(run'.puts)
               PROVE  cfg' = IF run'.op = "import" THEN Collected(cfg, run'.puts) ELSE Apply(cfg, run'.plan)
    OBVIOUS
  <2>1. IsDocument(document)
    BY <1>1 DEF HInv
  <2>2. CASE Changing
    <3>1. PICK plan : Changed(plan)
      BY <1>1, <2>2, ChangingPlans
    <3>2. PICK op, puts :
            /\ Change(op, plan, puts) /\ op # "import"
            /\ \/ Revises(cfg, plan)
               \/ \E put : /\ puts = <<put>> /\ plan = Putting(put.id, put.entry)
                           /\ Suits(cfg, put) /\ Fits(cfg, plan)
      BY <3>1 DEF Changed
    <3>3. /\ run'.op = op /\ run'.plan = plan /\ run'.puts = puts
          /\ document' = ApplyDoc(document, plan)
      BY <3>2 DEF Change
    <3>4. CASE Revises(cfg, plan)
      <4>1. Parse(ApplyDoc(document, plan)) = Apply(Parse(document), plan)
        BY <2>1, <3>4, ApplyMatches DEF Revises, cfg
      <4> QED
        BY <3>2, <3>3, <4>1 DEF cfg
    <3>5. CASE \E put : puts = <<put>> /\ plan = Putting(put.id, put.entry) /\ Suits(cfg, put)
      <4>1. PICK put : puts = <<put>> /\ plan = Putting(put.id, put.entry) /\ Suits(cfg, put)
        BY <3>5
      <4>2. 1 \in DOMAIN puts /\ puts[1] = put
        BY <4>1
      <4>3. Solid(document, put)
        BY <3>3, <4>2 DEF FillsHollow, Solid
      <4>4. Parse(ApplyDoc(document, Putting(put.id, put.entry))) = Apply(Parse(document), Putting(put.id, put.entry))
        BY <2>1, <4>1, <4>3, PuttingMatches DEF cfg
      <4> QED
        BY <3>2, <3>3, <4>1, <4>4 DEF cfg
    <3> QED
      BY <3>2, <3>4, <3>5
  <2>3. CASE Import
    <3>1. PICK records \in Imports :
            /\ ~ImportRefused(cfg, records) /\ document' = Loading(document, records)
            /\ run' = [op |-> "import", plan |-> EmptyPlan, puts |-> records]
      BY <2>3 DEF Import
    <3>2. run'.op = "import" /\ run'.puts = records /\ IsFile(records)
      BY <3>1, PutsAssumption DEF IsFile
    <3>3. ASSUME NEW j \in DOMAIN records, NEW k \in DOMAIN records PROVE SameType(records[j], records[k])
      BY <3>2 DEF PutsTwoTypes, SameType
    <3>4. ASSUME NEW k \in DOMAIN records PROVE Solid(document, records[k])
      BY <3>2 DEF FillsHollow, Solid
    <3>5. Parse(Loading(document, records)) = Collected(Parse(document), records)
      BY <2>1, <3>1, <3>2, <3>3, <3>4, FileMatches DEF cfg
    <3> QED
      BY <3>1, <3>2, <3>5 DEF cfg
  <2>4. CASE Scanning \/ ReportUnused \/ Trace \/ UNCHANGED vars
    <3>1. changes' = changes
      BY <2>4 DEF Scanning, ReportUnused, Trace, Reporting, vars
    <3>2. changes \in Nat
      BY <1>1 DEF HInv
    <3> QED
      BY <3>1, <3>2
  <2> QED
    BY <1>1, <2>2, <2>3, <2>4 DEF Next, Changing
<1>2. HInv /\ [Next]_vars => [Good]_vars
  BY <1>1
<1> QED
  BY <1>2, InitHInv, NextHInv, NextScanInv, PTL DEF Spec, DocumentFollowsPlan
=============================================================================
