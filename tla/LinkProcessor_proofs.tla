------------------------ MODULE LinkProcessor_proofs ------------------------
(* Proofs about LinkProcessor where a list is only pasted when nothing is      *)
(* outstanding. No answer says which link it is about, and an import looks at  *)
(* the list as it is when its folder exists. Both are right because there is   *)
(* at most one request, for the link behind those that were answered, and      *)
(* because nothing touches the objects while a folder is being created. The    *)
(* types hold without that.                                                    *)
EXTENDS LinkProcessor, TLAPS, SequenceTheorems

Alone == Overlap = FALSE

(* The one request that may be outstanding, and what it is about.              *)
OneIsAsked ==
    /\ \A ask \in outstanding : current < Len(list) /\ ask.link = list[current + 1]
    /\ \A ask, other \in outstanding : ask = other
    /\ \A ask \in outstanding : ask.type = "fetchNodes" => folder = ask.link

(* The objects: those of links that were answered, and those of the others.    *)
WellFormed(object) ==
    /\ object.selected => object.correct
    /\ object.correct => object.type # "INVALID"

ObjectsInv ==
    \A i \in 1..Len(list) :
        /\ WellFormed(objects[i])
        /\ i <= current => objects[i].link = list[i]
        /\ i > current => ~objects[i].correct

(* How far the user and the import are with the list.                          *)
StageInv ==
    /\ list = <<>> \/ list \in Lists \cap pasted
    /\ dialog = "finished" => outstanding = {}
    /\ \A of \in creating : of = list /\ outstanding = {} /\ dialog = "none"
    /\ outstanding # {} => list # <<>>

(* What was accepted. While the folder of an import is being created, what is  *)
(* selected is what was accepted.                                              *)
SelectedLinks == {list[i] : i \in SelectedRows}

ChoiceInv ==
    /\ \A x \in wanted : \E of \in pasted : x[1] \in LinksOf(of)
    /\ dialog # "none" => \A x \in wanted : x[1] \notin LinksOf(list)
    /\ \A of \in creating : \A x \in Links \X Ways :
        /\ x[2] = "import" /\ x[1] \in LinksOf(list) => (x \in wanted <=> x[1] \in SelectedLinks)
        /\ x[2] = "import" /\ x[1] \in LinksOf(list) => handed[x] = 0
    /\ ChoicesAreFollowed

Inv == TypeOK /\ OneIsAsked /\ ObjectsInv /\ StageInv /\ ChoiceInv
-----------------------------------------------------------------------------
(* Sequences of objects, and what the assumption on the lists says.            *)

LEMMA Rows ==
    ASSUME TypeOK, NEW i \in 1..Len(list)
    PROVE  list[i] \in Links /\ objects[i] \in Objects
  BY DEF TypeOK

LEMMA ObjectsOf ==
    ASSUME NEW n \in Nat, NEW f \in [1..n -> Objects]
    PROVE  f \in Seq(Objects) /\ Len(f) = n
  OBVIOUS

LEMMA ListIsOne ==
    ASSUME NEW a \in Lists
    PROVE  a \in Seq(Links) /\ Len(a) \in Nat \ {0} /\ a[1] \in Links
  <1>1. a \in Seq(Links) /\ a # <<>>
    BY ListsAssumption
  <1> QED BY <1>1

LEMMA ListsDiffer ==
    ASSUME NEW a \in Lists, NEW b \in Lists, NEW link \in LinksOf(a), link \in LinksOf(b)
    PROVE  a = b
  <1>1. LinksOf(a) \cap LinksOf(b) # {} => a = b
    BY ListsAssumption
  <1> QED BY <1>1

LEMMA RequestOf ==
    ASSUME NEW link \in Links
    PROVE  /\ requestLinkInfo(link) \in Requests
           /\ requestLinkInfo(link).link = link
           /\ requestLinkInfo(link).type # "fetchNodes"
  BY DEF requestLinkInfo, Requests

LEMMA InvInit == Init => Inv
  <1> SUFFICES ASSUME Init PROVE Inv
    OBVIOUS
  <1>1. TypeOK
    BY DEF Init, TypeOK
  <1>2. OneIsAsked /\ ObjectsInv /\ StageInv
    BY DEF Init, OneIsAsked, ObjectsInv, StageInv
  <1>3. ChoiceInv
    BY DEF Init, ChoiceInv, ChoicesAreFollowed
  <1> QED BY <1>1, <1>2, <1>3 DEF Inv

-----------------------------------------------------------------------------
(* A new list: nothing is outstanding, and its links were in none before.      *)

LEMMA PasteStep ==
    ASSUME Alone, Inv, NEW new \in Lists, paste(new)
    PROVE  Inv'
  <1> USE DEF Inv
  <1>1. outstanding = {} /\ creating = {} /\ new \notin pasted /\ dialog = "none"
    BY DEF paste, Alone
  <1>2. list' = new /\ new \in Seq(Links) /\ Len(new) \in Nat \ {0} /\ new[1] \in Links
    BY ListIsOne DEF paste
  <1>3. objects' = [i \in 1..Len(new) |-> Unknown] /\ Unknown \in Objects
    BY DEF paste, Objects, Unknown
  <1>4. objects' \in Seq(Objects) /\ Len(objects') = Len(new)
    <2>1. objects' \in [1..Len(new) -> Objects]
      BY <1>3
    <2> QED BY <2>1, <1>2, ObjectsOf
  <1>5. outstanding' = {requestLinkInfo(new[1])} /\ current' = 0
    BY <1>1 DEF paste
  <1>6. TypeOK'
    BY <1>2, <1>4, <1>5, RequestOf DEF TypeOK, paste
  <1>7. OneIsAsked'
    BY <1>2, <1>5, RequestOf DEF OneIsAsked
  <1>8. ObjectsInv'
    BY <1>2, <1>3, <1>5 DEF ObjectsInv, WellFormed, Unknown
  <1>9. StageInv'
    BY <1>1, <1>2 DEF StageInv, paste
  <1>10. ChoiceInv'
    <2>1. UNCHANGED <<creating, wanted, handed, lost>> /\ pasted' = pasted \union {new}
      BY DEF paste
    <2>2. \A x \in wanted : x[1] \notin LinksOf(new)
      <3> SUFFICES ASSUME NEW x \in wanted, x[1] \in LinksOf(new) PROVE FALSE
        OBVIOUS
      <3>1. PICK of \in pasted : x[1] \in LinksOf(of)
        BY DEF ChoiceInv
      <3>2. of = new
        BY <3>1, ListsDiffer DEF TypeOK
      <3> QED BY <1>1, <3>1, <3>2
    <2>3. ChoicesAreFollowed'
      BY <2>1 DEF ChoiceInv, ChoicesAreFollowed
    <2> QED BY <1>1, <1>2, <2>1, <2>2, <2>3 DEF ChoiceInv
  <1> QED BY <1>6, <1>7, <1>8, <1>9, <1>10

-----------------------------------------------------------------------------
(* An answer that is stored: it is the only one, and about the next link.      *)

LEMMA StoreStep ==
    ASSUME Inv, NEW ask \in outstanding, NEW object \in Objects,
           object.link = ask.link, WellFormed(object),
           store(object, outstanding \ {ask}),
           folder' \in Links \union {NoLink},
           UNCHANGED <<list, creating, pasted, wanted, handed, lost>>
    PROVE  Inv'
  <1> USE DEF Inv
  <1>1. /\ current < Len(list) /\ Len(objects) = Len(list)
        /\ list \in Seq(Links) /\ objects \in Seq(Objects) /\ current \in 0..Len(list)
    BY DEF OneIsAsked, TypeOK
  <1> DEFINE next == current + 1
  <1>2. next \in 1..Len(list) /\ object.link = list[next]
    BY <1>1 DEF OneIsAsked
  <1>3. outstanding \ {ask} = {} /\ creating = {}
    BY DEF OneIsAsked, StageInv
  <1>4. /\ objects' = [objects EXCEPT ![next] = object]
        /\ current' = next
        /\ continueOrFinishLinkInfoReq({})
    BY <1>1, <1>3 DEF store
  <1>5. /\ objects' \in Seq(Objects) /\ Len(objects') = Len(list)
        /\ \A j \in 1..Len(list) : objects'[j] = IF j = next THEN object ELSE objects[j]
    <2> HIDE DEF next
    <2> QED BY <1>1, <1>2, <1>4, ExceptSeq
  <1>6. \/ next = Len(list) /\ outstanding' = {} /\ dialog' \in {"none", "finished"}
           /\ (dialog' = "none" <=> dialog = "none")
        \/ next < Len(list) /\ outstanding' = {requestLinkInfo(list[next + 1])} /\ dialog' = dialog
    <2>1. CASE next = Len(list)
      BY <1>4, <2>1 DEF continueOrFinishLinkInfoReq
    <2>2. CASE next # Len(list)
      BY <1>1, <1>4, <2>2 DEF continueOrFinishLinkInfoReq, NextRequest
    <2> QED BY <2>1, <2>2
  <1>7. next < Len(list) => list[next + 1] \in Links
    BY <1>1
  <1>8. TypeOK'
    <2>1. outstanding' \subseteq Requests
      BY <1>6, <1>7, RequestOf
    <2>2. dialog' \in {"none", "open", "finished"}
      BY <1>6 DEF TypeOK
    <2> QED BY <1>1, <1>2, <1>4, <1>5, <2>1, <2>2 DEF TypeOK
  <1>9. OneIsAsked'
    BY <1>1, <1>4, <1>6, <1>7, RequestOf DEF OneIsAsked
  <1>10. ObjectsInv'
    <2> SUFFICES ASSUME NEW i \in 1..Len(list)
                 PROVE  /\ WellFormed(objects'[i])
                        /\ i <= next => objects'[i].link = list[i]
                        /\ i > next => ~objects'[i].correct
      BY <1>4 DEF ObjectsInv, WellFormed
    <2>1. CASE i = next
      BY <1>2, <1>5, <2>1
    <2>2. CASE i # next
      <3>1. objects'[i] = objects[i] /\ (i <= next => i <= current) /\ (i > next => i > current)
        BY <1>1, <1>5, <2>2
      <3> QED BY <3>1 DEF ObjectsInv
    <2> QED BY <2>1, <2>2
  <1>11. StageInv'
    BY <1>1, <1>3, <1>6, RequestOf DEF StageInv
  <1>12. ChoiceInv'
    <2>1. ChoicesAreFollowed'
      BY DEF ChoiceInv, ChoicesAreFollowed
    <2>2. dialog' # "none" => dialog # "none"
      BY <1>6
    <2> QED BY <1>3, <2>1, <2>2 DEF ChoiceInv
  <1> QED BY <1>8, <1>9, <1>10, <1>11, <1>12

LEMMA ObjectsMade ==
    ASSUME NEW link \in Links,
           NEW object \in LinkInvalid(link) \union LinkNodes(link) \union LinkSets(link)
    PROVE  object \in Objects /\ object.link = link /\ WellFormed(object)
  <1>1. PICK type \in {"INVALID", "NODE", "SET"}, c \in BOOLEAN :
            object = Object(link, type, c) /\ (c => type # "INVALID")
    BY DEF LinkInvalid, LinkNodes, LinkSets
  <1>2. object = [link |-> link, type |-> type, correct |-> c, selected |-> c /\ dialog # "none"]
    BY <1>1 DEF Object
  <1>3. (c /\ dialog # "none") \in BOOLEAN
    OBVIOUS
  <1>4. object \in Objects
    BY <1>2, <1>3 DEF Objects
  <1> QED BY <1>1, <1>2, <1>4 DEF WellFormed

LEMMA AskedIsTyped ==
    ASSUME TypeOK, NEW type, NEW link, Ask(type, link) \in outstanding
    PROVE  link \in Links /\ Ask(type, link).link = link /\ Ask(type, link).type = type
  BY DEF TypeOK, Requests, Ask

LEMMA AnswerStep ==
    ASSUME Inv, NEW link \in Links,
           \/ onGetPublicNode(link) \/ onFetchSetFromLink(link)
           \/ \E ok \in BOOLEAN : onFetchNodes(link, ok)
           \/ onLogin(link, FALSE)
    PROVE  Inv'
  <1>0. TypeOK /\ folder \in Links \union {NoLink}
    BY DEF Inv, TypeOK
  <1>1. CASE onGetPublicNode(link)
    <2>1. PICK object \in LinkInvalid(link) \union LinkNodes(link) :
            store(object, outstanding \ {Ask("getPublicNode", link)})
      BY <1>1 DEF onGetPublicNode
    <2> QED BY <1>0, <1>1, <2>1, ObjectsMade, AskedIsTyped, StoreStep DEF onGetPublicNode, Answered
  <1>2. CASE onFetchSetFromLink(link)
    <2>1. PICK object \in LinkSets(link) : store(object, outstanding \ {Ask("fetchSet", link)})
      BY <1>2 DEF onFetchSetFromLink
    <2> QED BY <1>0, <1>2, <2>1, ObjectsMade, AskedIsTyped, StoreStep DEF onFetchSetFromLink, Answered
  <1>3. CASE \E ok \in BOOLEAN : onFetchNodes(link, ok)
    <2>1. PICK ok \in BOOLEAN : onFetchNodes(link, ok)
      BY <1>3
    <2>2. Ask("fetchNodes", link) \in outstanding
      BY <2>1 DEF onFetchNodes, Answered
    <2>3. folder = link
      BY <1>0, <2>2, AskedIsTyped DEF Inv, OneIsAsked
    <2>4. PICK object \in LinkInvalid(link) \union LinkNodes(link) :
            store(object, outstanding \ {Ask("fetchNodes", link)})
      BY <2>1, <2>3 DEF onFetchNodes
    <2> QED BY <1>0, <2>1, <2>2, <2>4, ObjectsMade, AskedIsTyped, StoreStep DEF onFetchNodes, Answered
  <1>4. CASE onLogin(link, FALSE)
    <2>1. PICK object \in LinkInvalid(link) : store(object, outstanding \ {Ask("login", link)})
      BY <1>4 DEF onLogin
    <2>2. folder' = folder
      BY <1>4 DEF onLogin
    <2> QED BY <1>0, <1>4, <2>1, <2>2, ObjectsMade, AskedIsTyped, StoreStep DEF onLogin, Answered
  <1> QED BY <1>1, <1>2, <1>3, <1>4

LEMMA LoginStep ==
    ASSUME Inv, NEW link \in Links, onLogin(link, TRUE)
    PROVE  Inv'
  <1> USE DEF Inv
  <1> DEFINE ask == Ask("login", link)
  <1>1. ask \in outstanding /\ ask.link = link
    BY DEF onLogin, Answered, Ask
  <1>2. current < Len(list) /\ link = list[current + 1] /\ outstanding = {ask} /\ creating = {}
    <2> HIDE DEF ask
    <2> QED BY <1>1 DEF OneIsAsked, StageInv
  <1>3. /\ outstanding' = {Ask("fetchNodes", link)}
        /\ folder' = link
        /\ UNCHANGED <<list, objects, current, dialog, creating, history>>
    BY <1>2 DEF onLogin, Answered, TypeOK, history
  <1>4. Ask("fetchNodes", link) \in Requests /\ Ask("fetchNodes", link).link = link
    BY DEF Ask, Requests
  <1>5. TypeOK'
    BY <1>3, <1>4 DEF TypeOK, history
  <1>6. OneIsAsked'
    BY <1>2, <1>3, <1>4 DEF OneIsAsked
  <1>7. ObjectsInv'
    BY <1>3 DEF ObjectsInv, WellFormed
  <1>8. StageInv'
    BY <1>1, <1>2, <1>3 DEF StageInv, history
  <1>9. ChoiceInv'
    <2>1. UNCHANGED <<list, objects, dialog, creating, pasted, wanted, handed, lost>>
      BY <1>3 DEF history
    <2> QED BY <2>1, <1>2 DEF ChoiceInv, ChoicesAreFollowed
  <1> QED BY <1>5, <1>6, <1>7, <1>8, <1>9

LEMMA SetFailsStep ==
    ASSUME Inv, NEW link \in Links, fetchSetFails(link)
    PROVE  Inv'
  <1> USE DEF Inv
  <1>1. /\ Ask("fetchSet", link) \in outstanding
        /\ outstanding' = outstanding \ {Ask("fetchSet", link)}
        /\ lost' = lost \union {<<link, "info">>}
        /\ UNCHANGED <<list, objects, current, folder, dialog, creating, pasted, wanted, handed>>
    BY DEF fetchSetFails, Answered
  <1>2. TypeOK'
    BY <1>1 DEF TypeOK
  <1>3. OneIsAsked'
    BY <1>1 DEF OneIsAsked
  <1>4. ObjectsInv'
    BY <1>1 DEF ObjectsInv, WellFormed
  <1>5. StageInv'
    BY <1>1 DEF StageInv
  <1>6. ChoiceInv'
    <2>1. creating = {}
      BY <1>1 DEF StageInv
    <2>2. ChoicesAreFollowed'
      BY <1>1 DEF ChoiceInv, ChoicesAreFollowed
    <2> QED BY <1>1, <2>1, <2>2 DEF ChoiceInv
  <1> QED BY <1>2, <1>3, <1>4, <1>5, <1>6

-----------------------------------------------------------------------------
(* The user: what is selected changes only while no folder is being created.   *)

(* The same object, selected or not.                                          *)
SameBut(object, old) ==
    /\ object.link = old.link
    /\ object.type = old.type
    /\ object.correct = old.correct
    /\ object.selected => old.correct

LEMMA Selected ==
    ASSUME NEW object \in Objects, NEW b \in BOOLEAN, b => object.correct
    PROVE  /\ [object EXCEPT !.selected = b] \in Objects
           /\ SameBut([object EXCEPT !.selected = b], object)
  BY DEF Objects, SameBut

LEMMA SelectStep ==
    ASSUME Inv, (\E i \in 1..Len(objects) : onLinkStateChanged(i)) \/ refreshLinkInfo
    PROVE  Inv'
  <1> USE DEF Inv
  <1>1. /\ dialog # "none"
        /\ UNCHANGED <<list, current, folder, outstanding, creating, dialog, pasted, wanted, handed, lost>>
    BY DEF onLinkStateChanged, refreshLinkInfo, history
  <1>2. Len(objects) = Len(list) /\ objects \in Seq(Objects) /\ list \in Seq(Links)
    BY DEF TypeOK
  <1>3. /\ objects' \in Seq(Objects) /\ Len(objects') = Len(list)
        /\ \A j \in 1..Len(list) : SameBut(objects'[j], objects[j])
    <2>0. \A j \in 1..Len(list) : objects[j] \in Objects /\ SameBut(objects[j], objects[j])
      BY Rows DEF ObjectsInv, WellFormed, SameBut
    <2>1. CASE \E i \in 1..Len(objects) : onLinkStateChanged(i)
      <3>1. PICK i \in 1..Len(objects) : onLinkStateChanged(i)
        BY <2>1
      <3> DEFINE new == [objects[i] EXCEPT !.selected = ~objects[i].selected]
      <3>2. objects[i] \in Objects /\ objects[i].correct /\ (~objects[i].selected) \in BOOLEAN
        BY <1>2, <2>0, <3>1 DEF onLinkStateChanged
      <3>3. new \in Objects /\ SameBut(new, objects[i])
        BY <3>2, Selected
      <3>4. objects' = [objects EXCEPT ![i] = new]
        BY <1>2, <3>1 DEF onLinkStateChanged
      <3>5. /\ objects' \in Seq(Objects) /\ Len(objects') = Len(list)
            /\ \A j \in 1..Len(list) : objects'[j] = IF j = i THEN new ELSE objects[j]
        <4> HIDE DEF new
        <4> QED BY <1>2, <3>3, <3>4, ExceptSeq
      <3> HIDE DEF new
      <3> QED BY <2>0, <3>3, <3>5
    <2>2. CASE refreshLinkInfo
      <3> DEFINE new(i) == [objects[i] EXCEPT !.selected = objects[i].correct]
      <3>1. objects' = [i \in 1..Len(objects) |-> IF i <= current THEN new(i) ELSE objects[i]]
        BY <2>2 DEF refreshLinkInfo
      <3>2. \A j \in 1..Len(list) : objects[j].correct \in BOOLEAN
        BY <2>0 DEF Objects
      <3>3. \A j \in 1..Len(list) : new(j) \in Objects /\ SameBut(new(j), objects[j])
        BY <2>0, <3>2, Selected
      <3> HIDE DEF new
      <3>4. objects' \in [1..Len(list) -> Objects]
        BY <1>2, <2>0, <3>1, <3>3
      <3>5. objects' \in Seq(Objects) /\ Len(objects') = Len(list)
        BY <1>2, <3>4, ObjectsOf
      <3> QED BY <1>2, <2>0, <3>1, <3>3, <3>5
    <2> QED BY <2>1, <2>2
  <1>4. TypeOK'
    BY <1>1, <1>3 DEF TypeOK
  <1>5. OneIsAsked'
    BY <1>1 DEF OneIsAsked
  <1>6. ObjectsInv'
    <2> SUFFICES ASSUME NEW i \in 1..Len(list)
                 PROVE  /\ WellFormed(objects'[i])
                        /\ i <= current => objects'[i].link = list[i]
                        /\ i > current => ~objects'[i].correct
      BY <1>1 DEF ObjectsInv, WellFormed
    <2>1. SameBut(objects'[i], objects[i])
      BY <1>3
    <2> QED BY <2>1 DEF ObjectsInv, WellFormed, SameBut
  <1>7. StageInv'
    BY <1>1 DEF StageInv
  <1>8. ChoiceInv'
    <2>1. creating = {}
      BY <1>1 DEF StageInv
    <2>2. ChoicesAreFollowed'
      BY <1>1 DEF ChoiceInv, ChoicesAreFollowed
    <2> QED BY <1>1, <2>1, <2>2 DEF ChoiceInv
  <1> QED BY <1>4, <1>5, <1>6, <1>7, <1>8

LEMMA RejectStep ==
    ASSUME Inv, reject
    PROVE  Inv'
  <1> USE DEF Inv
  <1>1. /\ dialog' = "none"
        /\ UNCHANGED <<list, objects, current, folder, outstanding, creating, pasted, wanted, handed, lost>>
    BY DEF reject, links, history
  <1>2. TypeOK' /\ OneIsAsked' /\ StageInv'
    BY <1>1 DEF TypeOK, OneIsAsked, StageInv
  <1>3. ObjectsInv'
    BY <1>1 DEF ObjectsInv, WellFormed
  <1>4. ChoiceInv'
    <2>1. SelectedLinks' = SelectedLinks
      BY <1>1 DEF SelectedLinks, SelectedRows
    <2>2. ChoicesAreFollowed'
      BY <1>1 DEF ChoiceInv, ChoicesAreFollowed
    <2>3. creating = {}
      BY DEF StageInv, reject
    <2> QED BY <1>1, <2>2, <2>3 DEF ChoiceInv
  <1> QED BY <1>2, <1>3, <1>4

(* What is selected is an answer that can be had, to the link in its row.      *)
LEMMA HandedIs ==
    ASSUME Inv, NEW way
    PROVE  Handed(way) = {<<link, way>> : link \in SelectedLinks}
  <1>1. Len(objects) = Len(list) /\ current \in 0..Len(list) /\ Len(list) \in Nat
    BY DEF Inv, TypeOK
  <1>2. \A i \in SelectedRows : objects[i].type # "INVALID" /\ objects[i].link = list[i]
    <2> SUFFICES ASSUME NEW i \in SelectedRows
                 PROVE  objects[i].type # "INVALID" /\ objects[i].link = list[i]
      OBVIOUS
    <2>1. i \in 1..Len(list) /\ objects[i].selected
      BY <1>1 DEF SelectedRows
    <2> QED BY <1>1, <2>1 DEF Inv, ObjectsInv, WellFormed
  <1> QED BY <1>2 DEF Handed, SelectedLinks

LEMMA HandOnIs ==
    ASSUME Inv, NEW ways \in SUBSET Ways, HandOn(ways)
    PROVE  /\ handed' \in [Links \X Ways -> Nat]
           /\ \A x \in Links \X Ways :
                handed'[x] = handed[x] + (IF x[1] \in SelectedLinks /\ x[2] \in ways THEN 1 ELSE 0)
  <1>1. \A x \in Links \X Ways : (\E way \in ways : x \in Handed(way)) <=> x[1] \in SelectedLinks /\ x[2] \in ways
    BY HandedIs
  <1>2. handed \in [Links \X Ways -> Nat]
    BY DEF Inv, TypeOK
  <1> QED BY <1>1, <1>2 DEF HandOn

LEMMA SelectedAreInList ==
    ASSUME TypeOK
    PROVE  SelectedLinks \subseteq LinksOf(list) /\ LinksOf(list) \subseteq Links
  BY DEF SelectedLinks, SelectedRows, LinksOf, TypeOK

LEMMA AcceptStep ==
    ASSUME Inv, NEW ways \in SUBSET Ways, NEW parent \in Parents,
           accept(ways, parent)
    PROVE  Inv'
  <1> USE DEF Inv
  <1> DEFINE now == IF parent = "exists" THEN ways ELSE ways \ {"import"}
  <1>1. /\ dialog = "finished" /\ dialog' = "none"
        /\ UNCHANGED <<list, objects, current, folder, outstanding, pasted>>
    BY DEF accept, links
  <1>2. outstanding = {} /\ creating = {} /\ (list = <<>> \/ list \in Lists \cap pasted)
    BY <1>1 DEF StageInv
  <1>3. SelectedLinks \subseteq LinksOf(list) /\ LinksOf(list) \subseteq Links /\ SelectedLinks' = SelectedLinks
    BY <1>1, SelectedAreInList DEF SelectedLinks, SelectedRows
  <1>4. /\ handed' \in [Links \X Ways -> Nat]
        /\ \A x \in Links \X Ways :
             handed'[x] = handed[x] + (IF x[1] \in SelectedLinks /\ x[2] \in now THEN 1 ELSE 0)
    BY HandOnIs DEF accept
  <1>5. wanted' = wanted \union {<<link, way>> : link \in SelectedLinks, way \in ways}
    BY DEF accept, SelectedLinks
  <1>6. SelectedLinks # {} /\ list # <<>>
    <2>1. SelectedRows # {}
      BY DEF accept
    <2>2. Len(objects) = Len(list)
      BY DEF TypeOK
    <2> QED BY <2>1, <2>2 DEF SelectedLinks, SelectedRows
  <1>7. /\ creating' \subseteq {list}
        /\ creating' # {} <=> "import" \in ways /\ parent = "missing"
    BY <1>2 DEF accept
  <1>8. lost' = lost \/ lost' = lost \union (SelectedLinks \X {"import"})
    BY DEF accept, SelectedLinks
  <1>9. "import" \in ways /\ parent \in {"noRoot", "loggedOut"} => SelectedLinks \X {"import"} \subseteq lost'
    BY DEF accept, SelectedLinks
  <1>10. TypeOK'
    <2>1. wanted' \subseteq Links \X Ways
      BY <1>3, <1>5 DEF TypeOK
    <2>2. lost' \subseteq Links \X (Ways \union {"info"})
      BY <1>3, <1>8 DEF TypeOK, Ways
    <2>3. creating' \subseteq Lists
      BY <1>2, <1>6, <1>7
    <2> QED BY <1>1, <1>4, <2>1, <2>2, <2>3 DEF TypeOK
  <1>11. OneIsAsked' /\ StageInv'
    BY <1>1, <1>2, <1>7 DEF OneIsAsked, StageInv
  <1>12. ObjectsInv'
    BY <1>1 DEF ObjectsInv, WellFormed
  <1>13. \A x \in Links \X Ways :
            x \in wanted' <=> x \in wanted \/ (x[1] \in SelectedLinks /\ x[2] \in ways)
    BY <1>5
  <1>14. \A x \in Links \X Ways : x[1] \in LinksOf(list) => x \notin wanted /\ handed[x] = 0
    BY <1>1 DEF ChoiceInv, ChoicesAreFollowed
  <1>15. ChoicesAreFollowed'
    <2> SUFFICES ASSUME NEW x \in Links \X Ways
                 PROVE  /\ x \notin wanted' => handed'[x] = 0
                        /\ x \in wanted' =>
                            \/ handed'[x] = 1
                            \/ handed'[x] = 0 /\ x[2] = "import"
                               /\ (x \in lost' \/ \E of \in creating' : x[1] \in LinksOf(of))
      BY DEF ChoicesAreFollowed
    <2>0. handed[x] \in Nat /\ lost \subseteq lost'
      BY <1>8 DEF TypeOK
    <2>1. CASE ~(x[1] \in SelectedLinks /\ x[2] \in ways)
      <3>1. handed'[x] = handed[x] /\ (x \in wanted' <=> x \in wanted)
        BY <1>4, <1>13, <2>0, <2>1
      <3>2. /\ x \notin wanted => handed[x] = 0
            /\ x \in wanted => handed[x] = 1 \/ (handed[x] = 0 /\ x[2] = "import" /\ x \in lost)
        BY <1>2 DEF ChoiceInv, ChoicesAreFollowed
      <3> QED BY <2>0, <3>1, <3>2
    <2>2. CASE x[1] \in SelectedLinks /\ x[2] \in now
      BY <1>3, <1>4, <1>13, <1>14, <2>2
    <2>3. CASE x[1] \in SelectedLinks /\ x[2] \in ways /\ x[2] \notin now
      <3>1. x[2] = "import" /\ parent \in Parents \ {"exists"} /\ x = <<x[1], x[2]>>
        BY <2>3
      <3>2. x \in lost' \/ list \in creating'
        BY <1>7, <1>9, <2>3, <3>1 DEF Parents
      <3> QED BY <1>3, <1>4, <1>13, <1>14, <2>3, <3>1, <3>2
    <2> QED BY <2>1, <2>2, <2>3
  <1>16. ChoiceInv'
    <2>1. \A x \in wanted' : \E of \in pasted : x[1] \in LinksOf(of)
      BY <1>2, <1>3, <1>5, <1>6 DEF ChoiceInv
    <2>2. ASSUME NEW of \in creating', NEW x \in Links \X Ways, x[2] = "import", x[1] \in LinksOf(list)
          PROVE  (x \in wanted' <=> x[1] \in SelectedLinks) /\ handed'[x] = 0
      <3>1. "import" \in ways /\ parent = "missing"
        BY <1>7, <2>2
      <3>2. x \notin wanted /\ handed[x] = 0
        BY <1>14, <2>2
      <3>3. x[2] \in ways /\ x[2] \notin now
        BY <2>2, <3>1
      <3> QED BY <1>4, <1>13, <3>2, <3>3
    <2> QED BY <1>1, <1>3, <1>15, <2>1, <2>2 DEF ChoiceInv
  <1> QED BY <1>10, <1>11, <1>12, <1>16

-----------------------------------------------------------------------------
(* The folder of an import is there, or is not: what is selected is still what *)
(* was accepted.                                                               *)

LEMMA FolderStep ==
    ASSUME Inv, NEW of \in Lists, NEW ok \in BOOLEAN, onCreateFolder(of, ok)
    PROVE  Inv'
  <1> USE DEF Inv
  <1>1. /\ of \in creating /\ creating' = creating \ {of}
        /\ UNCHANGED <<list, objects, current, folder, outstanding, dialog, pasted, wanted>>
    BY DEF onCreateFolder, links
  <1>2. of = list /\ creating' = {} /\ outstanding = {} /\ dialog = "none"
    BY <1>1 DEF StageInv
  <1>3. SelectedLinks \subseteq LinksOf(list) /\ LinksOf(list) \subseteq Links
    BY SelectedAreInList
  <1> DEFINE now == IF ok THEN {"import"} ELSE {}
  <1>4. /\ handed' \in [Links \X Ways -> Nat]
        /\ \A x \in Links \X Ways :
             handed'[x] = handed[x] + (IF x[1] \in SelectedLinks /\ x[2] \in now THEN 1 ELSE 0)
    <2>1. now \in SUBSET Ways /\ HandOn(now)
      BY DEF onCreateFolder, Ways
    <2> HIDE DEF now
    <2> QED BY <2>1, HandOnIs
  <1>5. lost' = IF ok THEN lost ELSE lost \union (LinksOf(list) \X {"import"})
    BY <1>2 DEF onCreateFolder
  <1>6. TypeOK'
    <2>1. lost' \subseteq Links \X (Ways \union {"info"})
      BY <1>3, <1>5 DEF TypeOK, Ways
    <2> QED BY <1>1, <1>4, <2>1 DEF TypeOK
  <1>7. OneIsAsked' /\ StageInv'
    BY <1>1, <1>2 DEF OneIsAsked, StageInv
  <1>8. ObjectsInv'
    BY <1>1 DEF ObjectsInv, WellFormed
  <1>9. ChoicesAreFollowed'
    <2> SUFFICES ASSUME NEW x \in Links \X Ways
                 PROVE  /\ x \notin wanted => handed'[x] = 0
                        /\ x \in wanted =>
                            \/ handed'[x] = 1
                            \/ handed'[x] = 0 /\ x[2] = "import" /\ x \in lost'
      BY <1>1 DEF ChoicesAreFollowed
    <2>0. handed[x] \in Nat /\ lost \subseteq lost' /\ x = <<x[1], x[2]>>
      BY <1>5 DEF TypeOK
    <2>1. /\ x \notin wanted => handed[x] = 0
          /\ x \in wanted => \/ handed[x] = 1
                             \/ handed[x] = 0 /\ x[2] = "import" /\ (x \in lost \/ x[1] \in LinksOf(list))
      <3>1. \A a \in creating : a = list
        BY DEF StageInv
      <3>2. /\ x \notin wanted => handed[x] = 0
            /\ x \in wanted =>
                \/ handed[x] = 1
                \/ handed[x] = 0 /\ x[2] = "import"
                   /\ (x \in lost \/ \E a \in creating : x[1] \in LinksOf(a))
        BY DEF ChoiceInv, ChoicesAreFollowed
      <3>3. (\E a \in creating : x[1] \in LinksOf(a)) => x[1] \in LinksOf(list)
        <4> SUFFICES ASSUME NEW a \in creating, x[1] \in LinksOf(a) PROVE x[1] \in LinksOf(list)
          OBVIOUS
        <4>1. a = list
          BY <3>1
        <4> QED BY <4>1
      <3> QED BY <3>2, <3>3
    <2>2. x[2] = "import" /\ x[1] \in LinksOf(list) =>
            (x \in wanted <=> x[1] \in SelectedLinks) /\ handed[x] = 0
      BY <1>1 DEF ChoiceInv
    <2>3. CASE x[2] = "import" /\ x[1] \in LinksOf(list)
      <3>1. CASE ok
        BY <1>4, <2>0, <2>2, <2>3, <3>1
      <3>2. CASE ~ok
        BY <1>4, <1>5, <2>0, <2>2, <2>3, <3>2
      <3> QED BY <3>1, <3>2
    <2>4. CASE ~(x[2] = "import" /\ x[1] \in LinksOf(list))
      <3>1. handed'[x] = handed[x]
        BY <1>3, <1>4, <2>0, <2>4
      <3> QED BY <2>0, <2>1, <2>4, <3>1
    <2> QED BY <2>3, <2>4
  <1>10. ChoiceInv'
    BY <1>1, <1>2, <1>9 DEF ChoiceInv
  <1> QED BY <1>6, <1>7, <1>8, <1>10

-----------------------------------------------------------------------------
(* The types do not need the assumption: late answers and folders may be about *)
(* links of another list, but mCurrentIndex stays within the one there is.     *)

TypeInv == TypeOK /\ (list = <<>> \/ list \in Lists)

LEMMA ObjectsMadeOf ==
    ASSUME NEW link \in Links \union {NoLink},
           NEW object \in LinkInvalid(link) \union LinkNodes(link) \union LinkSets(link)
    PROVE  object \in Objects
  <1>1. PICK type \in {"INVALID", "NODE", "SET"}, c \in BOOLEAN : object = Object(link, type, c)
    BY DEF LinkInvalid, LinkNodes, LinkSets
  <1>2. (c /\ dialog # "none") \in BOOLEAN
    OBVIOUS
  <1> QED BY <1>1, <1>2 DEF Object, Objects

LEMMA StoreTypes ==
    ASSUME TypeInv, NEW object \in Objects, NEW rest \in SUBSET Requests, store(object, rest),
           folder' \in Links \union {NoLink},
           UNCHANGED <<list, creating, pasted, wanted, handed, lost>>
    PROVE  TypeInv'
  <1> USE DEF TypeInv
  <1>1. /\ Len(objects) = Len(list) /\ Len(list) \in Nat /\ current \in 0..Len(list)
        /\ list \in Seq(Links) /\ objects \in Seq(Objects)
    BY DEF TypeOK
  <1>2. CASE current < Len(objects)
    <2> DEFINE next == current + 1
    <2>1. next \in 1..Len(objects) /\ objects' = [objects EXCEPT ![next] = object] /\ current' = next
      BY <1>1, <1>2 DEF store
    <2>2. objects' \in Seq(Objects) /\ Len(objects') = Len(list)
      <3> HIDE DEF next
      <3> QED BY <1>1, <2>1, ExceptSeq
    <2>3. continueOrFinishLinkInfoReq(rest)
      BY <1>2 DEF store
    <2>4. outstanding' \subseteq Requests /\ dialog' \in {"none", "open", "finished"}
      <3>1. CASE next = Len(list)
        BY <2>3, <3>1 DEF continueOrFinishLinkInfoReq
      <3>2. CASE next # Len(list)
        <4>1. list[next + 1] \in Links
          BY <1>1, <2>1, <3>2
        <4>2. requestLinkInfo(list[next + 1]) \in Requests
          BY <4>1, RequestOf
        <4>3. next + 1 = current + 2
          BY <1>1
        <4> QED BY <2>3, <3>2, <4>2, <4>3 DEF continueOrFinishLinkInfoReq, NextRequest, TypeOK
      <3> QED BY <3>1, <3>2
    <2> QED BY <1>1, <2>1, <2>2, <2>4 DEF TypeOK
  <1>3. CASE ~(current < Len(objects))
    BY <1>3 DEF store, TypeOK
  <1> QED BY <1>2, <1>3

LEMMA AnswerTypes ==
    ASSUME TypeInv, NEW link \in Links,
           \/ onGetPublicNode(link) \/ onFetchSetFromLink(link) \/ fetchSetFails(link)
           \/ \E ok \in BOOLEAN : onLogin(link, ok) \/ onFetchNodes(link, ok)
    PROVE  TypeInv'
  <1>0. /\ folder \in Links \union {NoLink} /\ link \in Links \union {NoLink}
        /\ \A ask : outstanding \ {ask} \in SUBSET Requests
    BY DEF TypeInv, TypeOK
  <1>1. CASE onGetPublicNode(link)
    <2>1. PICK object \in LinkInvalid(link) \union LinkNodes(link) :
            store(object, outstanding \ {Ask("getPublicNode", link)})
      BY <1>1 DEF onGetPublicNode
    <2> QED BY <1>0, <1>1, <2>1, ObjectsMadeOf, StoreTypes DEF onGetPublicNode, Answered
  <1>2. CASE onFetchSetFromLink(link)
    <2>1. PICK object \in LinkSets(link) : store(object, outstanding \ {Ask("fetchSet", link)})
      BY <1>2 DEF onFetchSetFromLink
    <2> QED BY <1>0, <1>2, <2>1, ObjectsMadeOf, StoreTypes DEF onFetchSetFromLink, Answered
  <1>3. CASE fetchSetFails(link)
    <2>1. /\ outstanding' \subseteq outstanding /\ lost' = lost \union {<<link, "info">>}
          /\ UNCHANGED <<list, objects, current, folder, dialog, creating, pasted, wanted, handed>>
      BY <1>3 DEF fetchSetFails, Answered
    <2> QED BY <2>1 DEF TypeInv, TypeOK
  <1>4. ASSUME NEW ok \in BOOLEAN, onLogin(link, ok) PROVE TypeInv'
    <2>1. UNCHANGED <<list, creating, pasted, wanted, handed, lost>> /\ folder' \in Links \union {NoLink}
      BY <1>0, <1>4 DEF onLogin, Answered
    <2>2. CASE ok /\ current < Len(objects)
      <3>1. /\ outstanding' = (outstanding \ {Ask("login", link)}) \union {Ask("fetchNodes", link)}
            /\ UNCHANGED <<objects, current, dialog>>
        BY <1>4, <2>2 DEF onLogin
      <3>2. Ask("fetchNodes", link) \in Requests
        BY DEF Ask, Requests
      <3> QED BY <2>1, <3>1, <3>2 DEF TypeInv, TypeOK
    <2>3. CASE ~(ok /\ current < Len(objects))
      <3>1. PICK object \in LinkInvalid(link) : store(object, outstanding \ {Ask("login", link)})
        BY <1>4, <2>3 DEF onLogin
      <3> QED BY <1>0, <2>1, <3>1, ObjectsMadeOf, StoreTypes
    <2> QED BY <2>2, <2>3
  <1>5. ASSUME NEW ok \in BOOLEAN, onFetchNodes(link, ok) PROVE TypeInv'
    <2>1. PICK object \in LinkInvalid(folder) \union LinkNodes(folder) \union LinkInvalid(link) :
            store(object, outstanding \ {Ask("fetchNodes", link)})
      BY <1>5 DEF onFetchNodes
    <2>2. object \in Objects
      BY <1>0, <2>1, ObjectsMadeOf
    <2> QED BY <1>0, <1>5, <2>1, <2>2, StoreTypes DEF onFetchNodes, Answered
  <1> QED BY <1>1, <1>2, <1>3, <1>4, <1>5

LEMMA HandOnTypes ==
    ASSUME TypeInv, NEW ways, HandOn(ways)
    PROVE  handed' \in [Links \X Ways -> Nat]
  BY DEF TypeInv, TypeOK, HandOn

LEMMA UserTypes ==
    ASSUME TypeInv, UserNext \/ \E of \in Lists, ok \in BOOLEAN : onCreateFolder(of, ok)
    PROVE  TypeInv'
  <1> USE DEF TypeInv
  <1>0. /\ Len(objects) = Len(list) /\ Len(list) \in Nat /\ current \in 0..Len(list)
        /\ list \in Seq(Links) /\ objects \in Seq(Objects) /\ LinksOf(list) \subseteq Links
        /\ \A i \in 1..Len(list) : list[i] \in Links /\ objects[i] \in Objects
    BY DEF TypeOK, LinksOf
  <1>1. ASSUME NEW new \in Lists, paste(new) PROVE TypeInv'
    <2>1. new \in Seq(Links) /\ Len(new) \in Nat \ {0} /\ requestLinkInfo(new[1]) \in Requests
      BY ListIsOne, RequestOf
    <2>2. objects' \in [1..Len(new) -> Objects]
      BY <1>1 DEF paste, Unknown, Objects
    <2>3. objects' \in Seq(Objects) /\ Len(objects') = Len(new)
      BY <2>1, <2>2, ObjectsOf
    <2> QED BY <1>1, <2>1, <2>3 DEF paste, TypeOK
  <1>2. ASSUME NEW i \in 1..Len(objects), onLinkStateChanged(i) PROVE TypeInv'
    <2> DEFINE new == [objects[i] EXCEPT !.selected = ~objects[i].selected]
    <2>1. new \in Objects
      <3>1. objects[i] \in Objects /\ (~objects[i].selected) \in BOOLEAN
        BY <1>0
      <3> QED BY <3>1 DEF Objects
    <2>2. objects' = [objects EXCEPT ![i] = new]
      BY <1>0, <1>2 DEF onLinkStateChanged
    <2>3. objects' \in Seq(Objects) /\ Len(objects') = Len(list)
      <3> HIDE DEF new
      <3> QED BY <1>0, <2>1, <2>2, ExceptSeq
    <2> QED BY <1>2, <2>3 DEF onLinkStateChanged, history, TypeOK
  <1>3. CASE refreshLinkInfo
    <2> DEFINE new(i) == [objects[i] EXCEPT !.selected = objects[i].correct]
    <2>1. \A i \in 1..Len(list) : new(i) \in Objects
      <3> SUFFICES ASSUME NEW i \in 1..Len(list) PROVE new(i) \in Objects
        OBVIOUS
      <3>1. objects[i] \in Objects /\ objects[i].correct \in BOOLEAN
        BY <1>0 DEF Objects
      <3> QED BY <3>1 DEF Objects
    <2>2. objects' = [i \in 1..Len(objects) |-> IF i <= current THEN new(i) ELSE objects[i]]
      BY <1>3 DEF refreshLinkInfo
    <2> HIDE DEF new
    <2>3. objects' \in [1..Len(list) -> Objects]
      BY <1>0, <2>1, <2>2
    <2>4. objects' \in Seq(Objects) /\ Len(objects') = Len(list)
      BY <1>0, <2>3, ObjectsOf
    <2> QED BY <1>3, <2>4 DEF refreshLinkInfo, history, TypeOK
  <1>4. CASE reject
    BY <1>4 DEF reject, links, history, TypeOK
  <1>5. ASSUME NEW ways \in SUBSET Ways, NEW parent \in Parents,
               accept(ways, parent)
        PROVE  TypeInv'
    <2>1. handed' \in [Links \X Ways -> Nat]
      BY <1>5, HandOnTypes DEF accept
    <2>2. list \in Lists
      <3>1. list # <<>>
        BY <1>0, <1>5 DEF accept, SelectedRows
      <3> QED BY <3>1
    <2>3. \A i \in SelectedRows : list[i] \in Links
      BY <1>0 DEF SelectedRows
    <2>4. wanted' \subseteq Links \X Ways /\ lost' \subseteq Links \X (Ways \union {"info"})
      BY <1>5, <2>3 DEF accept, TypeOK, Ways
    <2>5. creating' \subseteq Lists
      BY <1>5, <2>2 DEF accept, TypeOK
    <2> QED BY <1>5, <2>1, <2>4, <2>5 DEF accept, links, TypeOK
  <1>6. ASSUME NEW of \in Lists, NEW ok \in BOOLEAN, onCreateFolder(of, ok) PROVE TypeInv'
    <2>1. handed' \in [Links \X Ways -> Nat]
      BY <1>6, HandOnTypes DEF onCreateFolder
    <2>2. LinksOf(of) \subseteq Links
      BY DEF Links
    <2>3. lost' \subseteq Links \X (Ways \union {"info"})
      BY <1>6, <2>2 DEF onCreateFolder, TypeOK, Ways
    <2> QED BY <1>6, <2>1, <2>3 DEF onCreateFolder, links, TypeOK
  <1> QED BY <1>1, <1>2, <1>3, <1>4, <1>5, <1>6 DEF UserNext

(* Every variable keeps its type, whatever overlaps: mCurrentIndex does not    *)
(* leave the list, of which the objects are as many as the links, and what is  *)
(* stored, handed on or lost is a link.                                        *)
THEOREM TypeInvariant == Spec => []TypeOK
  <1>1. Init => TypeInv
    BY DEF Init, TypeInv, TypeOK
  <1>2. TypeInv /\ [Next]_vars => TypeInv'
    <2> SUFFICES ASSUME TypeInv, [Next]_vars PROVE TypeInv'
      OBVIOUS
    <2>1. CASE onRequestFinish
      BY <2>1, AnswerTypes, UserTypes DEF onRequestFinish
    <2>2. CASE UserNext
      BY <2>2, UserTypes
    <2>3. CASE UNCHANGED vars
      BY <2>3 DEF vars, links, history, TypeInv, TypeOK
    <2> QED BY <2>1, <2>2, <2>3 DEF Next
  <1>3. TypeInv => TypeOK
    BY DEF TypeInv
  <1> QED BY <1>1, <1>2, <1>3, PTL DEF Spec

-----------------------------------------------------------------------------
LEMMA InvNext == Alone /\ Inv /\ [Next]_vars => Inv'
  <1> SUFFICES ASSUME Alone, Inv, [Next]_vars PROVE Inv'
    OBVIOUS
  <1>1. CASE onRequestFinish
    <2>1. ASSUME NEW link \in Links, onGetPublicNode(link) PROVE Inv'
      BY <2>1, AnswerStep
    <2>2. ASSUME NEW link \in Links, NEW ok \in BOOLEAN, onLogin(link, ok) PROVE Inv'
      BY <2>2, AnswerStep, LoginStep
    <2>3. ASSUME NEW link \in Links, NEW ok \in BOOLEAN, onFetchNodes(link, ok) PROVE Inv'
      BY <2>3, AnswerStep
    <2>4. ASSUME NEW link \in Links, onFetchSetFromLink(link) PROVE Inv'
      BY <2>4, AnswerStep
    <2>5. ASSUME NEW link \in Links, fetchSetFails(link) PROVE Inv'
      BY <2>5, SetFailsStep
    <2>6. ASSUME NEW of \in Lists, NEW ok \in BOOLEAN, onCreateFolder(of, ok) PROVE Inv'
      BY <2>6, FolderStep
    <2> QED BY <1>1, <2>1, <2>2, <2>3, <2>4, <2>5, <2>6 DEF onRequestFinish
  <1>2. CASE UserNext
    <2>1. ASSUME NEW new \in Lists, paste(new) PROVE Inv'
      BY <2>1, PasteStep
    <2>2. CASE (\E i \in 1..Len(objects) : onLinkStateChanged(i)) \/ refreshLinkInfo
      BY <2>2, SelectStep
    <2>3. CASE reject
      BY <2>3, RejectStep
    <2>4. ASSUME NEW ways \in SUBSET Ways, NEW parent \in Parents,
                 accept(ways, parent)
          PROVE  Inv'
      BY <2>4, AcceptStep
    <2> QED BY <1>2, <2>1, <2>2, <2>3, <2>4 DEF UserNext
  <1>3. CASE UNCHANGED vars
    <2>1. UNCHANGED <<list, objects, current, folder, outstanding, creating, dialog, pasted, wanted, handed, lost>>
      BY <1>3 DEF vars, links, history
    <2>2. TypeOK' /\ OneIsAsked' /\ StageInv'
      BY <2>1 DEF Inv, TypeOK, OneIsAsked, StageInv
    <2>3. ObjectsInv'
      BY <2>1 DEF Inv, ObjectsInv, WellFormed
    <2>4. ChoiceInv'
      <3>1. SelectedLinks' = SelectedLinks
        BY <2>1 DEF SelectedLinks, SelectedRows
      <3>2. ChoicesAreFollowed'
        BY <2>1 DEF Inv, ChoiceInv, ChoicesAreFollowed
      <3> QED BY <2>1, <3>1, <3>2 DEF Inv, ChoiceInv
    <2> QED BY <2>2, <2>3, <2>4 DEF Inv
  <1> QED BY <1>1, <1>2, <1>3 DEF Next

LEMMA Invariant == Alone /\ Spec => []Inv
  <1>1. Alone /\ Inv /\ [Next]_vars => Inv'
    BY InvNext
  <1>2. Alone => []Alone
    <2>1. Alone => Alone'
      BY DEF Alone
    <2> QED BY <2>1, PTL
  <1> QED BY <1>1, InvInit, <1>2, PTL DEF Spec

(* An answer that is stored at mCurrentIndex is about the link at that index,  *)
(* because there is one request at a time and no list replaces another while   *)
(* it is outstanding.                                                          *)
THEOREM AnswersBelong == Alone /\ Spec => []AnswersAreTheirOwn
  <1>1. Inv => AnswersAreTheirOwn
    BY DEF Inv, TypeOK, ObjectsInv, AnswersAreTheirOwn
  <1> QED BY <1>1, Invariant, PTL

(* What was accepted in the dialog is handed on once, in each way it was       *)
(* accepted for, and nothing else is, whether the folder of the import was     *)
(* there or had to be created first.                                           *)
THEOREM ChoicesFollowed == Alone /\ Spec => []ChoicesAreFollowed
  <1>1. Inv => ChoicesAreFollowed
    BY DEF Inv, ChoiceInv
  <1> QED BY <1>1, Invariant, PTL

(* An open dialog waits for an answer that is outstanding, or for one about a  *)
(* Set that SetManager could not fetch: with the fairness of the answers, this *)
(* is what the property LinkInfoEnds rests on.                                 *)
DialogWaitsForAnAnswer ==
    dialog = "open" =>
        outstanding # {} \/ \E link \in LinksOf(list) : <<link, "info">> \in lost

LEMMA WaitNext == Alone /\ Inv /\ DialogWaitsForAnAnswer /\ [Next]_vars => DialogWaitsForAnAnswer'
  <1> SUFFICES ASSUME Alone, Inv, DialogWaitsForAnAnswer, [Next]_vars, dialog' = "open"
               PROVE  outstanding' # {} \/ \E link \in LinksOf(list') : <<link, "info">> \in lost'
    BY DEF DialogWaitsForAnAnswer
  <1>0. Len(objects) = Len(list) /\ Len(list) \in Nat /\ current \in 0..Len(list)
    BY DEF Inv, TypeOK
  <1>1. ASSUME NEW object, NEW rest, store(object, rest), NEW ask \in outstanding
        PROVE  outstanding' # {}
    <2>1. current < Len(objects)
      BY <1>0, <1>1 DEF Inv, OneIsAsked
    <2>2. continueOrFinishLinkInfoReq(rest)
      BY <1>1, <2>1 DEF store
    <2> QED BY <2>2 DEF continueOrFinishLinkInfoReq, NextRequest
  <1>2. CASE onRequestFinish
    <2>1. ASSUME NEW link \in Links, onGetPublicNode(link) \/ onFetchSetFromLink(link)
          PROVE  outstanding' # {}
      BY <1>1, <2>1 DEF onGetPublicNode, onFetchSetFromLink, Answered
    <2>2. ASSUME NEW link \in Links, NEW ok \in BOOLEAN, onLogin(link, ok) PROVE outstanding' # {}
      BY <1>1, <2>2 DEF onLogin, Answered
    <2>3. ASSUME NEW link \in Links, NEW ok \in BOOLEAN, onFetchNodes(link, ok) PROVE outstanding' # {}
      BY <1>1, <2>3 DEF onFetchNodes, Answered
    <2>4. ASSUME NEW link \in Links, fetchSetFails(link)
          PROVE  \E other \in LinksOf(list') : <<other, "info">> \in lost'
      <3>1. Ask("fetchSet", link) \in outstanding /\ Ask("fetchSet", link).link = link
        BY <2>4 DEF fetchSetFails, Answered, Ask
      <3>2. current < Len(list) /\ link = list[current + 1]
        BY <3>1 DEF Inv, OneIsAsked
      <3>3. link \in LinksOf(list)
        BY <1>0, <3>2 DEF LinksOf
      <3> QED BY <2>4, <3>3 DEF fetchSetFails, Answered
    <2>5. ASSUME NEW of \in Lists, NEW ok \in BOOLEAN, onCreateFolder(of, ok)
          PROVE  outstanding' # {} \/ \E link \in LinksOf(list') : <<link, "info">> \in lost'
      <3>1. dialog' = dialog /\ list' = list /\ outstanding' = outstanding /\ lost \subseteq lost'
        BY <2>5 DEF onCreateFolder, links
      <3> QED BY <3>1 DEF DialogWaitsForAnAnswer
    <2> QED BY <1>2, <2>1, <2>2, <2>3, <2>4, <2>5 DEF onRequestFinish
  <1>3. CASE \E new \in Lists : paste(new)
    BY <1>3 DEF paste
  <1>4. CASE (\E i \in 1..Len(objects) : onLinkStateChanged(i)) \/ refreshLinkInfo \/ UNCHANGED vars
    <2>1. UNCHANGED <<list, outstanding, dialog, lost>>
      BY <1>4 DEF onLinkStateChanged, refreshLinkInfo, vars, links, history
    <2> QED BY <2>1 DEF DialogWaitsForAnAnswer
  <1>5. ~reject /\ \A ways \in SUBSET Ways, parent \in Parents : ~accept(ways, parent)
    BY DEF reject, accept
  <1> QED BY <1>2, <1>3, <1>4, <1>5 DEF Next, UserNext

(* No dialog is left open with nothing under way, but for a Set that was given *)
(* up silently.                                                                *)
THEOREM DialogIsAnswered == Alone /\ Spec => []DialogWaitsForAnAnswer
  <1>1. Init => DialogWaitsForAnAnswer
    BY DEF Init, DialogWaitsForAnAnswer
  <1>2. Alone => []Alone
    <2>1. Alone => Alone'
      BY DEF Alone
    <2> QED BY <2>1, PTL
  <1> QED BY <1>1, <1>2, WaitNext, Invariant, PTL DEF Spec

=============================================================================
