---------------------------- MODULE LinkProcessor ----------------------------
(* The links a user pastes (control/LinkProcessor.cpp): what is behind each is *)
(* asked for, one link after the other, and shown in a dialog; then the links *)
(* that are selected are downloaded, imported or both. The answers carry no   *)
(* link: each is stored at mCurrentIndex. All of it is in the GUI thread.     *)
(*                                                                            *)
(* File links cost one request, folder links two (the one folder account is   *)
(* logged in to them), and links of Sets are left to SetManager, which does   *)
(* not answer when it fails. Nothing in the code keeps the user from pasting  *)
(* a new list while the answers about an older one are outstanding, after     *)
(* its dialog was closed: that is Overlap. Each list is pasted once, and      *)
(* links of different lists differ.                                           *)
(*                                                                            *)
(* mTransferQueue is not modelled: each link is taken out of it right after   *)
(* it was put in (336-337), so that it is empty between two steps, and the    *)
(* answer to a copy, which takes the next one, finds none.                    *)
EXTENDS Integers, Sequences, FiniteSets

CONSTANTS
    Lists,    \* lists of links, as PasteMegaLinksDialog leaves them
    Folders,  \* the links of folders
    Sets,     \* the links of Sets
    NoLink,
    Overlap   \* a list may be pasted while answers are outstanding

LinksOf(list) == {list[i] : i \in 1..Len(list)}
Links == UNION {LinksOf(list) : list \in Lists}

ASSUME ListsAssumption ==
    /\ \A list \in Lists :
        /\ list \in Seq(Links) /\ list # <<>>
        /\ \A i, j \in 1..Len(list) : list[i] = list[j] => i = j
    /\ \A a, b \in Lists : LinksOf(a) \cap LinksOf(b) # {} => a = b
    /\ Folders \cap Sets = {}
    /\ NoLink \notin Links
    /\ Overlap \in BOOLEAN

VARIABLES
    list,         \* mLinkList
    objects,      \* mLinkObjects: what was answered about which link, and mIsSelected
    current,      \* mCurrentIndex
    outstanding,  \* requests about links that are not answered yet
    folder,       \* the link that mMegaApiFolders is logged in to
    creating,     \* lists whose import folder is being created
    dialog,       \* ImportMegaLinksDialog, "finished" when mFinished
    pasted,       \* history: the lists that were pasted
    wanted,       \* history: links to be downloaded or imported, as the user saw them
    handed,       \* history: how often a link was handed on for download or import
    lost          \* history: links of Sets that were not answered, failed imports

links == <<list, objects, current, folder>>
history == <<pasted, wanted, handed, lost>>
vars == <<links, outstanding, creating, dialog, history>>

Ways == {"download", "import"}
Requests == [type : {"getPublicNode", "login", "fetchNodes", "fetchSet"}, link : Links]

(* A link that is not CORRECT, be it WARNING or FAILED, cannot be selected.   *)
Objects == [link : Links \union {NoLink}, type : {"INVALID", "NODE", "SET"},
            correct : BOOLEAN, selected : BOOLEAN]
Unknown == [link |-> NoLink, type |-> "INVALID", correct |-> FALSE, selected |-> FALSE]
Object(link, type, correct) ==
    [link |-> link, type |-> type, correct |-> correct, selected |-> correct /\ dialog # "none"]

LinkInvalid(link) == {Object(link, "INVALID", FALSE)}
LinkNodes(link) == {Object(link, "NODE", c) : c \in BOOLEAN}
LinkSets(link) == {Object(link, "SET", c) : c \in BOOLEAN}

TypeOK ==
    /\ list \in Seq(Links)
    /\ objects \in Seq(Objects) /\ Len(objects) = Len(list)
    /\ current \in 0..Len(list)
    /\ outstanding \subseteq Requests
    /\ folder \in Links \union {NoLink}
    /\ creating \subseteq Lists
    /\ dialog \in {"none", "open", "finished"}
    /\ pasted \subseteq Lists
    /\ wanted \subseteq Links \X Ways
    /\ handed \in [Links \X Ways -> Nat]
    /\ lost \subseteq Links \X (Ways \union {"info"})

Init ==
    /\ list = <<>> /\ objects = <<>> /\ current = 0
    /\ outstanding = {} /\ folder = NoLink /\ creating = {}
    /\ dialog = "none"
    /\ pasted = {} /\ wanted = {} /\ lost = {}
    /\ handed = [x \in Links \X Ways |-> 0]

-----------------------------------------------------------------------------
(* Asking what is behind the links                                            *)

requestLinkInfo(link) ==
    [link |-> link,
     type |-> IF link \in Folders THEN "login"
              ELSE IF link \in Sets THEN "fetchSet" ELSE "getPublicNode"]

(* MegaApplication::onPasteMegaLinksDialogFinish                              *)
paste(new) ==
    /\ dialog = "none" /\ new \notin pasted
    /\ Overlap \/ (outstanding = {} /\ creating = {})
    /\ list' = new
    /\ objects' = [i \in 1..Len(new) |-> Unknown]
    /\ current' = 0
    /\ outstanding' = outstanding \union {requestLinkInfo(new[1])}
    /\ dialog' = "open"
    /\ pasted' = pasted \union {new}
    /\ UNCHANGED <<folder, creating, wanted, handed, lost>>

(* Mutants: the next request is for the link that was just answered; a link   *)
(* that could not be had ends the requests.                                   *)
NextRequestAgain == {requestLinkInfo(list[current + 1])}
NextRequestIfValid ==
    IF objects'[current + 1].type = "INVALID" THEN {} ELSE {requestLinkInfo(list[current + 2])}
NextRequest == {requestLinkInfo(list[current + 2])}

continueOrFinishLinkInfoReq(rest) ==
    IF current + 1 = Len(list)
      THEN /\ outstanding' = rest
           /\ dialog' = IF dialog = "none" THEN "none" ELSE "finished"
      ELSE /\ outstanding' = rest \union NextRequest
           /\ UNCHANGED dialog

(* The object is stored and shown, which selects it if it is correct. What is *)
(* answered behind the last link is not looked at.                            *)
store(object, rest) ==
    IF current < Len(objects)
      THEN /\ objects' = [objects EXCEPT ![current + 1] = object]
           /\ current' = current + 1
           /\ continueOrFinishLinkInfoReq(rest)
      ELSE /\ outstanding' = rest
           /\ UNCHANGED <<objects, current, dialog>>

Ask(type, link) == [type |-> type, link |-> link]
Answered(ask) ==
    /\ ask \in outstanding
    /\ UNCHANGED <<list, creating, pasted, wanted, handed>>

onGetPublicNode(link) ==
    LET ask == Ask("getPublicNode", link)
    IN  /\ Answered(ask)
        /\ \E object \in LinkInvalid(link) \union LinkNodes(link) : store(object, outstanding \ {ask})
        /\ UNCHANGED <<folder, lost>>

onLogin(link, ok) ==
    LET ask == Ask("login", link)
    IN  /\ Answered(ask)
        /\ IF ok /\ current < Len(objects)
             THEN /\ outstanding' = (outstanding \ {ask}) \union {Ask("fetchNodes", link)}
                  /\ UNCHANGED <<objects, current, dialog>>
             ELSE \E object \in LinkInvalid(link) : store(object, outstanding \ {ask})
        /\ folder' = IF ok THEN link ELSE folder
        /\ UNCHANGED lost

(* The node is taken from the folder account as it is now; there may be none. *)
onFetchNodes(link, ok) ==
    LET ask == Ask("fetchNodes", link)
        found == IF ok THEN LinkInvalid(folder) \union LinkNodes(folder) ELSE LinkInvalid(link)
    IN  /\ Answered(ask)
        /\ \E object \in found : store(object, outstanding \ {ask})
        /\ UNCHANGED <<folder, lost>>

onFetchSetFromLink(link) ==
    LET ask == Ask("fetchSet", link)
    IN  /\ Answered(ask)
        /\ \E object \in LinkSets(link) : store(object, outstanding \ {ask})
        /\ UNCHANGED <<folder, lost>>

(* SetManager resets itself and tells nobody (SetManager.cpp:514-521).        *)
fetchSetFails(link) ==
    LET ask == Ask("fetchSet", link)
    IN  /\ Answered(ask)
        /\ outstanding' = outstanding \ {ask}
        /\ lost' = lost \union {<<link, "info">>}
        /\ UNCHANGED <<objects, current, folder, dialog>>

-----------------------------------------------------------------------------
(* The dialog                                                                 *)

onLinkStateChanged(i) ==
    /\ dialog # "none"
    /\ i \in 1..current /\ objects[i].correct
    /\ objects' = [objects EXCEPT ![i].selected = ~@]
    /\ UNCHANGED <<list, current, folder, outstanding, creating, dialog, history>>

(* refreshLinkInfo, when the language changes, shows each answer again, which *)
(* selects what the user had left out.                                        *)
refreshLinkInfo ==
    /\ dialog # "none"
    /\ objects' = [i \in 1..Len(objects) |->
            IF i <= current THEN [objects[i] EXCEPT !.selected = objects[i].correct] ELSE objects[i]]
    /\ UNCHANGED <<list, current, folder, outstanding, creating, dialog, history>>

SelectedRows == {i \in 1..Len(objects) : objects[i].selected}

(* A mutant: all links that were answered are handed on.                      *)
HandedAll(way) ==
    {<<objects[i].link, way>> : i \in {j \in 1..Len(objects) : objects[j].type # "INVALID"}}

(* addTransfersAndStartIfNotStartedYet; there is nothing to be had of an      *)
(* INVALID link.                                                              *)
Handed(way) ==
    {<<objects[i].link, way>> : i \in {j \in SelectedRows : objects[j].type # "INVALID"}}

HandOn(ways) ==
    handed' = [x \in Links \X Ways |->
        handed[x] + (IF \E way \in ways : x \in Handed(way) THEN 1 ELSE 0)]

reject ==
    /\ dialog # "none"
    /\ dialog' = "none"
    /\ UNCHANGED <<links, outstanding, creating, history>>

(* The dialog was accepted. The folder of the import is there, or it is       *)
(* created first, or there is no root to create it in; and nothing is         *)
(* imported if the account was logged out since the dialog was opened.        *)
Parents == {"exists", "missing", "noRoot", "loggedOut"}

accept(ways, parent) ==
    /\ dialog = "finished"
    /\ ways # {} /\ SelectedRows # {}
    /\ dialog' = "none"
    /\ wanted' = wanted \union {<<list[i], way>> : i \in SelectedRows, way \in ways}
    /\ HandOn(IF parent = "exists" THEN ways ELSE ways \ {"import"})
    /\ creating' = IF "import" \in ways /\ parent = "missing" THEN creating \union {list} ELSE creating
    /\ lost' = IF "import" \in ways /\ parent \in {"noRoot", "loggedOut"}
                 THEN lost \union {<<list[i], "import">> : i \in SelectedRows} ELSE lost
    /\ UNCHANGED <<links, outstanding, pasted>>

(* TYPE_CREATE_FOLDER: without a folder nothing follows, and nobody is told.  *)
onCreateFolder(of, ok) ==
    /\ of \in creating
    /\ creating' = creating \ {of}
    /\ HandOn(IF ok THEN {"import"} ELSE {})
    /\ lost' = IF ok THEN lost ELSE lost \union (LinksOf(of) \X {"import"})
    /\ UNCHANGED <<links, outstanding, dialog, pasted, wanted>>

-----------------------------------------------------------------------------
onRequestFinish ==
    \/ \E link \in Links :
        \/ onGetPublicNode(link)
        \/ \E ok \in BOOLEAN : onLogin(link, ok) \/ onFetchNodes(link, ok)
        \/ onFetchSetFromLink(link) \/ fetchSetFails(link)
    \/ \E of \in Lists, ok \in BOOLEAN : onCreateFolder(of, ok)

UserNext ==
    \/ \E new \in Lists : paste(new)
    \/ \E i \in 1..Len(objects) : onLinkStateChanged(i)
    \/ refreshLinkInfo
    \/ reject
    \/ \E ways \in SUBSET Ways, parent \in Parents : accept(ways, parent)

Next == onRequestFinish \/ UserNext

Spec == Init /\ [][Next]_vars

(* The SDK answers each request in the end, or SetManager fails to.           *)
FairSpec == Spec /\ WF_vars(onRequestFinish)

-----------------------------------------------------------------------------
(* Properties. A list that is pasted while answers are outstanding (Overlap)  *)
(* breaks the first two of them.                                              *)

(* What is shown at a link is what was answered about this link, although no  *)
(* answer says which it is about.                                             *)
AnswersAreTheirOwn == \A i \in 1..current : objects[i].link = list[i]

(* What the user accepted is done once, and nothing else is: a link is handed *)
(* on in each way it was accepted for, an import at the latest when its       *)
(* folder exists, unless that fails.                                          *)
ChoicesAreFollowed ==
    \A x \in Links \X Ways :
        /\ x \notin wanted => handed[x] = 0
        /\ x \in wanted =>
            \/ handed[x] = 1
            \/ handed[x] = 0 /\ x[2] = "import"
                /\ (x \in lost \/ \E of \in creating : x[1] \in LinksOf(of))

(* The dialog comes to the point where it can be accepted, unless the Set     *)
(* behind a link could not be had: then its links wait for ever.              *)
LinkInfoEnds ==
    dialog = "open" ~> (dialog # "open" \/ \E link \in LinksOf(list) : <<link, "info">> \in lost)
=============================================================================
