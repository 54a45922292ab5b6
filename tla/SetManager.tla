------------------------------ MODULE SetManager ----------------------------
(***************************************************************************)
(* Public Sets (class SetManager in control/SetManager.cpp): requests to   *)
(* fetch, download or import the Set behind a link wait in a queue and     *)
(* are dealt with one at a time.  The state machine is run by two threads: *)
(* the handler thread of AsyncHandler, woken up by a new request, and the  *)
(* GUI thread, in the SDK's answers.  mSetManagerStateMutex is not locked. *)
(*                                                                         *)
(* One pass through handleStates is a step.  A reset is a step of its own, *)
(* so that the other thread may look at the state before the call of       *)
(* handleStates behind it.  A Set's elements and nodes go by one name; the *)
(* paths and names that come and go with the request are left out.         *)
(***************************************************************************)
EXTENDS Integers, Sequences, FiniteSets, Bags, SequencesExt

CONSTANTS
  Requests,  \* the user's requests, each made once
  Kind,      \* what is requested; see Kinds
  Public,    \* the elements of the Set behind the request's link
  Selected,  \* those asked for; none means all
  Elements,
  Failures,  \* what may be answered with an error
  Overlap    \* whether a thread may step in before the other one's handleStates

Kinds == {"fetch", "downloadLink", "download", "import"}
SdkRequests == {"fetch", "element", "folder", "copy"}

ASSUME RequestsAssumption ==
  /\ Requests \subseteq Nat \ {0}
  /\ Kind \in [Requests -> Kinds]
  /\ Public \in [Requests -> SUBSET Elements] /\ Selected \in [Requests -> SUBSET Elements]
  /\ IsFiniteSet(Elements)

ASSUME EnvironmentAssumption == Failures \subseteq SdkRequests \cup {"directory"} /\ Overlap \in BOOLEAN

VARIABLES
  requestQueue,   \* mRequestQueue
  triggers,       \* length of AsyncHandler::mTriggerActionQueue
  internalQueue,  \* mInternalActionQueue
  state,          \* mSetManagerState
  set,            \* mCurrentSet: whose link it has, whether it has a name, its two lists
  selection,      \* mCurrentElementHandleList
  imported,       \* the three lists of an import
  downloaded,     \* mDownloadedCounter
  calling,        \* threads that are about to call handleStates
  outstanding,    \* requests the SDK has not answered (external)
  transfers,      \* downloads under way (external)
  preview,        \* the request whose Set is in preview in the SDK (external)
  stored,         \* history: elements whose download is over, by request
  status,         \* history: how far the user's requests are
  report          \* history: the last signal onFetchSetFromLink or onSetImportFinished

queues == <<requestQueue, triggers, internalQueue>>
current == <<state, set, selection, imported>>
sdk == <<outstanding, transfers, preview, stored>>
history == <<status, report>>
vars == <<queues, current, downloaded, calling, sdk, history>>

Threads == {"handler", "gui"}
None == 0
Wanted(r) == IF Selected[r] = {} THEN Public[r] ELSE Public[r] \cap Selected[r]

NoSet == [req |-> None, named |-> FALSE, handles |-> {}, nodes |-> <<>>]
NoImport == [succeeded |-> <<>>, failed |-> <<>>, existing |-> <<>>]
NoReport == [req |-> None, nodes |-> <<>>, imported |-> NoImport]

isComplete(s) ==
  s.req # None /\ s.named /\ s.handles # {} /\ Cardinality(s.handles) = Len(s.nodes)

\* What a sequence has, with the number of times; what it has at some positions, in an
\* order that does not matter.
BagOf(s) == [x \in Range(s) |-> Cardinality({i \in DOMAIN s : s[i] = x})]
Picked(s, P) == [k \in 1..Cardinality(P) |-> s[SetToSeq(P)[k]]]

Ask(type, of) == [type |-> type, of |-> of]
\* Answers the SDK may give to such a request.
Results(type) == IF type \in Failures THEN BOOLEAN ELSE {TRUE}
Alone(t) == Overlap \/ calling \subseteq {t}
-----------------------------------------------------------------------------
(* Requests and the handler thread *)

request(r) ==
  /\ status[r] = "new"
  /\ status' = [status EXCEPT ![r] = "pending"]
  /\ requestQueue' = Append(requestQueue, r)
  /\ triggers' = triggers + 1
  /\ UNCHANGED <<internalQueue, current, downloaded, calling, sdk, report>>

\* Mutant of handleTriggerAction: the thread does not look whether a request is in progress.
handleTriggerBlindly ==
  /\ triggers > 0 /\ "handler" \notin calling /\ Alone("handler")
  /\ triggers' = triggers - 1
  /\ calling' = calling \cup {"handler"}
  /\ UNCHANGED <<requestQueue, internalQueue, current, downloaded, sdk, history>>

handleTriggerAction ==
  /\ triggers > 0 /\ "handler" \notin calling /\ Alone("handler")
  /\ triggers' = triggers - 1
  /\ calling' = IF state = "INIT" THEN calling \cup {"handler"} ELSE calling
  /\ UNCHANGED <<requestQueue, internalQueue, current, downloaded, sdk, history>>
-----------------------------------------------------------------------------
(* reset: mDownloadedCounter and mInternalActionQueue stay as they are *)

reset ==
  /\ state' = "INIT"
  /\ set' = NoSet /\ selection' = {} /\ imported' = NoImport

\* Mutant of resetAndHandleStates: the queue of requests is not looked at.
resetOnly(t) == reset /\ calling' = calling \ {t}
resetAndHandleStates(t) == reset /\ calling' = calling \cup {t}

\* The request in progress is over, which the user is told, or not.
End(how) == status' = IF set.req = None THEN status ELSE [status EXCEPT ![set.req] = how]
-----------------------------------------------------------------------------
(* handleStates *)

Calls(t, s) == t \in calling /\ Alone(t) /\ state = s
Returns(t) == calling' = calling \ {t}

\* The queue that the state looks at is empty.
nothingToHandle(t) ==
  /\ t \in calling /\ Alone(t)
  /\ IF state = "INIT"
     THEN requestQueue = <<>> /\ Returns(t) /\ UNCHANGED current
     ELSE internalQueue = <<>> /\ resetAndHandleStates(t)
  /\ UNCHANGED <<queues, downloaded, sdk, history>>

\* Mutant of filterSet: the complete Set is taken, whatever was asked for.
filterNothing(r) == [req |-> r, named |-> TRUE, handles |-> Public[r], nodes |-> SetToSeq(Public[r])]
filterSet(r) == [req |-> r, named |-> TRUE, handles |-> Wanted(r), nodes |-> SetToSeq(Wanted(r))]

WaitsFor(r) ==
  CASE Kind[r] = "fetch" -> "GET_DATA"
    [] Kind[r] = "downloadLink" -> "DOWNLOAD_FROM_LINK"
    [] Kind[r] = "download" -> "DOWNLOAD_COLLECTION"
    [] Kind[r] = "import" -> "IMPORT_COLLECTION"

\* A fetch leaves the selection as reset has left it.  A Set that is given must be complete.
handleStateInit(t) ==
  /\ Calls(t, "INIT") /\ requestQueue # <<>>
  /\ requestQueue' = Tail(requestQueue)
  /\ LET r == Head(requestQueue)
         given == Kind[r] \in {"download", "import"}
     IN  /\ set' = IF given THEN filterSet(r) ELSE [NoSet EXCEPT !.req = r]
         /\ selection' = IF Kind[r] = "fetch" THEN selection ELSE Selected[r]
         /\ IF given /\ Wanted(r) = {}
            THEN UNCHANGED <<state, outstanding>>
            ELSE /\ state' = WaitsFor(r)
                 /\ outstanding' = outstanding (+) SetToBag({Ask("fetch", r)})
  /\ Returns(t)
  /\ UNCHANGED <<triggers, internalQueue, imported, downloaded, transfers, preview, stored, history>>

Waiting == {"GET_DATA", "DOWNLOAD_FROM_LINK", "DOWNLOAD_COLLECTION", "IMPORT_COLLECTION"}

\* The first internal action is taken from the queue.
Pops(t, s) ==
  /\ Calls(t, s) /\ internalQueue # <<>>
  /\ internalQueue' = Tail(internalQueue)
  /\ UNCHANGED <<requestQueue, triggers, downloaded>>
Handles(t, s, action) == Pops(t, s) /\ Head(internalQueue) = action

\* getPreviewSetData and getPreviewElementNodes
InPreview == {e \in Public[preview] : selection = {} \/ e \in selection}

getPreview(t) ==
  /\ \/ Handles(t, "GET_DATA", "set")
     \/ Handles(t, "DOWNLOAD_FROM_LINK", "set")
  /\ IF preview = None \/ set.handles \cup InPreview = {}
     THEN /\ resetAndHandleStates(t) /\ End("failed")
          /\ UNCHANGED outstanding
     ELSE /\ set' = [set EXCEPT !.named = TRUE, !.handles = @ \cup InPreview]
          /\ outstanding' = outstanding (+) SetToBag({Ask("element", e) : e \in set.handles \cup InPreview})
          /\ Returns(t)
          /\ UNCHANGED <<state, selection, imported, status>>
  /\ UNCHANGED <<transfers, preview, stored, report>>

elementFetched(t) ==
  /\ Handles(t, "GET_DATA", "element")
  /\ IF isComplete(set)
     THEN /\ report' = [NoReport EXCEPT !.req = set.req, !.nodes = set.nodes]
          /\ End("done")
          /\ preview' = None
          /\ resetAndHandleStates(t)
     ELSE Returns(t) /\ UNCHANGED <<current, preview, history>>
  /\ UNCHANGED <<outstanding, transfers, stored>>

startDownload ==
  /\ set' = [set EXCEPT !.nodes = <<>>]
  /\ transfers' = transfers (+) BagOf([i \in DOMAIN set.nodes |-> [req |-> set.req, node |-> set.nodes[i]]])

\* Where the folder cannot be created, MegaDownloader::processDownloadQueue starts nothing.
elementToDownload(t) ==
  /\ Handles(t, "DOWNLOAD_FROM_LINK", "element")
  /\ \E created \in Results("directory") :
       IF created THEN startDownload
                  ELSE set' = [set EXCEPT !.nodes = <<>>] /\ UNCHANGED transfers
  /\ Returns(t)
  /\ UNCHANGED <<state, selection, imported, outstanding, preview, stored, history>>

\* An element's node is not expected here.
downloadCollection(t) ==
  /\ Pops(t, "DOWNLOAD_COLLECTION")
  /\ \E created \in Results("directory") :
       IF Head(internalQueue) = "set" /\ created
       THEN startDownload /\ Returns(t) /\ UNCHANGED <<state, selection, imported, status>>
       ELSE resetAndHandleStates(t) /\ End("failed") /\ UNCHANGED transfers
  /\ UNCHANGED <<outstanding, preview, stored, report>>

createFolder(t) ==
  /\ Pops(t, "IMPORT_COLLECTION")
  /\ IF Head(internalQueue) = "set"
     THEN /\ outstanding' = outstanding (+) SetToBag({Ask("folder", set.req)})
          /\ Returns(t)
          /\ UNCHANGED <<current, status>>
     ELSE resetAndHandleStates(t) /\ End("failed") /\ UNCHANGED outstanding
  /\ UNCHANGED <<transfers, preview, stored, report>>

handleStates(t) ==
  nothingToHandle(t) \/ handleStateInit(t) \/ getPreview(t) \/ elementFetched(t)
    \/ elementToDownload(t) \/ downloadCollection(t) \/ createFolder(t)
-----------------------------------------------------------------------------
(* Answers of the SDK, on the GUI thread *)

Answered(ask) ==
  /\ "gui" \notin calling /\ Alone("gui")
  /\ BagIn(ask, outstanding)
  /\ UNCHANGED <<requestQueue, triggers>>

\* Any answer that is an error ends the request in progress.
requestFailed(ask) ==
  /\ ask.type # "copy" /\ FALSE \in Results(ask.type)
  /\ Answered(ask)
  /\ outstanding' = outstanding (-) SetToBag({ask})
  /\ resetAndHandleStates("gui") /\ End("failed")
  /\ UNCHANGED <<internalQueue, downloaded, transfers, preview, stored, report>>

handleFetchPublicSetResponse(r) ==
  /\ Answered(Ask("fetch", r))
  /\ outstanding' = outstanding (-) SetToBag({Ask("fetch", r)})
  /\ preview' = r
  /\ internalQueue' = Append(internalQueue, "set")
  /\ calling' = calling \cup {"gui"}
  /\ UNCHANGED <<current, downloaded, transfers, stored, history>>

handleGetPreviewElementNodeResponse(e) ==
  /\ Answered(Ask("element", e))
  /\ outstanding' = outstanding (-) SetToBag({Ask("element", e)})
  /\ set' = [set EXCEPT !.nodes = Append(@, e)]
  /\ internalQueue' = Append(internalQueue, "element")
  /\ calling' = calling \cup {"gui"}
  /\ UNCHANGED <<state, selection, imported, downloaded, transfers, preview, stored, history>>

NrImported(lists) == Len(lists.succeeded) + Len(lists.failed) + Len(lists.existing)

checkandHandleFinishedImport(lists) ==
  IF NrImported(lists) = Cardinality(set.handles)
  THEN /\ report' = [NoReport EXCEPT !.req = set.req, !.imported = lists]
       /\ End("done")
       /\ preview' = None
       /\ resetAndHandleStates("gui")
  ELSE /\ imported' = lists
       /\ UNCHANGED <<state, set, selection, calling, preview, history>>

\* Elements that exist at the destination are not copied.
handleCreateFolderResponse(r) ==
  /\ Answered(Ask("folder", r))
  /\ \E there \in SUBSET Range(set.nodes) :
       LET Existing == {i \in DOMAIN set.nodes : set.nodes[i] \in there}
           toCopy == Picked(set.nodes, DOMAIN set.nodes \ Existing)
       IN  /\ outstanding' = (outstanding (-) SetToBag({Ask("folder", r)}))
                               (+) BagOf([k \in DOMAIN toCopy |-> Ask("copy", toCopy[k])])
           /\ checkandHandleFinishedImport(
                [imported EXCEPT !.existing = @ \o Picked(set.nodes, Existing)])
  /\ UNCHANGED <<internalQueue, downloaded, transfers, stored>>

handleCopyNodeResponse(e) ==
  /\ Answered(Ask("copy", e))
  /\ outstanding' = outstanding (-) SetToBag({Ask("copy", e)})
  /\ \E ok \in Results("copy") :
       checkandHandleFinishedImport(IF ok THEN [imported EXCEPT !.succeeded = Append(@, e)]
                                          ELSE [imported EXCEPT !.failed = Append(@, e)])
  /\ UNCHANGED <<internalQueue, downloaded, transfers, stored>>

Counted(done) == downloaded' = IF done THEN 0 ELSE downloaded + 1

\* The end of a download, whatever its result.
onTransferFinish(x) ==
  /\ "gui" \notin calling /\ Alone("gui")
  /\ BagIn(x, transfers)
  /\ transfers' = transfers (-) SetToBag({x})
  /\ stored' = [stored EXCEPT ![x.req] = @ \cup {x.node}]
  /\ LET done == downloaded + 1 = Cardinality(set.handles)
     IN  /\ Counted(done)
         /\ IF done
            THEN preview' = None /\ End("done") /\ resetAndHandleStates("gui")
            ELSE UNCHANGED <<preview, status, current, calling>>
  /\ UNCHANGED <<queues, outstanding, report>>

onRequestFinish ==
  \/ \E ask \in BagToSet(outstanding) : requestFailed(ask)
  \/ \E r \in Requests : handleFetchPublicSetResponse(r) \/ handleCreateFolderResponse(r)
  \/ \E e \in Elements : handleGetPreviewElementNodeResponse(e) \/ handleCopyNodeResponse(e)
-----------------------------------------------------------------------------
Init ==
  /\ requestQueue = <<>> /\ triggers = 0 /\ internalQueue = <<>>
  /\ state = "INIT" /\ set = NoSet /\ selection = {} /\ imported = NoImport
  /\ downloaded = 0 /\ calling = {}
  /\ outstanding = EmptyBag /\ transfers = EmptyBag /\ preview = None
  /\ stored = [r \in Requests |-> {}]
  /\ status = [r \in Requests |-> "new"] /\ report = NoReport

ManagerNext ==
  \/ handleTriggerAction
  \/ \E t \in Threads : handleStates(t)
  \/ onRequestFinish
  \/ \E x \in BagToSet(transfers) : onTransferFinish(x)

Next == (\E r \in Requests : request(r)) \/ ManagerNext

Spec == Init /\ [][Next]_vars

\* Threads run, the SDK answers every request and every download comes to an end.
FairSpec ==
  /\ Spec
  /\ WF_vars(handleTriggerAction)
  /\ \A t \in Threads : WF_vars(handleStates(t))
  /\ WF_vars(onRequestFinish)
  /\ WF_vars(\E x \in BagToSet(transfers) : onTransferFinish(x))
-----------------------------------------------------------------------------
(* Correctness *)

TypeOK ==
  /\ requestQueue \in Seq(Requests) /\ triggers \in Nat /\ internalQueue \in Seq({"set", "element"})
  /\ state \in Waiting \cup {"INIT"}
  /\ set \in [req : Requests \cup {None}, named : BOOLEAN, handles : SUBSET Elements, nodes : Seq(Elements)]
  /\ selection \subseteq Elements
  /\ imported \in [succeeded : Seq(Elements), failed : Seq(Elements), existing : Seq(Elements)]
  /\ downloaded \in Nat /\ calling \subseteq Threads
  /\ IsABag(outstanding) /\ IsABag(transfers)
  /\ BagToSet(outstanding) \subseteq [type : SdkRequests, of : Requests \cup Elements]
  /\ BagToSet(transfers) \subseteq [req : Requests, node : Elements]
  /\ preview \in Requests \cup {None}
  /\ stored \in [Requests -> SUBSET Elements]
  /\ status \in [Requests -> {"new", "pending", "done", "failed"}]

\* The manager is ready for the next request only when nothing of the last one is under way:
\* no answer, no download, no internal action and no count is left to be taken for the next.
QuietWhenInit ==
  state = "INIT" =>
    outstanding = EmptyBag /\ transfers = EmptyBag /\ internalQueue = <<>> /\ downloaded = 0

\* What is reported as done is whole, with nothing of an earlier request in it (the next
\* three). The Set that is reported for a link is the Set of that link, as a whole.
FetchedSetIsItsOwn ==
  report.req # None /\ Kind[report.req] = "fetch" =>
    Range(report.nodes) = Public[report.req] /\ Len(report.nodes) = Cardinality(Public[report.req])

\* The report of an import names each element that was asked for once, in one of its lists.
ImportReportIsWhole ==
  report.req # None /\ Kind[report.req] = "import" =>
    LET all == report.imported.succeeded \o report.imported.failed \o report.imported.existing
    IN  Range(all) = Wanted(report.req) /\ Len(all) = Cardinality(Wanted(report.req))

\* A download is over when that of each of its elements is, and no other element was downloaded.
DownloadIsWhole ==
  \A r \in Requests : status[r] = "done" /\ Kind[r] \in {"download", "downloadLink"}
                        => stored[r] = Wanted(r)

ReportsAreWhole == FetchedSetIsItsOwn /\ ImportReportIsWhole /\ DownloadIsWhole

\* No request is lost: one that is pending waits in the queue or is being dealt with; while
\* one is dealt with, an answer, a download or a call is outstanding, and while one waits
\* although nothing is dealt with, a thread has been or will be woken up.
RequestsAreKept ==
  /\ \A r \in Requests : status[r] = "pending" =>
       r \in Range(requestQueue) \/ (state # "INIT" /\ set.req = r)
  /\ state # "INIT" => calling # {} \/ outstanding # EmptyBag \/ transfers # EmptyBag
  /\ state = "INIT" /\ requestQueue # <<>> => calling # {} \/ triggers > 0

\* Requests are dealt with in their order, one at a time, and none is over before the user is
\* told of its end: every step is a step of OneAtATime, or nothing to it.
Line == INSTANCE OneAtATime WITH
  waiting <- requestQueue, served <- IF state = "INIT" THEN {} ELSE {set.req}
ServesInTurn == Line!LineSpec

\* Each request gets dealt with: it is reported, or an error ends it.
RequestsEnd == \A r \in Requests : status[r] = "pending" ~> status[r] \in {"done", "failed"}
=============================================================================
