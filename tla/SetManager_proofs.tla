------------------------- MODULE SetManager_proofs --------------------------
(***************************************************************************)
(* Machine-checked facts about SetManager, for any number of requests, of  *)
(* elements and of failures.                                               *)
(***************************************************************************)
EXTENDS SetManager, FiniteSetTheorems, TLAPS

-----------------------------------------------------------------------------
(* Bags and sequences *)

\* One of each.
Once(B) == IsABag(B) /\ \A x \in DOMAIN B : B[x] = 1

LEMMA EmptyBagFacts ==
  /\ Once(EmptyBag) /\ DOMAIN EmptyBag = {}
  /\ \A B : IsABag(B) /\ DOMAIN B = {} => B = EmptyBag
  BY DEF EmptyBag, SetToBag, IsABag, Once

LEMMA SetToBagFacts ==
  ASSUME NEW S
  PROVE  Once(SetToBag(S)) /\ DOMAIN SetToBag(S) = S
  BY DEF SetToBag, IsABag, Once

LEMMA BagDifferenceFacts ==
  ASSUME NEW B, IsABag(B), NEW x
  PROVE  /\ IsABag(B (-) SetToBag({x})) /\ DOMAIN (B (-) SetToBag({x})) \subseteq DOMAIN B
         /\ Once(B) => Once(B (-) SetToBag({x})) /\ DOMAIN (B (-) SetToBag({x})) = DOMAIN B \ {x}
  BY DEF (-), SetToBag, IsABag, Once

LEMMA BagUnionFacts ==
  ASSUME NEW A, NEW B, IsABag(A), IsABag(B)
  PROVE  /\ IsABag(A (+) B) /\ DOMAIN (A (+) B) = DOMAIN A \cup DOMAIN B
         /\ Once(A) /\ Once(B) /\ DOMAIN A \cap DOMAIN B = {} => Once(A (+) B)
  BY DEF (+), IsABag, Once

LEMMA OnlyThese ==
  ASSUME NEW B, Once(B)
  PROVE  Once(EmptyBag (+) B) /\ DOMAIN (EmptyBag (+) B) = DOMAIN B
  <1>1. IsABag(EmptyBag) /\ Once(EmptyBag) /\ DOMAIN EmptyBag = {} /\ IsABag(B)
    BY EmptyBagFacts DEF Once
  <1>2. DOMAIN EmptyBag \cap DOMAIN B = {}
    BY <1>1
  <1>3. Once(EmptyBag (+) B) /\ DOMAIN (EmptyBag (+) B) = DOMAIN EmptyBag \cup DOMAIN B
    BY <1>1, <1>2, BagUnionFacts
  <1> QED BY <1>1, <1>3

LEMMA SequenceFacts ==
  ASSUME NEW S, NEW s \in Seq(S)
  PROVE  /\ Len(s) \in Nat /\ DOMAIN s = 1..Len(s) /\ IsFiniteSet(DOMAIN s)
         /\ \A i \in DOMAIN s : s[i] \in S
         /\ Range(s) \subseteq S /\ IsFiniteSet(Range(s)) /\ Cardinality(DOMAIN s) = Len(s)
         /\ (s = <<>>) <=> (Range(s) = {})
         /\ IsInjective(s) => Cardinality(Range(s)) = Len(s)
  <1>1. Len(s) \in Nat /\ DOMAIN s = 1..Len(s) /\ \A i \in DOMAIN s : s[i] \in S
    OBVIOUS
  <1>2. IsFiniteSet(DOMAIN s) /\ Cardinality(DOMAIN s) = Len(s)
    BY <1>1, FS_Interval
  <1>3. s \in Surjection(DOMAIN s, Range(s))
    BY DEF Surjection, Range
  <1>4. IsFiniteSet(Range(s)) /\ (Cardinality(Range(s)) = Cardinality(DOMAIN s) <=> s \in Injection(DOMAIN s, Range(s)))
    BY <1>2, <1>3, FS_Surjection
  <1>5. IsInjective(s) => s \in Injection(DOMAIN s, Range(s))
    BY <1>3 DEF IsInjective, Injection, Surjection
  <1>6. (s = <<>>) <=> (Range(s) = {})
    <2>1. ASSUME s # <<>> PROVE Range(s) # {}
      <3>1. Len(s) # 0
        BY <2>1
      <3>2. 1 \in DOMAIN s
        BY <1>1, <3>1
      <3>3. s[1] \in Range(s)
        BY <3>2 DEF Range
      <3> QED BY <3>3
    <2>2. ASSUME s = <<>> PROVE Range(s) = {}
      <3>1. DOMAIN s = {}
        BY <1>1, <2>2
      <3> QED BY <3>1 DEF Range
    <2> QED BY <2>1, <2>2
  <1> QED BY <1>1, <1>2, <1>4, <1>5, <1>6 DEF Range

LEMMA AppendFacts ==
  ASSUME NEW S, NEW s \in Seq(S), NEW e \in S
  PROVE  /\ Append(s, e) \in Seq(S) /\ Append(s, e) # <<>> /\ Range(Append(s, e)) = Range(s) \cup {e}
         /\ Len(Append(s, e)) = Len(s) + 1
         /\ IsInjective(s) /\ e \notin Range(s) => IsInjective(Append(s, e))
  <1> DEFINE a == Append(s, e)
  <1>1. a \in Seq(S) /\ Len(a) = Len(s) + 1 /\ Len(s) \in Nat /\ DOMAIN s = 1..Len(s) /\ DOMAIN a = 1..(Len(s) + 1)
        /\ a[Len(s) + 1] = e /\ \A i \in 1..Len(s) : a[i] = s[i]
    OBVIOUS
  <1> HIDE DEF a
  <1>2. Range(a) = Range(s) \cup {e}
    BY <1>1 DEF Range
  <1>3. IsInjective(s) /\ e \notin Range(s) => IsInjective(a)
    BY <1>1 DEF IsInjective, Range
  <1> QED BY <1>1, <1>2, <1>3 DEF a

LEMMA ConcatFacts ==
  ASSUME NEW S, NEW s \in Seq(S), NEW r \in Seq(S)
  PROVE  /\ s \o r \in Seq(S) /\ Range(s \o r) = Range(s) \cup Range(r)
         /\ Len(s \o r) = Len(s) + Len(r)
         /\ IsInjective(s) /\ IsInjective(r) /\ Range(s) \cap Range(r) = {} => IsInjective(s \o r)
  <1> DEFINE a == s \o r
  <1>1. a \in Seq(S) /\ Len(a) = Len(s) + Len(r) /\ Len(s) \in Nat /\ Len(r) \in Nat
        /\ DOMAIN s = 1..Len(s) /\ DOMAIN r = 1..Len(r) /\ DOMAIN a = 1..(Len(s) + Len(r))
        /\ \A i \in 1..Len(a) : a[i] = IF i <= Len(s) THEN s[i] ELSE r[i - Len(s)]
    OBVIOUS
  <1> HIDE DEF a
  <1>2. Range(a) = Range(s) \cup Range(r)
    <2>1. \A i \in DOMAIN r : i + Len(s) \in DOMAIN a /\ a[i + Len(s)] = r[i]
      BY <1>1
    <2>2. \A i \in DOMAIN s : i \in DOMAIN a /\ a[i] = s[i]
      BY <1>1
    <2>3. \A i \in DOMAIN a : (i \in DOMAIN s /\ a[i] = s[i]) \/ (i - Len(s) \in DOMAIN r /\ a[i] = r[i - Len(s)])
      BY <1>1
    <2> QED BY <2>1, <2>2, <2>3 DEF Range
  <1>3. ASSUME IsInjective(s), IsInjective(r), Range(s) \cap Range(r) = {}
        PROVE  IsInjective(a)
    <2> SUFFICES ASSUME NEW i \in DOMAIN a, NEW j \in DOMAIN a, a[i] = a[j]
                 PROVE  i = j
      BY DEF IsInjective
    <2>1. CASE i <= Len(s) /\ j <= Len(s)
      BY <1>1, <1>3, <2>1 DEF IsInjective
    <2>2. CASE i > Len(s) /\ j > Len(s)
      <3>1. i - Len(s) \in DOMAIN r /\ j - Len(s) \in DOMAIN r /\ r[i - Len(s)] = r[j - Len(s)]
        BY <1>1, <2>2
      <3>2. i - Len(s) = j - Len(s)
        BY <1>3, <3>1 DEF IsInjective
      <3> QED BY <1>1, <3>2
    <2>3. CASE i <= Len(s) /\ j > Len(s)
      <3>1. i \in DOMAIN s /\ j - Len(s) \in DOMAIN r /\ s[i] = r[j - Len(s)]
        BY <1>1, <2>3
      <3> QED BY <1>3, <3>1 DEF Range
    <2>4. CASE i > Len(s) /\ j <= Len(s)
      <3>1. j \in DOMAIN s /\ i - Len(s) \in DOMAIN r /\ s[j] = r[i - Len(s)]
        BY <1>1, <2>4
      <3> QED BY <1>3, <3>1 DEF Range
    <2> QED BY <1>1, <2>1, <2>2, <2>3, <2>4
  <1> QED BY <1>1, <1>2, <1>3 DEF a

LEMMA SetToSeqFacts ==
  ASSUME NEW S, IsFiniteSet(S)
  PROVE  /\ SetToSeq(S) \in Seq(S) /\ Range(SetToSeq(S)) = S /\ Len(SetToSeq(S)) = Cardinality(S)
         /\ IsInjective(SetToSeq(S)) /\ DOMAIN SetToSeq(S) = 1..Cardinality(S)
  <1> DEFINE n == Cardinality(S)
             f == SetToSeq(S)
  <1>1. n \in Nat /\ ExistsBijection(1..n, S)
    BY FS_CardinalityType
  <1>2. PICK g \in Bijection(1..n, S) : TRUE
    BY <1>1 DEF ExistsBijection
  <1>3. g \in [1..n -> S] /\ IsInjective(g)
    BY <1>2 DEF Bijection, Injection, IsInjective
  <1>4. f \in [1..n -> S] /\ IsInjective(f)
    BY <1>3 DEF SetToSeq
  <1> HIDE DEF f
  <1>5. f \in Seq(S) /\ Len(f) = n /\ DOMAIN f = 1..n
    BY <1>1, <1>4
  <1>6. Range(f) \subseteq S /\ Cardinality(Range(f)) = n
    BY <1>4, <1>5, SequenceFacts
  <1>7. Range(f) = S
    BY <1>6, FS_Subset
  <1> QED BY <1>4, <1>5, <1>7 DEF f

LEMMA BagOfFacts ==
  ASSUME NEW S, NEW s \in Seq(S)
  PROVE  /\ IsABag(BagOf(s)) /\ DOMAIN BagOf(s) = Range(s)
         /\ IsInjective(s) => Once(BagOf(s))
  <1>1. ASSUME NEW x \in Range(s)
        PROVE  LET P == {i \in DOMAIN s : s[i] = x}
               IN Cardinality(P) \in Nat /\ Cardinality(P) > 0 /\ (IsInjective(s) => Cardinality(P) = 1)
    <2> DEFINE P == {i \in DOMAIN s : s[i] = x}
    <2>1. IsFiniteSet(P)
      BY SequenceFacts, FS_Subset
    <2>2. PICK i \in DOMAIN s : s[i] = x
      BY DEF Range
    <2>3. Cardinality(P) \in Nat /\ Cardinality(P) # 0
      BY <2>1, <2>2, FS_CardinalityType, FS_EmptySet
    <2>4. IsInjective(s) => P = {i}
      BY <2>2 DEF IsInjective
    <2>5. IsInjective(s) => Cardinality(P) = 1
      BY <2>4, FS_Singleton
    <2> HIDE DEF P
    <2>6. Cardinality(P) > 0
      BY <2>3
    <2> QED BY <2>3, <2>5, <2>6 DEF P
  <1> QED BY <1>1 DEF BagOf, IsABag, Once

LEMMA PickedFacts ==
  ASSUME NEW S, NEW s \in Seq(S), NEW P \in SUBSET DOMAIN s
  PROVE  /\ Picked(s, P) \in Seq(S) /\ Len(Picked(s, P)) = Cardinality(P)
         /\ Range(Picked(s, P)) = {s[i] : i \in P}
         /\ IsInjective(s) => IsInjective(Picked(s, P))
  <1> DEFINE q == SetToSeq(P)
             n == Cardinality(P)
             p == Picked(s, P)
  <1>1. IsFiniteSet(P)
    BY SequenceFacts, FS_Subset
  <1>2. q \in Seq(P) /\ Range(q) = P /\ Len(q) = n /\ IsInjective(q) /\ DOMAIN q = 1..n /\ n \in Nat
    BY <1>1, SetToSeqFacts, FS_CardinalityType
  <1>3. p = [k \in 1..n |-> s[q[k]]]
    BY DEF Picked
  <1> HIDE DEF q, n, p
  <1>4. \A k \in 1..n : q[k] \in P /\ s[q[k]] \in S
    BY <1>2, SequenceFacts
  <1>5. p \in Seq(S) /\ Len(p) = n /\ DOMAIN p = 1..n
    BY <1>2, <1>3, <1>4
  <1>6. Range(p) = {s[i] : i \in P}
    BY <1>2, <1>3, <1>4, <1>5 DEF Range
  <1>7. IsInjective(s) => IsInjective(p)
    BY <1>2, <1>3, <1>4, <1>5 DEF IsInjective
  <1> QED BY <1>5, <1>6, <1>7 DEF n, p
-----------------------------------------------------------------------------
(* Types *)

Lists == [succeeded : Seq(Elements), failed : Seq(Elements), existing : Seq(Elements)]
Sets == [req : Requests \cup {None}, named : BOOLEAN, handles : SUBSET Elements, nodes : Seq(Elements)]
Asks == [type : SdkRequests, of : Requests \cup Elements]
Downloads == [req : Requests, node : Elements]

\* A state that waits for something knows for which request.
SomeRequest == state # "INIT" => set.req \in Requests

TypeInv == TypeOK /\ SomeRequest

LEMMA Facts ==
  /\ \A r \in Requests : r # None
  /\ \A r \in Requests : Public[r] \subseteq Elements /\ Wanted(r) \subseteq Elements
       /\ Selected[r] \subseteq Elements /\ WaitsFor(r) \in Waiting /\ Kind[r] \in Kinds
  /\ \A P \in SUBSET Elements : IsFiniteSet(P) /\ Cardinality(P) \in Nat
  /\ NoSet \in Sets /\ NoImport \in Lists
  <1>1. \A r \in Requests : r # None
    BY RequestsAssumption DEF None
  <1>2. \A r \in Requests : Public[r] \subseteq Elements /\ Wanted(r) \subseteq Elements
          /\ Selected[r] \subseteq Elements
    BY RequestsAssumption DEF Wanted
  <1>3. \A r \in Requests : WaitsFor(r) \in Waiting /\ Kind[r] \in Kinds
    BY RequestsAssumption DEF WaitsFor, Waiting, Kinds
  <1>4. \A P \in SUBSET Elements : IsFiniteSet(P) /\ Cardinality(P) \in Nat
    BY RequestsAssumption, FS_Subset, FS_CardinalityType
  <1>5. NoSet \in Sets /\ NoImport \in Lists
    BY DEF NoSet, Sets, NoImport, Lists
  <1> QED BY <1>1, <1>2, <1>3, <1>4, <1>5

LEMMA Types ==
  ASSUME TypeInv
  PROVE  /\ set \in Sets /\ imported \in Lists
         /\ IsABag(outstanding) /\ DOMAIN outstanding \subseteq Asks
         /\ IsABag(transfers) /\ DOMAIN transfers \subseteq Downloads
  BY DEF TypeInv, TypeOK, Sets, Lists, Asks, Downloads, BagToSet

LEMMA ResetTypes ==
  ASSUME reset
  PROVE  state' = "INIT" /\ set' \in Sets /\ selection' \subseteq Elements /\ imported' \in Lists
  BY Facts DEF reset

LEMMA CallTypes ==
  ASSUME TypeInv, NEW t \in Threads
  PROVE  /\ Returns(t) => calling' \subseteq Threads
         /\ resetAndHandleStates(t) => reset /\ calling' \subseteq Threads
  BY DEF TypeInv, TypeOK, Returns, resetAndHandleStates

LEMMA EndTypes ==
  ASSUME TypeInv, NEW how \in {"done", "failed"}, End(how)
  PROVE  status' \in [Requests -> {"new", "pending", "done", "failed"}]
  BY DEF TypeInv, TypeOK, End

LEMMA TailTypes ==
  ASSUME NEW S, NEW s \in Seq(S), s # <<>>
  PROVE  Head(s) \in S /\ Tail(s) \in Seq(S)
  OBVIOUS

LEMMA AskTypes ==
  ASSUME TypeInv, NEW S \in SUBSET Asks
  PROVE  /\ IsABag(outstanding (+) SetToBag(S)) /\ BagToSet(outstanding (+) SetToBag(S)) \subseteq Asks
  <1>1. IsABag(SetToBag(S)) /\ DOMAIN SetToBag(S) = S
    BY SetToBagFacts DEF Once
  <1>2. IsABag(outstanding (+) SetToBag(S)) /\ DOMAIN (outstanding (+) SetToBag(S)) = DOMAIN outstanding \cup S
    BY <1>1, Types, BagUnionFacts
  <1> QED BY <1>2, Types DEF BagToSet

LEMMA AnswerTypes ==
  ASSUME TypeInv, NEW ask
  PROVE  /\ IsABag(outstanding (-) SetToBag({ask})) /\ BagToSet(outstanding (-) SetToBag({ask})) \subseteq Asks
  BY Types, BagDifferenceFacts DEF BagToSet

LEMMA DownloadTypes ==
  ASSUME TypeInv, set.req \in Requests, startDownload
  PROVE  set' \in Sets /\ IsABag(transfers') /\ BagToSet(transfers') \subseteq Downloads
  <1> DEFINE d == [i \in DOMAIN set.nodes |-> [req |-> set.req, node |-> set.nodes[i]]]
  <1>1. set \in Sets /\ set.nodes \in Seq(Elements)
    BY DEF TypeInv, TypeOK, Sets
  <1>2. d \in Seq(Downloads)
    <2>1. Len(set.nodes) \in Nat /\ DOMAIN set.nodes = 1..Len(set.nodes) /\ \A i \in DOMAIN set.nodes : set.nodes[i] \in Elements
      BY <1>1, SequenceFacts
    <2>2. d \in [1..Len(set.nodes) -> Downloads]
      BY <2>1 DEF Downloads
    <2> QED BY <2>1, <2>2
  <1> HIDE DEF d
  <1>3. IsABag(BagOf(d)) /\ DOMAIN BagOf(d) \subseteq Downloads
    BY <1>2, BagOfFacts, SequenceFacts
  <1>4. IsABag(transfers (+) BagOf(d)) /\ DOMAIN (transfers (+) BagOf(d)) \subseteq Downloads
    BY <1>3, Types, BagUnionFacts
  <1>5. set' = [set EXCEPT !.nodes = <<>>] /\ transfers' = transfers (+) BagOf(d)
    BY DEF startDownload, d
  <1>6. set' \in Sets
    <2>1. <<>> \in Seq(Elements)
      OBVIOUS
    <2> QED BY <1>1, <1>5, <2>1 DEF Sets
  <1> QED BY <1>4, <1>5, <1>6 DEF BagToSet

LEMMA ImportTypes ==
  ASSUME TypeInv, NEW lists \in Lists, checkandHandleFinishedImport(lists)
  PROVE  /\ state' \in {state, "INIT"} /\ (state' = "INIT" \/ set' = set)
         /\ set' \in Sets /\ selection' \subseteq Elements /\ imported' \in Lists
         /\ calling' \subseteq Threads /\ preview' \in Requests \cup {None}
         /\ status' \in [Requests -> {"new", "pending", "done", "failed"}]
  <1>1. CASE NrImported(lists) = Cardinality(set.handles)
    BY <1>1, ResetTypes, CallTypes, EndTypes DEF checkandHandleFinishedImport, TypeInv, TypeOK, Threads
  <1>2. CASE NrImported(lists) # Cardinality(set.handles)
    BY <1>2, Types DEF checkandHandleFinishedImport, TypeInv, TypeOK, history
  <1> QED BY <1>1, <1>2

LEMMA TypesMake ==
  ASSUME requestQueue' \in Seq(Requests), triggers' \in Nat, internalQueue' \in Seq({"set", "element"}),
         state' \in Waiting \cup {"INIT"}, set' \in Sets, selection' \subseteq Elements, imported' \in Lists,
         downloaded' \in Nat, calling' \subseteq Threads,
         IsABag(outstanding'), IsABag(transfers'), DOMAIN outstanding' \subseteq Asks,
         DOMAIN transfers' \subseteq Downloads, preview' \in Requests \cup {None},
         stored' \in [Requests -> SUBSET Elements],
         status' \in [Requests -> {"new", "pending", "done", "failed"}], SomeRequest'
  PROVE  TypeInv'
  BY DEF TypeInv, TypeOK, BagToSet, Sets, Lists, Asks, Downloads

LEMMA TypeInitially == Init => TypeInv
  <1> SUFFICES ASSUME Init PROVE TypeInv
    OBVIOUS
  <1>1. NoSet \in Sets /\ NoImport \in Lists /\ IsABag(EmptyBag) /\ DOMAIN EmptyBag = {}
    BY Facts, EmptyBagFacts DEF Once
  <1> QED BY <1>1 DEF Init, TypeInv, TypeOK, SomeRequest, BagToSet, Sets, Lists, None, Threads

LEMMA TypeStep ==
  ASSUME TypeInv, [Next]_vars
  PROVE  TypeInv'
  <1> USE DEF queues, current, sdk, history, vars, TypeInv
  <1>1. ASSUME NEW r \in Requests, request(r) PROVE TypeInv'
    <2>1. requestQueue' \in Seq(Requests)
      BY <1>1, AppendFacts DEF request, TypeOK
    <2> QED BY <1>1, <2>1, Types, TypesMake DEF request, TypeOK, SomeRequest
  <1>2. CASE handleTriggerAction
    BY <1>2, Types, TypesMake DEF handleTriggerAction, TypeOK, SomeRequest, Threads
  <1>3. ASSUME NEW t \in Threads, nothingToHandle(t) PROVE TypeInv'
    <2>1. CASE state = "INIT"
      BY <1>3, <2>1, Types, TypesMake, CallTypes DEF nothingToHandle, TypeOK, SomeRequest
    <2>2. CASE state # "INIT"
      BY <1>3, <2>2, Types, TypesMake, CallTypes, ResetTypes DEF nothingToHandle, TypeOK, SomeRequest
    <2> QED BY <2>1, <2>2
  <1>4. ASSUME NEW t \in Threads, handleStateInit(t) PROVE TypeInv'
    <2> DEFINE r == Head(requestQueue)
               given == Kind[r] \in {"download", "import"}
    <2>1. r \in Requests /\ requestQueue' \in Seq(Requests)
      BY <1>4, TailTypes DEF handleStateInit, TypeOK
    <2>2. filterSet(r) \in Sets /\ [NoSet EXCEPT !.req = r] \in Sets
      <3>1. Wanted(r) \subseteq Elements /\ IsFiniteSet(Wanted(r)) /\ <<>> \in Seq(Elements)
        BY <2>1, Facts
      <3>2. SetToSeq(Wanted(r)) \in Seq(Wanted(r))
        BY <3>1, SetToSeqFacts
      <3>3. SetToSeq(Wanted(r)) \in Seq(Elements)
        BY <3>1, <3>2
      <3> HIDE DEF r
      <3> QED BY <2>1, <3>1, <3>3 DEF filterSet, NoSet, Sets, None
    <2>3. set' \in Sets /\ set'.req = r /\ selection' \subseteq Elements
      BY <1>4, <2>1, <2>2, Facts DEF handleStateInit, filterSet, NoSet, TypeOK
    <2>4. Ask("fetch", r) \in Asks
      BY <2>1 DEF Ask, Asks, SdkRequests
    <2>5. IsABag(outstanding') /\ DOMAIN outstanding' \subseteq Asks /\ state' \in Waiting \cup {"INIT"}
      <3>1. CASE given /\ Wanted(r) = {}
        BY <1>4, <3>1, Types DEF handleStateInit, TypeOK
      <3>2. CASE ~(given /\ Wanted(r) = {})
        <4>1. outstanding' = outstanding (+) SetToBag({Ask("fetch", r)}) /\ state' = WaitsFor(r)
          BY <1>4, <3>2 DEF handleStateInit
        <4> QED BY <2>1, <2>4, <4>1, AskTypes, Facts DEF BagToSet
      <3> QED BY <3>1, <3>2
    <2> QED BY <1>4, <2>1, <2>3, <2>5, Types, TypesMake, CallTypes DEF handleStateInit, TypeOK, SomeRequest
  <1>5. ASSUME NEW t \in Threads, getPreview(t) PROVE TypeInv'
    <2>1. internalQueue' \in Seq({"set", "element"}) /\ requestQueue' = requestQueue /\ triggers' = triggers /\ downloaded' = downloaded
      <3>1. internalQueue # <<>> /\ internalQueue' = Tail(internalQueue) /\ UNCHANGED <<requestQueue, triggers, downloaded>>
        BY <1>5 DEF getPreview, Handles, Pops
      <3> QED BY <3>1, TailTypes DEF TypeOK
    <2>2. CASE preview = None \/ set.handles \cup InPreview = {}
      BY <1>5, <2>1, <2>2, Types, TypesMake, CallTypes, ResetTypes, EndTypes DEF getPreview, TypeOK, SomeRequest
    <2>3. CASE ~(preview = None \/ set.handles \cup InPreview = {})
      <3>1. set.handles \cup InPreview \in SUBSET Elements
        BY <2>3, Types, Facts DEF InPreview, Sets, TypeOK
      <3>2. {Ask("element", e) : e \in set.handles \cup InPreview} \subseteq Asks
        BY <3>1 DEF Ask, Asks, SdkRequests
      <3>3. set' \in Sets /\ set'.req = set.req
        BY <1>5, <2>3, <3>1, Types DEF getPreview, Sets
      <3>4. IsABag(outstanding') /\ DOMAIN outstanding' \subseteq Asks
        BY <1>5, <2>3, <3>2, AskTypes DEF getPreview, BagToSet
      <3> QED BY <1>5, <2>1, <2>3, <3>3, <3>4, Types, TypesMake, CallTypes DEF getPreview, TypeOK, SomeRequest
    <2> QED BY <2>2, <2>3
  <1>6. ASSUME NEW t \in Threads, elementFetched(t) PROVE TypeInv'
    <2>1. internalQueue' \in Seq({"set", "element"}) /\ requestQueue' = requestQueue /\ triggers' = triggers /\ downloaded' = downloaded
      BY <1>6, TailTypes DEF elementFetched, Handles, Pops, TypeOK
    <2> QED BY <1>6, <2>1, Types, TypesMake, CallTypes, ResetTypes, EndTypes DEF elementFetched, TypeOK, SomeRequest
  <1>7. ASSUME NEW t \in Threads, elementToDownload(t) PROVE TypeInv'
    <2>1. internalQueue' \in Seq({"set", "element"}) /\ requestQueue' = requestQueue /\ triggers' = triggers /\ downloaded' = downloaded
      BY <1>7, TailTypes DEF elementToDownload, Handles, Pops, TypeOK
    <2>2. set.req \in Requests
      BY <1>7 DEF elementToDownload, Handles, Pops, Calls, SomeRequest
    <2>3. set' = [set EXCEPT !.nodes = <<>>]
      BY <1>7 DEF elementToDownload, startDownload
    <2>4. set' \in Sets /\ set'.req = set.req
      <3>1. <<>> \in Seq(Elements)
        OBVIOUS
      <3> QED BY <2>3, <3>1, Types DEF Sets
    <2>5. IsABag(transfers') /\ DOMAIN transfers' \subseteq Downloads
      BY <1>7, <2>2, DownloadTypes, Types DEF elementToDownload, BagToSet
    <2> QED BY <1>7, <2>1, <2>4, <2>5, Types, TypesMake, CallTypes DEF elementToDownload, TypeOK, SomeRequest
  <1>8. ASSUME NEW t \in Threads, downloadCollection(t) PROVE TypeInv'
    <2>1. internalQueue' \in Seq({"set", "element"}) /\ requestQueue' = requestQueue /\ triggers' = triggers /\ downloaded' = downloaded
      BY <1>8, TailTypes DEF downloadCollection, Pops, TypeOK
    <2>2. set.req \in Requests
      BY <1>8 DEF downloadCollection, Pops, Calls, SomeRequest
    <2>3. CASE startDownload /\ Returns(t) /\ UNCHANGED <<state, selection, imported, status>>
      BY <1>8, <2>1, <2>2, <2>3, DownloadTypes, Types, TypesMake, CallTypes DEF downloadCollection, TypeOK, SomeRequest, BagToSet, startDownload
    <2>4. CASE resetAndHandleStates(t) /\ End("failed") /\ UNCHANGED transfers
      BY <1>8, <2>1, <2>4, Types, TypesMake, CallTypes, ResetTypes, EndTypes DEF downloadCollection, TypeOK, SomeRequest
    <2> QED BY <1>8, <2>3, <2>4 DEF downloadCollection
  <1>9. ASSUME NEW t \in Threads, createFolder(t) PROVE TypeInv'
    <2>1. internalQueue' \in Seq({"set", "element"}) /\ requestQueue' = requestQueue /\ triggers' = triggers /\ downloaded' = downloaded
      BY <1>9, TailTypes DEF createFolder, Pops, TypeOK
    <2>2. set.req \in Requests
      BY <1>9 DEF createFolder, Pops, Calls, SomeRequest
    <2>3. CASE Head(internalQueue) = "set"
      <3>1. Ask("folder", set.req) \in Asks
        BY <2>2 DEF Ask, Asks, SdkRequests
      <3>2. IsABag(outstanding') /\ DOMAIN outstanding' \subseteq Asks
        BY <1>9, <2>3, <3>1, AskTypes DEF createFolder, BagToSet
      <3> QED BY <1>9, <2>1, <2>3, <3>2, Types, TypesMake, CallTypes DEF createFolder, TypeOK, SomeRequest
    <2>4. CASE Head(internalQueue) # "set"
      BY <1>9, <2>1, <2>4, Types, TypesMake, CallTypes, ResetTypes, EndTypes DEF createFolder, TypeOK, SomeRequest
    <2> QED BY <2>3, <2>4
  <1>10. ASSUME NEW ask \in BagToSet(outstanding), requestFailed(ask) PROVE TypeInv'
    <2>1. IsABag(outstanding') /\ DOMAIN outstanding' \subseteq Asks
      BY <1>10, AnswerTypes DEF requestFailed, BagToSet
    <2> QED BY <1>10, <2>1, Types, TypesMake, CallTypes, ResetTypes, EndTypes DEF requestFailed, Answered, TypeOK, SomeRequest, Threads
  <1>11. ASSUME NEW r \in Requests, handleFetchPublicSetResponse(r) PROVE TypeInv'
    <2>1. IsABag(outstanding') /\ DOMAIN outstanding' \subseteq Asks
      BY <1>11, AnswerTypes DEF handleFetchPublicSetResponse, BagToSet
    <2>2. internalQueue' \in Seq({"set", "element"})
      BY <1>11, AppendFacts DEF handleFetchPublicSetResponse, TypeOK
    <2> QED BY <1>11, <2>1, <2>2, Types, TypesMake DEF handleFetchPublicSetResponse, Answered, TypeOK, SomeRequest, Threads
  <1>12. ASSUME NEW e \in Elements, handleGetPreviewElementNodeResponse(e) PROVE TypeInv'
    <2>1. IsABag(outstanding') /\ DOMAIN outstanding' \subseteq Asks
      BY <1>12, AnswerTypes DEF handleGetPreviewElementNodeResponse, BagToSet
    <2>2. internalQueue' \in Seq({"set", "element"})
      BY <1>12, AppendFacts DEF handleGetPreviewElementNodeResponse, TypeOK
    <2>3. Append(set.nodes, e) \in Seq(Elements)
      BY Types, AppendFacts DEF Sets
    <2>4. set' \in Sets /\ set'.req = set.req
      BY <1>12, <2>3, Types DEF handleGetPreviewElementNodeResponse, Sets
    <2> QED BY <1>12, <2>1, <2>2, <2>4, Types, TypesMake DEF handleGetPreviewElementNodeResponse, Answered, TypeOK, SomeRequest, Threads
  <1>13. ASSUME NEW r \in Requests, handleCreateFolderResponse(r) PROVE TypeInv'
    <2>1. set.nodes \in Seq(Elements)
      BY Types DEF Sets
    <2>2. PICK there \in SUBSET Range(set.nodes) :
            LET Existing == {i \in DOMAIN set.nodes : set.nodes[i] \in there}
                toCopy == Picked(set.nodes, DOMAIN set.nodes \ Existing)
            IN  /\ outstanding' = (outstanding (-) SetToBag({Ask("folder", r)}))
                                    (+) BagOf([k \in DOMAIN toCopy |-> Ask("copy", toCopy[k])])
                /\ checkandHandleFinishedImport(
                     [imported EXCEPT !.existing = @ \o Picked(set.nodes, Existing)])
      BY <1>13 DEF handleCreateFolderResponse
    <2> DEFINE Existing == {i \in DOMAIN set.nodes : set.nodes[i] \in there}
               toCopy == Picked(set.nodes, DOMAIN set.nodes \ Existing)
               lists == [imported EXCEPT !.existing = @ \o Picked(set.nodes, Existing)]
               asks == [k \in DOMAIN toCopy |-> Ask("copy", toCopy[k])]
    <2>3. Picked(set.nodes, Existing) \in Seq(Elements) /\ toCopy \in Seq(Elements)
      BY <2>1, PickedFacts
    <2>4. lists \in Lists
      <3>1. imported.existing \o Picked(set.nodes, Existing) \in Seq(Elements)
        BY <2>3, Types, ConcatFacts DEF Lists
      <3> QED BY <3>1, Types DEF Lists
    <2>5. asks \in Seq(Asks)
      <3> HIDE DEF toCopy
      <3>1. Len(toCopy) \in Nat /\ DOMAIN toCopy = 1..Len(toCopy) /\ \A k \in DOMAIN toCopy : toCopy[k] \in Elements
        BY <2>3, SequenceFacts
      <3>2. asks \in [1..Len(toCopy) -> Asks]
        BY <3>1 DEF Ask, Asks, SdkRequests
      <3> QED BY <3>1, <3>2
    <2>6. outstanding' = (outstanding (-) SetToBag({Ask("folder", r)})) (+) BagOf(asks)
          /\ checkandHandleFinishedImport(lists)
      BY <2>2
    <2> HIDE DEF asks, lists
    <2>7. IsABag(BagOf(asks)) /\ DOMAIN BagOf(asks) \subseteq Asks
      BY <2>5, BagOfFacts, SequenceFacts
    <2>8. IsABag(outstanding') /\ DOMAIN outstanding' \subseteq Asks
      BY <2>6, <2>7, AnswerTypes, BagUnionFacts DEF BagToSet
    <2> QED BY <1>13, <2>4, <2>6, <2>8, Types, TypesMake, ImportTypes DEF handleCreateFolderResponse, Answered, TypeOK, SomeRequest
  <1>14. ASSUME NEW e \in Elements, handleCopyNodeResponse(e) PROVE TypeInv'
    <2>1. IsABag(outstanding') /\ DOMAIN outstanding' \subseteq Asks
      BY <1>14, AnswerTypes DEF handleCopyNodeResponse, BagToSet
    <2>2. [imported EXCEPT !.succeeded = Append(@, e)] \in Lists /\ [imported EXCEPT !.failed = Append(@, e)] \in Lists
      BY Types, AppendFacts DEF Lists
    <2>3. PICK lists \in Lists : checkandHandleFinishedImport(lists)
      BY <1>14, <2>2 DEF handleCopyNodeResponse
    <2> QED BY <1>14, <2>1, <2>3, Types, TypesMake, ImportTypes DEF handleCopyNodeResponse, Answered, TypeOK, SomeRequest
  <1>15. ASSUME NEW x \in BagToSet(transfers), onTransferFinish(x) PROVE TypeInv'
    <2>1. x \in Downloads
      BY Types DEF BagToSet
    <2>2. IsABag(transfers') /\ DOMAIN transfers' \subseteq Downloads
      BY <1>15, Types, BagDifferenceFacts DEF onTransferFinish
    <2>3. stored' \in [Requests -> SUBSET Elements]
      BY <1>15, <2>1 DEF onTransferFinish, Downloads, TypeOK
    <2>4. downloaded' \in Nat
      BY <1>15 DEF onTransferFinish, Counted, TypeOK
    <2>5. CASE downloaded + 1 = Cardinality(set.handles)
      BY <1>15, <2>2, <2>3, <2>4, <2>5, Types, TypesMake, CallTypes, ResetTypes, EndTypes DEF onTransferFinish, TypeOK, SomeRequest, Threads
    <2>6. CASE downloaded + 1 # Cardinality(set.handles)
      BY <1>15, <2>2, <2>3, <2>4, <2>6, Types, TypesMake DEF onTransferFinish, TypeOK, SomeRequest
    <2> QED BY <2>5, <2>6
  <1>16. CASE UNCHANGED vars
    BY <1>16, Types, TypesMake DEF TypeOK, SomeRequest
  <1> QED BY <1>1, <1>2, <1>3, <1>4, <1>5, <1>6, <1>7, <1>8, <1>9, <1>10, <1>11, <1>12, <1>13, <1>14, <1>15, <1>16
          DEF Next, ManagerNext, handleStates, onRequestFinish

\* The type invariant holds whatever the threads do in between each other's steps, and
\* whatever fails. A state that waits for something knows for which request.
THEOREM TypeInvariant == Spec => []TypeOK
  <1>1. TypeInv /\ [Next]_vars => TypeInv'
    BY TypeStep
  <1>2. TypeInv => TypeOK
    BY DEF TypeInv
  <1> QED BY TypeInitially, <1>1, <1>2, PTL DEF Spec
-----------------------------------------------------------------------------
(* What holds of the manager when it is not disturbed: a thread does not step *)
(* in between the other one's reset and its call of handleStates, each node   *)
(* of a Set can be had, and a Set that is given has what is asked of it.      *)

Given(r) == Kind[r] \in {"download", "import"}

Undisturbed ==
  /\ ~Overlap /\ "element" \notin Failures
  /\ \A r \in Requests : Given(r) => Wanted(r) # {}

\* Nothing of a request is left when its state is.
InitInv ==
  state = "INIT" =>
    /\ outstanding = EmptyBag /\ transfers = EmptyBag /\ internalQueue = <<>>
    /\ downloaded = 0 /\ imported = NoImport /\ selection = {}

\* The request in progress is that of the state, and the GUI thread is the one that calls
\* handleStates, once for each internal action.
CurrentInv ==
  /\ set.req \in Requests /\ state = WaitsFor(set.req)
  /\ status[set.req] = "pending" /\ set.req \notin Range(requestQueue)
  /\ selection = IF Kind[set.req] = "fetch" THEN {} ELSE Selected[set.req]
  /\ calling \subseteq {"gui"} /\ internalQueue \in {<<>>, <<"set">>, <<"element">>}
  /\ calling = {} <=> internalQueue = <<>>
  /\ Once(outstanding) /\ Once(transfers)

\* The Set behind the link is asked for, or has come and was not looked at.
TakenSet(r) == IF Given(r) THEN filterSet(r) ELSE [NoSet EXCEPT !.req = r]

FetchInv ==
  /\ set = TakenSet(set.req)
  /\ stored[set.req] = {} /\ downloaded = 0 /\ imported = NoImport /\ transfers = EmptyBag
  /\ \/ internalQueue = <<>> /\ DOMAIN outstanding = {Ask("fetch", set.req)}
     \/ internalQueue = <<"set">> /\ outstanding = EmptyBag /\ preview = set.req

AskedFor(type, S) == DOMAIN outstanding = {Ask(type, e) : e \in S}

\* The nodes of a link's elements come in, one after the other.
NodesInv ==
  /\ state = "GET_DATA" /\ set.handles = Public[set.req]
  /\ IsInjective(set.nodes) /\ Range(set.nodes) \subseteq set.handles
  /\ AskedFor("element", set.handles \ Range(set.nodes))
  /\ internalQueue = <<>> => Range(set.nodes) # set.handles
  /\ transfers = EmptyBag /\ stored[set.req] = {} /\ downloaded = 0 /\ imported = NoImport

\* An element's node is asked for, or it is there, or it is downloaded, or it has been: only
\* one of these, and one, unless a folder could not be created.
Asked == {e \in Elements : Ask("element", e) \in DOMAIN outstanding}
Moving == {e \in Elements : [req |-> set.req, node |-> e] \in DOMAIN transfers}

DownloadInv ==
  /\ state \in {"DOWNLOAD_FROM_LINK", "DOWNLOAD_COLLECTION"} /\ set.handles = Wanted(set.req)
  /\ AskedFor("element", Asked)
  /\ DOMAIN transfers = {[req |-> set.req, node |-> e] : e \in Moving}
  /\ IsInjective(set.nodes) /\ (internalQueue = <<>> => set.nodes = <<>>)
  /\ Asked \cap Range(set.nodes) = {} /\ Asked \cap Moving = {} /\ Asked \cap stored[set.req] = {}
  /\ Range(set.nodes) \cap Moving = {} /\ Range(set.nodes) \cap stored[set.req] = {}
  /\ Moving \cap stored[set.req] = {}
  /\ Asked \cup Range(set.nodes) \cup Moving \cup stored[set.req] \subseteq set.handles
  /\ "directory" \notin Failures =>
       set.handles \subseteq Asked \cup Range(set.nodes) \cup Moving \cup stored[set.req]
  /\ downloaded = Cardinality(stored[set.req]) /\ downloaded < Cardinality(set.handles)
  /\ imported = NoImport
  /\ state = "DOWNLOAD_COLLECTION" => outstanding = EmptyBag /\ internalQueue = <<>>

\* The three lists have no element in common, and none twice.
Apart(lists) ==
  /\ IsInjective(lists.succeeded) /\ IsInjective(lists.failed) /\ IsInjective(lists.existing)
  /\ Range(lists.succeeded) \cap Range(lists.failed) = {}
  /\ Range(lists.succeeded) \cap Range(lists.existing) = {}
  /\ Range(lists.failed) \cap Range(lists.existing) = {}
Named(lists) == Range(lists.succeeded) \cup Range(lists.failed) \cup Range(lists.existing)

ImportInv ==
  /\ state = "IMPORT_COLLECTION" /\ internalQueue = <<>> /\ transfers = EmptyBag
  /\ stored[set.req] = {} /\ downloaded = 0
  /\ set.handles = Wanted(set.req) /\ IsInjective(set.nodes) /\ Range(set.nodes) = set.handles
  /\ \/ imported = NoImport /\ DOMAIN outstanding = {Ask("folder", set.req)}
     \/ /\ Apart(imported) /\ Named(imported) \subseteq set.handles /\ Named(imported) # set.handles
        /\ AskedFor("copy", set.handles \ Named(imported))

WorkInv ==
  /\ set.named /\ set.handles # {} /\ internalQueue # <<"set">>
  /\ NodesInv \/ DownloadInv \/ ImportInv

\* The requests that wait, and those that were not made.
QueueInv ==
  /\ IsInjective(requestQueue)
  /\ \A r \in Range(requestQueue) : status[r] = "pending"
  /\ \A r \in Requests : status[r] = "new" \/ r \in Range(requestQueue) => stored[r] = {}
  /\ \A r \in Requests : status[r] = "pending" =>
       r \in Range(requestQueue) \/ (state # "INIT" /\ set.req = r)
  /\ state = "INIT" /\ requestQueue # <<>> => calling # {} \/ triggers > 0

Inv ==
  /\ TypeInv /\ InitInv /\ QueueInv /\ ReportsAreWhole
  /\ state # "INIT" => CurrentInv /\ (FetchInv \/ WorkInv)
-----------------------------------------------------------------------------
(* What the steps have in common *)

LEMMA TailFacts ==
  ASSUME NEW S, NEW s \in Seq(S), s # <<>>
  PROVE  /\ Range(s) = {Head(s)} \cup Range(Tail(s))
         /\ IsInjective(s) => IsInjective(Tail(s)) /\ Head(s) \notin Range(Tail(s))
  <1> DEFINE q == Tail(s)
  <1>1. q \in Seq(S) /\ Len(s) \in Nat /\ Len(s) # 0 /\ DOMAIN s = 1..Len(s) /\ DOMAIN q = 1..(Len(s) - 1)
        /\ Head(s) = s[1] /\ \A i \in 1..(Len(s) - 1) : q[i] = s[i + 1]
    OBVIOUS
  <1> HIDE DEF q
  <1>2. \A i \in DOMAIN q : i + 1 \in DOMAIN s /\ s[i + 1] = q[i]
    BY <1>1
  <1>3. \A i \in DOMAIN s : i = 1 \/ (i - 1 \in DOMAIN q /\ s[i] = q[i - 1])
    BY <1>1
  <1>4. Range(s) = {Head(s)} \cup Range(q)
    <2>1. 1 \in DOMAIN s
      BY <1>1
    <2> QED BY <1>1, <1>2, <1>3, <2>1 DEF Range
  <1>5. ASSUME IsInjective(s) PROVE IsInjective(q) /\ Head(s) \notin Range(q)
    <2>1. IsInjective(q)
      BY <1>1, <1>2, <1>5 DEF IsInjective
    <2>2. \A i \in DOMAIN q : q[i] # s[1]
      BY <1>1, <1>2, <1>5 DEF IsInjective
    <2> QED BY <1>1, <2>1, <2>2 DEF Range
  <1> QED BY <1>4, <1>5 DEF q

\* A thread that calls handleStates is the only one.
LEMMA OneCalls ==
  ASSUME Undisturbed, NEW t \in calling, Alone(t)
  PROVE  calling = {t}
  BY DEF Undisturbed, Alone

LEMMA Busy ==
  ASSUME Inv, state # "INIT"
  PROVE  CurrentInv /\ (FetchInv \/ WorkInv)
  BY DEF Inv

\* A thread that calls handleStates while a request is in progress is the GUI thread, with
\* one internal action.
LEMMA BusyCall ==
  ASSUME Undisturbed, Inv, NEW t \in Threads, t \in calling, Alone(t), state # "INIT"
  PROVE  /\ calling = {t} /\ t = "gui" /\ internalQueue \in {<<"set">>, <<"element">>}
         /\ Head(internalQueue) = "set" <=> internalQueue = <<"set">>
         /\ Tail(internalQueue) = <<>> /\ calling \ {t} = {}
  <1>1. calling = {t}
    BY OneCalls
  <1>2. t = "gui" /\ internalQueue \in {<<"set">>, <<"element">>}
    BY <1>1, Busy DEF CurrentInv
  <1>3. CASE internalQueue = <<"set">>
    BY <1>1, <1>2, <1>3
  <1>4. CASE internalQueue = <<"element">>
    <2>1. Head(internalQueue) = "element" /\ Tail(internalQueue) = <<>> /\ internalQueue # <<"set">>
      BY <1>4
    <2> QED BY <1>1, <1>2, <2>1
  <1> QED BY <1>2, <1>3, <1>4

\* An answer, or the end of a download, finds nobody at work.
LEMMA NobodyCalls ==
  ASSUME Undisturbed, Inv, "gui" \notin calling, Alone("gui")
  PROVE  calling = {} /\ (state # "INIT" => internalQueue = <<>>)
  <1>1. calling = {}
    BY DEF Undisturbed, Alone
  <1> QED BY <1>1, Busy DEF CurrentInv

\* A report stays whole when no request is done that was not.
LEMMA ReportsStay ==
  ASSUME ReportsAreWhole, report' = report,
         \A r \in Requests : status'[r] = "done" => status[r] = "done" /\ stored'[r] = stored[r]
  PROVE  ReportsAreWhole'
  BY DEF ReportsAreWhole, FetchedSetIsItsOwn, ImportReportIsWhole, DownloadIsWhole

\* The end of the request in progress, with nothing left of it.
LEMMA EndKeepsInv ==
  ASSUME Inv, state # "INIT", TypeInv', ReportsAreWhole', NEW t \in Threads, NEW how \in {"done", "failed"},
         resetAndHandleStates(t), End(how), outstanding' = EmptyBag, transfers' = EmptyBag,
         internalQueue' = <<>>, downloaded' = 0, requestQueue' = requestQueue,
         \A r \in Requests : r # set.req => stored'[r] = stored[r]
  PROVE  Inv'
  <1>1. CurrentInv
    BY Busy
  <1>2. set.req \in Requests /\ set.req # None /\ set.req \notin Range(requestQueue)
        /\ status' = [status EXCEPT ![set.req] = how] /\ status \in [Requests -> {"new", "pending", "done", "failed"}]
    BY <1>1, Facts DEF CurrentInv, End, Inv, TypeInv, TypeOK
  <1>3. \A r \in Requests : r # set.req => status'[r] = status[r]
    BY <1>2
  <1>4. status'[set.req] = how
    BY <1>2
  <1>5. Range(requestQueue) \subseteq Requests
    BY SequenceFacts DEF Inv, TypeInv, TypeOK
  <1>6. InitInv'
    BY DEF InitInv, resetAndHandleStates, reset
  <1>7. QueueInv'
    <2>1. state' = "INIT" /\ calling' # {} /\ QueueInv
      BY DEF resetAndHandleStates, reset, Inv
    <2>2. \A r \in Range(requestQueue') : status'[r] = "pending"
      BY <1>2, <1>3, <1>5, <2>1 DEF QueueInv
    <2>3. \A r \in Requests : status'[r] = "new" \/ r \in Range(requestQueue') => stored'[r] = {}
      BY <1>2, <1>3, <1>4, <2>1 DEF QueueInv
    <2>4. \A r \in Requests : status'[r] = "pending" => r \in Range(requestQueue')
      BY <1>2, <1>3, <1>4, <2>1 DEF QueueInv
    <2> QED BY <2>1, <2>2, <2>3, <2>4 DEF QueueInv
  <1>8. state' = "INIT"
    BY DEF resetAndHandleStates, reset
  <1> QED BY <1>6, <1>7, <1>8 DEF Inv

\* A step of the request in progress.
LEMMA WorkKeepsInv ==
  ASSUME Inv, state # "INIT", TypeInv',
         UNCHANGED <<state, selection, requestQueue, status, report>>, set'.req = set.req,
         calling' \subseteq {"gui"}, internalQueue' \in {<<>>, <<"set">>, <<"element">>},
         calling' = {} <=> internalQueue' = <<>>, Once(outstanding'), Once(transfers'),
         \A r \in Requests : r # set.req => stored'[r] = stored[r],
         FetchInv' \/ WorkInv'
  PROVE  Inv'
  <1>1. CurrentInv
    BY Busy
  <1>2. CurrentInv'
    BY <1>1 DEF CurrentInv
  <1>3. InitInv'
    BY DEF InitInv
  <1>4. QueueInv'
    <2>1. QueueInv /\ Range(requestQueue) \subseteq Requests
      BY SequenceFacts DEF Inv, TypeInv, TypeOK
    <2>2. \A r \in Requests : status'[r] = "new" \/ r \in Range(requestQueue') => r # set.req
      BY <1>1 DEF CurrentInv
    <2> QED BY <2>1, <2>2 DEF QueueInv
  <1>5. ReportsAreWhole'
    <2>1. \A r \in Requests : status'[r] = "done" => status[r] = "done" /\ stored'[r] = stored[r]
      BY <1>1 DEF CurrentInv
    <2> QED BY <2>1, ReportsStay DEF Inv
  <1> QED BY <1>2, <1>3, <1>4, <1>5 DEF Inv
-----------------------------------------------------------------------------
(* Requests and the handler thread *)

LEMMA RequestKeepsInv ==
  ASSUME Inv, TypeInv', NEW r \in Requests, request(r)
  PROVE  Inv'
  <1> USE DEF request, queues, current, sdk, history
  <1>1. requestQueue \in Seq(Requests) /\ Range(requestQueue) \subseteq Requests /\ QueueInv /\ triggers \in Nat
        /\ status \in [Requests -> {"new", "pending", "done", "failed"}]
    BY SequenceFacts DEF Inv, TypeInv, TypeOK
  <1>2. r \notin Range(requestQueue)
    BY <1>1 DEF QueueInv
  <1>3. Range(requestQueue') = Range(requestQueue) \cup {r} /\ IsInjective(requestQueue')
    BY <1>1, <1>2, AppendFacts DEF QueueInv
  <1>4. status'[r] = "pending" /\ \A q \in Requests : q # r => status'[q] = status[q]
    BY <1>1
  <1>5. QueueInv'
    <2>1. \A q \in Range(requestQueue') : status'[q] = "pending"
      BY <1>1, <1>3, <1>4 DEF QueueInv
    <2>2. \A q \in Requests : status'[q] = "new" \/ q \in Range(requestQueue') => stored'[q] = {}
      BY <1>1, <1>3, <1>4 DEF QueueInv
    <2>3. \A q \in Requests : status'[q] = "pending" =>
            q \in Range(requestQueue') \/ (state' # "INIT" /\ set'.req = q)
      BY <1>1, <1>3, <1>4 DEF QueueInv
    <2>4. triggers' > 0
      BY <1>1
    <2> QED BY <1>3, <2>1, <2>2, <2>3, <2>4 DEF QueueInv
  <1>6. InitInv'
    BY DEF InitInv, Inv
  <1>7. ReportsAreWhole'
    BY <1>4, ReportsStay DEF Inv
  <1>8. ASSUME state' # "INIT" PROVE CurrentInv' /\ (FetchInv' \/ WorkInv')
    <2>1. CurrentInv /\ (FetchInv \/ WorkInv)
      BY <1>8, Busy
    <2>2. set.req # r
      BY <2>1 DEF CurrentInv
    <2>3. CurrentInv'
      BY <1>3, <1>4, <2>1, <2>2 DEF CurrentInv
    <2>4. FetchInv => FetchInv'
      BY DEF FetchInv, TakenSet
    <2>5. WorkInv => WorkInv'
      BY DEF WorkInv, NodesInv, DownloadInv, ImportInv, AskedFor, Asked, Moving
    <2> QED BY <2>1, <2>3, <2>4, <2>5
  <1> QED BY <1>5, <1>6, <1>7, <1>8 DEF Inv

LEMMA TriggerKeepsInv ==
  ASSUME Undisturbed, Inv, TypeInv', handleTriggerAction
  PROVE  Inv'
  <1> USE DEF handleTriggerAction, current, sdk, history
  <1>1. state = "INIT" => calling' # {}
    OBVIOUS
  <1>2. QueueInv'
    BY <1>1 DEF QueueInv, Inv
  <1>3. InitInv'
    BY DEF InitInv, Inv
  <1>4. ReportsAreWhole'
    BY ReportsStay DEF Inv
  <1>5. ASSUME state' # "INIT" PROVE CurrentInv' /\ (FetchInv' \/ WorkInv')
    <2>1. CurrentInv /\ (FetchInv \/ WorkInv)
      BY <1>5, Busy
    <2>2. CurrentInv'
      BY <1>5, <2>1 DEF CurrentInv
    <2>3. FetchInv => FetchInv'
      BY DEF FetchInv, TakenSet
    <2>4. WorkInv => WorkInv'
      BY DEF WorkInv, NodesInv, DownloadInv, ImportInv, AskedFor, Asked, Moving
    <2> QED BY <2>1, <2>2, <2>3, <2>4
  <1> QED BY <1>2, <1>3, <1>4, <1>5 DEF Inv

LEMMA StutterKeepsInv ==
  ASSUME Inv, UNCHANGED vars
  PROVE  Inv'
  <1> USE DEF vars, queues, current, sdk, history
  <1>1. TypeInv'
    BY DEF Inv, TypeInv, TypeOK, SomeRequest
  <1>2. InitInv' /\ QueueInv'
    BY DEF Inv, InitInv, QueueInv
  <1>3. ReportsAreWhole'
    BY ReportsStay DEF Inv
  <1>4. CurrentInv => CurrentInv'
    BY DEF CurrentInv
  <1>5. FetchInv => FetchInv'
    BY DEF FetchInv
  <1>6. WorkInv => WorkInv'
    BY DEF WorkInv, NodesInv, DownloadInv, ImportInv, AskedFor, Asked, Moving
  <1> QED BY <1>1, <1>2, <1>3, <1>4, <1>5, <1>6 DEF Inv
-----------------------------------------------------------------------------
(* handleStates *)

LEMMA NothingKeepsInv ==
  ASSUME Undisturbed, Inv, TypeInv', NEW t \in Threads, nothingToHandle(t)
  PROVE  Inv'
  <1> USE DEF nothingToHandle, queues, current, sdk, history
  <1>1. state = "INIT"
    <2> SUFFICES ASSUME state # "INIT" PROVE FALSE
      OBVIOUS
    <2>1. internalQueue = <<>>
      OBVIOUS
    <2> QED BY <2>1, Busy DEF CurrentInv
  <1>2. requestQueue = <<>> /\ state' = "INIT" /\ requestQueue' = <<>>
    BY <1>1
  <1>3. InitInv'
    BY <1>1 DEF InitInv, Inv
  <1>4. QueueInv'
    BY <1>1, <1>2 DEF QueueInv, Inv
  <1>5. ReportsAreWhole'
    BY ReportsStay DEF Inv
  <1> QED BY <1>2, <1>3, <1>4, <1>5 DEF Inv

LEMMA InitStateKeepsInv ==
  ASSUME Undisturbed, Inv, TypeInv', NEW t \in Threads, handleStateInit(t)
  PROVE  Inv'
  <1> USE DEF handleStateInit, sdk, history
  <1> DEFINE r == Head(requestQueue)
  <1>1. state = "INIT" /\ calling = {t} /\ InitInv /\ QueueInv /\ requestQueue # <<>> /\ requestQueue \in Seq(Requests)
    BY OneCalls DEF Calls, Inv, TypeInv, TypeOK
  <1>2. r \in Requests /\ Range(requestQueue) = {r} \cup Range(Tail(requestQueue)) /\ r \notin Range(Tail(requestQueue))
        /\ IsInjective(Tail(requestQueue)) /\ Range(requestQueue) \subseteq Requests
    BY <1>1, TailTypes, TailFacts, SequenceFacts DEF QueueInv
  <1>3. requestQueue' = Tail(requestQueue) /\ calling' = {} /\ UNCHANGED <<triggers, internalQueue, imported, downloaded, transfers, preview, stored, status, report>>
    BY <1>1 DEF Returns
  <1>4. ~(Given(r) /\ Wanted(r) = {})
    BY <1>2 DEF Undisturbed
  <1>5. state' = WaitsFor(r) /\ outstanding' = outstanding (+) SetToBag({Ask("fetch", r)})
    BY <1>4 DEF Given
  <1>6. set' = TakenSet(r) /\ set'.req = r
    BY DEF TakenSet, Given, filterSet, NoSet
  <1>7. selection' = IF Kind[r] = "fetch" THEN {} ELSE Selected[r]
    BY <1>1 DEF InitInv
  <1>8. Once(outstanding') /\ DOMAIN outstanding' = {Ask("fetch", r)}
    <2>1. outstanding = EmptyBag
      BY <1>1 DEF InitInv
    <2>2. Once(SetToBag({Ask("fetch", r)})) /\ DOMAIN SetToBag({Ask("fetch", r)}) = {Ask("fetch", r)}
      BY SetToBagFacts
    <2> QED BY <1>5, <2>1, <2>2, OnlyThese
  <1>9. state' # "INIT" /\ state' \in Waiting
    BY <1>2, <1>5, Facts DEF Waiting
  <1> HIDE DEF r
  <1>10. FetchInv'
    <2>1. stored[r] = {}
      BY <1>1, <1>2 DEF QueueInv
    <2>2. set' = TakenSet(set'.req)
      BY <1>6
    <2>3. transfers' = EmptyBag /\ downloaded' = 0 /\ imported' = NoImport /\ internalQueue' = <<>>
      BY <1>1, <1>3 DEF InitInv
    <2> QED BY <1>3, <1>6, <1>8, <2>1, <2>2, <2>3 DEF FetchInv
  <1>11. CurrentInv'
    <2>1. status[r] = "pending"
      BY <1>1, <1>2 DEF QueueInv
    <2>2. Once(transfers') /\ internalQueue' = <<>>
      BY <1>1, <1>3, EmptyBagFacts DEF InitInv
    <2> QED BY <1>2, <1>3, <1>5, <1>6, <1>7, <1>8, <2>1, <2>2 DEF CurrentInv
  <1>12. QueueInv'
    <2>1. \A q \in Requests : status'[q] = "pending" => q \in Range(requestQueue') \/ set'.req = q
      BY <1>1, <1>2, <1>3, <1>6 DEF QueueInv
    <2>2. IsInjective(requestQueue') /\ \A q \in Range(requestQueue') : status'[q] = "pending"
      BY <1>1, <1>2, <1>3 DEF QueueInv
    <2>3. \A q \in Requests : status'[q] = "new" \/ q \in Range(requestQueue') => stored'[q] = {}
      BY <1>1, <1>2, <1>3 DEF QueueInv
    <2> QED BY <1>9, <2>1, <2>2, <2>3 DEF QueueInv
  <1>13. InitInv'
    BY <1>9 DEF InitInv
  <1>14. ReportsAreWhole'
    BY <1>3, ReportsStay DEF Inv
  <1> QED BY <1>10, <1>11, <1>12, <1>13, <1>14 DEF Inv

LEMMA PreviewKeepsInv ==
  ASSUME Undisturbed, Inv, TypeInv', NEW t \in Threads, getPreview(t)
  PROVE  Inv'
  <1> USE DEF queues, current, sdk, history
  <1> DEFINE r == set.req
             H == set.handles \cup InPreview
  <1>1. /\ t \in calling /\ Alone(t) /\ state \in {"GET_DATA", "DOWNLOAD_FROM_LINK"} /\ internalQueue # <<>>
        /\ Head(internalQueue) = "set" /\ internalQueue' = Tail(internalQueue)
        /\ UNCHANGED <<requestQueue, triggers, downloaded, transfers, preview, stored, report>>
    BY DEF getPreview, Handles, Pops, Calls
  <1>2. calling = {t} /\ t = "gui" /\ internalQueue = <<"set">> /\ internalQueue' = <<>> /\ calling \ {t} = {}
    BY <1>1, BusyCall
  <1>3. CurrentInv /\ FetchInv /\ r \in Requests /\ r # None
    BY <1>1, <1>2, Busy, Facts DEF WorkInv, CurrentInv
  <1>4. preview = r /\ outstanding = EmptyBag /\ transfers = EmptyBag /\ stored[r] = {} /\ downloaded = 0 /\ imported = NoImport
    BY <1>2, <1>3 DEF FetchInv
  <1>5. Kind[r] = (IF state = "GET_DATA" THEN "fetch" ELSE "downloadLink")
    BY <1>1, <1>3, Facts DEF CurrentInv, WaitsFor, Kinds
  <1>6. set = [NoSet EXCEPT !.req = r]
    BY <1>1, <1>3, <1>5 DEF FetchInv, TakenSet, Given
  <1>7. H = (IF state = "GET_DATA" THEN Public[r] ELSE Wanted(r)) /\ H \subseteq Elements /\ IsFiniteSet(H)
    <2>1. set.handles = {}
      BY <1>6 DEF NoSet
    <2>2. InPreview = (IF state = "GET_DATA" THEN Public[r] ELSE Wanted(r))
      BY <1>1, <1>3, <1>4, <1>5 DEF InPreview, Wanted, CurrentInv
    <2> QED BY <1>3, <2>1, <2>2, Facts
  <1>8. CASE preview = None \/ H = {}
    <2>1. resetAndHandleStates(t) /\ End("failed") /\ outstanding' = outstanding
      BY <1>8 DEF getPreview
    <2>2. status \in [Requests -> {"new", "pending", "done", "failed"}]
      BY DEF Inv, TypeInv, TypeOK
    <2>3. ReportsAreWhole'
      BY <1>1, <1>3, <2>1, <2>2, ReportsStay DEF End, Inv
    <2> QED BY <1>1, <1>2, <1>4, <2>1, <2>3, EndKeepsInv
  <1>9. CASE ~(preview = None \/ H = {})
    <2>1. /\ set' = [set EXCEPT !.named = TRUE, !.handles = H]
          /\ outstanding' = outstanding (+) SetToBag({Ask("element", e) : e \in H})
          /\ Returns(t) /\ UNCHANGED <<state, selection, imported, status>>
      BY <1>9 DEF getPreview
    <2>2. calling' = {}
      BY <1>2, <2>1 DEF Returns
    <2> HIDE DEF H
    <2>3. set' = [req |-> r, named |-> TRUE, handles |-> H, nodes |-> <<>>]
      BY <1>6, <2>1 DEF NoSet
    <2>4. Once(outstanding') /\ DOMAIN outstanding' = {Ask("element", e) : e \in H}
      <3>1. Once(SetToBag({Ask("element", e) : e \in H})) /\ DOMAIN SetToBag({Ask("element", e) : e \in H}) = {Ask("element", e) : e \in H}
        BY SetToBagFacts
      <3> QED BY <1>4, <2>1, <3>1, OnlyThese
    <2>5. IsInjective(set'.nodes) /\ Range(set'.nodes) = {}
      BY <2>3 DEF IsInjective, Range
    <2>6. H # {} /\ set'.req = r /\ set'.handles = H /\ set'.named
      BY <1>9, <2>3 DEF H
    <2>7. CASE state = "GET_DATA"
      <3>1. H = Public[r]
        BY <1>7, <2>7
      <3>2. {Ask("element", e) : e \in set'.handles \ Range(set'.nodes)} = {Ask("element", e) : e \in H}
        BY <2>5, <2>6
      <3>3. NodesInv'
        BY <1>1, <1>4, <2>1, <2>4, <2>5, <2>6, <2>7, <3>1, <3>2 DEF NodesInv, AskedFor
      <3>4. WorkInv'
        BY <1>2, <2>6, <3>3 DEF WorkInv
      <3> QED BY <1>1, <1>2, <1>4, <2>1, <2>2, <2>4, <2>6, <3>4, EmptyBagFacts, WorkKeepsInv
    <2>8. CASE state = "DOWNLOAD_FROM_LINK"
      <3>1. H = Wanted(r)
        BY <1>7, <2>8
      <3>2. Asked' = H
        BY <1>7, <2>4 DEF Asked, Ask
      <3>3. Moving' = {} /\ DOMAIN transfers' = {}
        BY <1>1, <1>4, EmptyBagFacts DEF Moving
      <3>4. Cardinality(H) \in Nat /\ Cardinality(H) # 0 /\ Cardinality({}) = 0
        BY <1>7, <2>6, FS_EmptySet, FS_CardinalityType
      <3>5. downloaded' = Cardinality(stored'[r]) /\ downloaded' < Cardinality(H) /\ stored'[r] = {}
        BY <1>1, <1>4, <3>4
      <3>6. DownloadInv'
        <4>1. set'.nodes = <<>> /\ set'.req = r /\ set'.handles = H
          BY <2>3
        <4>2. imported' = NoImport /\ state' = "DOWNLOAD_FROM_LINK" /\ stored'[set'.req] = {}
          BY <1>4, <2>1, <2>8, <3>5, <4>1
        <4>3. AskedFor("element", Asked)'
          BY <2>4, <3>2 DEF AskedFor
        <4>4. DOMAIN transfers' = {[req |-> set'.req, node |-> e] : e \in Moving'}
          BY <3>3
        <4> QED BY <2>5, <3>1, <3>2, <3>3, <3>5, <4>1, <4>2, <4>3, <4>4 DEF DownloadInv
      <3>7. WorkInv'
        BY <1>2, <2>6, <3>6 DEF WorkInv
      <3> QED BY <1>1, <1>2, <1>4, <2>1, <2>2, <2>4, <2>6, <3>7, EmptyBagFacts, WorkKeepsInv
    <2> QED BY <1>1, <2>7, <2>8
  <1> QED BY <1>8, <1>9

LEMMA ElementKeepsInv ==
  ASSUME Undisturbed, Inv, TypeInv', NEW t \in Threads, elementFetched(t)
  PROVE  Inv'
  <1> USE DEF queues, current, sdk, history
  <1> DEFINE r == set.req
  <1>1. /\ t \in calling /\ Alone(t) /\ state = "GET_DATA" /\ internalQueue # <<>>
        /\ Head(internalQueue) = "element" /\ internalQueue' = Tail(internalQueue)
        /\ UNCHANGED <<requestQueue, triggers, downloaded, outstanding, transfers, stored>>
    BY DEF elementFetched, Handles, Pops, Calls
  <1>2. calling = {t} /\ t = "gui" /\ internalQueue = <<"element">> /\ internalQueue' = <<>> /\ calling \ {t} = {}
    BY <1>1, BusyCall
  <1>3. CurrentInv /\ r \in Requests /\ r # None /\ set.named /\ set.handles # {} /\ NodesInv
    BY <1>1, <1>2, Busy, Facts DEF FetchInv, WorkInv, CurrentInv, DownloadInv, ImportInv
  <1>4. Kind[r] = "fetch" /\ set.handles = Public[r] /\ IsFiniteSet(set.handles) /\ Range(set.nodes) \subseteq set.handles
    BY <1>1, <1>3, Facts DEF CurrentInv, WaitsFor, Kinds, NodesInv
  <1>5. Cardinality(Range(set.nodes)) = Len(set.nodes)
    BY <1>3, Types, SequenceFacts DEF NodesInv, Sets, Inv
  <1>6. isComplete(set) <=> Range(set.nodes) = set.handles
    BY <1>3, <1>4, <1>5, FS_Subset DEF isComplete
  <1>7. CASE isComplete(set)
    <2>1. /\ report' = [NoReport EXCEPT !.req = r, !.nodes = set.nodes]
          /\ End("done") /\ resetAndHandleStates(t)
      BY <1>7 DEF elementFetched
    <2>2. outstanding = EmptyBag
      <3>1. DOMAIN outstanding = {}
        BY <1>3, <1>6, <1>7 DEF NodesInv, AskedFor
      <3> QED BY <3>1, Types, EmptyBagFacts DEF Inv
    <2>3. report'.req = r /\ report'.nodes = set.nodes
      BY <2>1 DEF NoReport
    <2>4. ReportsAreWhole'
      <3>1. FetchedSetIsItsOwn' /\ ImportReportIsWhole'
        BY <1>4, <1>5, <1>6, <1>7, <2>3 DEF FetchedSetIsItsOwn, ImportReportIsWhole
      <3>2. status' = [status EXCEPT ![r] = "done"] /\ status \in [Requests -> {"new", "pending", "done", "failed"}]
        BY <1>3, <2>1 DEF End, Inv, TypeInv, TypeOK
      <3>3. \A q \in Requests : q # r => status'[q] = status[q]
        BY <3>2
      <3>4. DownloadIsWhole'
        BY <1>1, <1>4, <3>3 DEF DownloadIsWhole, Inv, ReportsAreWhole
      <3> QED BY <3>1, <3>4 DEF ReportsAreWhole
    <2> QED BY <1>1, <1>2, <1>3, <2>1, <2>2, <2>4, EndKeepsInv DEF NodesInv
  <1>8. CASE ~isComplete(set)
    <2>1. Returns(t) /\ UNCHANGED <<state, set, selection, imported, preview, status, report>>
      BY <1>8 DEF elementFetched
    <2>2. calling' = {}
      BY <1>2, <2>1 DEF Returns
    <2>3. Range(set.nodes) # set.handles
      BY <1>6, <1>8
    <2>4. NodesInv'
      BY <1>1, <1>3, <2>1, <2>3 DEF NodesInv, AskedFor
    <2>5. WorkInv'
      BY <1>2, <1>3, <2>1, <2>4 DEF WorkInv
    <2> QED BY <1>1, <1>2, <1>3, <2>1, <2>2, <2>5, WorkKeepsInv DEF CurrentInv
  <1> QED BY <1>7, <1>8

\* The downloads that start are of the nodes that are there, for the request in progress.
LEMMA StartFacts ==
  ASSUME set.req \in Requests, set.nodes \in Seq(Elements), IsInjective(set.nodes), Once(transfers),
         \A e \in Range(set.nodes) : [req |-> set.req, node |-> e] \notin DOMAIN transfers, startDownload
  PROVE  /\ Once(transfers')
         /\ DOMAIN transfers' = DOMAIN transfers \cup {[req |-> set.req, node |-> e] : e \in Range(set.nodes)}
         /\ set' = [set EXCEPT !.nodes = <<>>]
  <1> DEFINE d == [i \in DOMAIN set.nodes |-> [req |-> set.req, node |-> set.nodes[i]]]
             n == Len(set.nodes)
             D == [req : {set.req}, node : Elements]
  <1>1. n \in Nat /\ DOMAIN set.nodes = 1..n /\ \A i \in 1..n : set.nodes[i] \in Elements
    BY SequenceFacts
  <1>2. d \in [1..n -> D] /\ \A i \in 1..n : d[i] = [req |-> set.req, node |-> set.nodes[i]]
    BY <1>1
  <1>3. transfers' = transfers (+) BagOf(d) /\ set' = [set EXCEPT !.nodes = <<>>]
    BY DEF startDownload
  <1> HIDE DEF d, n, D
  <1>4. d \in Seq(D) /\ DOMAIN d = 1..n
    BY <1>1, <1>2
  <1>5. IsInjective(d)
    <2> SUFFICES ASSUME NEW i \in 1..n, NEW j \in 1..n, d[i] = d[j] PROVE i = j
      BY <1>4 DEF IsInjective
    <2>1. d[i].node = set.nodes[i] /\ d[j].node = set.nodes[j]
      BY <1>2
    <2>2. set.nodes[i] = set.nodes[j]
      BY <2>1
    <2> QED BY <1>1, <2>2 DEF IsInjective
  <1>6. Range(d) = {[req |-> set.req, node |-> e] : e \in Range(set.nodes)}
    BY <1>1, <1>2, <1>4 DEF Range
  <1>7. Once(BagOf(d)) /\ DOMAIN BagOf(d) = Range(d)
    BY <1>4, <1>5, BagOfFacts
  <1>8. DOMAIN transfers \cap DOMAIN BagOf(d) = {}
    BY <1>6, <1>7
  <1>9. IsABag(transfers) /\ IsABag(BagOf(d))
    BY <1>7 DEF Once
  <1>10. Once(transfers (+) BagOf(d)) /\ DOMAIN (transfers (+) BagOf(d)) = DOMAIN transfers \cup DOMAIN BagOf(d)
    BY <1>7, <1>8, <1>9, BagUnionFacts
  <1> QED BY <1>3, <1>6, <1>7, <1>10

LEMMA LinkDownloadKeepsInv ==
  ASSUME Undisturbed, Inv, TypeInv', NEW t \in Threads, elementToDownload(t)
  PROVE  Inv'
  <1> USE DEF queues, current, sdk, history
  <1> DEFINE r == set.req
             Nodes == Range(set.nodes)
  <1>1. /\ t \in calling /\ Alone(t) /\ state = "DOWNLOAD_FROM_LINK" /\ internalQueue # <<>>
        /\ Head(internalQueue) = "element" /\ internalQueue' = Tail(internalQueue)
        /\ UNCHANGED <<requestQueue, triggers, downloaded, state, selection, imported, outstanding, preview, stored, status, report>>
        /\ Returns(t)
    BY DEF elementToDownload, Handles, Pops, Calls
  <1>2. calling = {t} /\ t = "gui" /\ internalQueue = <<"element">> /\ internalQueue' = <<>> /\ calling' = {}
    BY <1>1, BusyCall DEF Returns
  <1>3. CurrentInv /\ r \in Requests /\ set.named /\ set.handles # {} /\ DownloadInv /\ Once(transfers) /\ Once(outstanding)
    BY <1>1, <1>2, Busy DEF FetchInv, WorkInv, CurrentInv, NodesInv, ImportInv
  <1>4. set \in Sets /\ set.nodes \in Seq(Elements) /\ Nodes \subseteq Elements
    BY Types, SequenceFacts DEF Sets, Inv
  <1>5. \A e \in Nodes : [req |-> r, node |-> e] \notin DOMAIN transfers
    BY <1>3, <1>4 DEF DownloadInv, Moving
  <1>6. set' = [set EXCEPT !.nodes = <<>>] /\ Once(transfers')
        /\ \/ DOMAIN transfers' = DOMAIN transfers \cup {[req |-> r, node |-> e] : e \in Nodes}
           \/ transfers' = transfers /\ "directory" \in Failures
    <2>1. CASE startDownload
      BY <1>3, <1>4, <1>5, <2>1, StartFacts DEF DownloadInv
    <2>2. CASE ~startDownload
      <3>1. set' = [set EXCEPT !.nodes = <<>>] /\ transfers' = transfers /\ FALSE \in Results("directory")
        <4>1. PICK created \in Results("directory") :
                IF created THEN startDownload ELSE set' = [set EXCEPT !.nodes = <<>>] /\ transfers' = transfers
          BY DEF elementToDownload
        <4>2. created \in BOOLEAN
          BY DEF Results
        <4> QED BY <2>2, <4>1, <4>2
      <3> QED BY <1>3, <3>1 DEF Results
    <2> QED BY <2>1, <2>2
  <1>7. set'.req = r /\ set'.named = set.named /\ set'.handles = set.handles /\ set'.nodes = <<>>
    BY <1>4, <1>6 DEF Sets
  <1>8. IsInjective(set'.nodes) /\ Range(set'.nodes) = {}
    BY <1>7 DEF IsInjective, Range
  <1>9. Asked' = Asked
    BY <1>1 DEF Asked
  <1>10. /\ Moving \subseteq Moving' /\ Moving' \subseteq Moving \cup Nodes
         /\ "directory" \notin Failures => Moving' = Moving \cup Nodes
         /\ DOMAIN transfers' = {[req |-> r, node |-> e] : e \in Moving'}
    <2>1. CASE DOMAIN transfers' = DOMAIN transfers \cup {[req |-> r, node |-> e] : e \in Nodes}
      <3>1. \A e \in Elements : [req |-> r, node |-> e] \in DOMAIN transfers' <=> e \in Moving \cup Nodes
        <4> TAKE e \in Elements
        <4>1. \A q \in Nodes : [req |-> r, node |-> e] = [req |-> r, node |-> q] => e = q
          OBVIOUS
        <4> QED BY <2>1, <4>1 DEF Moving
      <3>2. Moving' = Moving \cup Nodes
        BY <1>4, <1>7, <3>1 DEF Moving
      <3>3. DOMAIN transfers = {[req |-> r, node |-> e] : e \in Moving}
        BY <1>3 DEF DownloadInv
      <3> QED BY <2>1, <3>2, <3>3
    <2>2. CASE transfers' = transfers /\ "directory" \in Failures
      <3>1. Moving' = Moving
        BY <1>7, <2>2 DEF Moving
      <3> QED BY <1>3, <2>2, <3>1 DEF DownloadInv
    <2> QED BY <1>6, <2>1, <2>2
  <1>11. DownloadInv'
    <2>1. AskedFor("element", Asked)'
      BY <1>1, <1>3, <1>9 DEF DownloadInv, AskedFor
    <2>2. Asked \cap Moving' = {} /\ Moving' \cap stored[r] = {}
      BY <1>3, <1>10 DEF DownloadInv
    <2>3. Asked \cup Moving' \cup stored[r] \subseteq set.handles
      BY <1>3, <1>10 DEF DownloadInv
    <2>4. "directory" \notin Failures => set.handles \subseteq Asked \cup Moving' \cup stored[r]
      BY <1>3, <1>10 DEF DownloadInv
    <2> HIDE DEF Nodes
    <2> QED BY <1>1, <1>3, <1>7, <1>8, <1>9, <1>10, <2>1, <2>2, <2>3, <2>4 DEF DownloadInv
  <1>12. WorkInv'
    BY <1>2, <1>3, <1>7, <1>11 DEF WorkInv
  <1> QED BY <1>1, <1>2, <1>3, <1>6, <1>7, <1>12, WorkKeepsInv

LEMMA CollectionKeepsInv ==
  ASSUME Undisturbed, Inv, TypeInv', NEW t \in Threads, downloadCollection(t)
  PROVE  Inv'
  <1> USE DEF queues, current, sdk, history
  <1> DEFINE r == set.req
             Nodes == Range(set.nodes)
  <1>1. /\ t \in calling /\ Alone(t) /\ state = "DOWNLOAD_COLLECTION" /\ internalQueue # <<>>
        /\ internalQueue' = Tail(internalQueue)
        /\ UNCHANGED <<requestQueue, triggers, downloaded, outstanding, preview, stored, report>>
    BY DEF downloadCollection, Pops, Calls
  <1>2. calling = {t} /\ t = "gui" /\ internalQueue' = <<>> /\ calling \ {t} = {}
    BY <1>1, BusyCall
  <1>3. CurrentInv /\ r \in Requests /\ FetchInv
    BY <1>1, Busy DEF WorkInv, NodesInv, DownloadInv, ImportInv, CurrentInv
  <1>4. internalQueue = <<"set">> /\ outstanding = EmptyBag /\ transfers = EmptyBag /\ stored[r] = {} /\ downloaded = 0
        /\ imported = NoImport
    BY <1>1, <1>3 DEF FetchInv
  <1>5. Given(r) /\ set = filterSet(r) /\ Wanted(r) # {} /\ Wanted(r) \subseteq Elements /\ IsFiniteSet(Wanted(r))
    <2>1. Kind[r] = "download"
      BY <1>1, <1>3, Facts DEF CurrentInv, WaitsFor, Kinds
    <2> QED BY <1>3, <2>1, Facts DEF FetchInv, TakenSet, Given, Undisturbed
  <1>6. set.named /\ set.handles = Wanted(r) /\ set.nodes = SetToSeq(Wanted(r))
    BY <1>5 DEF filterSet
  <1>7. set.nodes \in Seq(Elements) /\ Nodes = Wanted(r) /\ IsInjective(set.nodes)
    BY <1>5, <1>6, Types, SetToSeqFacts DEF Inv, Sets
  <1>8. CASE resetAndHandleStates(t) /\ End("failed") /\ UNCHANGED transfers
    <2>1. status \in [Requests -> {"new", "pending", "done", "failed"}]
      BY DEF Inv, TypeInv, TypeOK
    <2>2. ReportsAreWhole'
      BY <1>1, <1>3, <1>8, <2>1, ReportsStay DEF End, Inv
    <2> QED BY <1>1, <1>2, <1>4, <1>8, <2>2, EndKeepsInv
  <1>9. CASE startDownload /\ Returns(t) /\ UNCHANGED <<state, selection, imported, status>>
    <2>1. Once(transfers) /\ DOMAIN transfers = {}
      BY <1>4, EmptyBagFacts
    <2>2. /\ Once(transfers') /\ DOMAIN transfers' = {[req |-> r, node |-> e] : e \in Nodes}
          /\ set' = [set EXCEPT !.nodes = <<>>]
      BY <1>3, <1>7, <1>9, <2>1, StartFacts
    <2>3. set'.req = r /\ set'.named /\ set'.handles = Wanted(r) /\ set'.nodes = <<>>
      BY <1>6, <2>2, Types DEF Sets, Inv
    <2>4. calling' = {}
      BY <1>2, <1>9 DEF Returns
    <2>5. IsInjective(set'.nodes) /\ Range(set'.nodes) = {}
      BY <2>3 DEF IsInjective, Range
    <2>6. outstanding' = EmptyBag /\ Once(outstanding') /\ DOMAIN outstanding' = {} /\ Asked' = {}
      BY <1>1, <1>4, EmptyBagFacts DEF Asked
    <2>7. Moving' = Wanted(r)
      <3>1. \A e \in Elements : [req |-> r, node |-> e] \in DOMAIN transfers' <=> e \in Wanted(r)
        <4> TAKE e \in Elements
        <4>1. \A q \in Nodes : [req |-> r, node |-> e] = [req |-> r, node |-> q] => e = q
          OBVIOUS
        <4> QED BY <1>7, <2>2, <4>1
      <3> QED BY <1>5, <2>3, <3>1 DEF Moving
    <2>8. Cardinality(Wanted(r)) \in Nat /\ Cardinality(Wanted(r)) # 0 /\ Cardinality({}) = 0
      BY <1>5, FS_EmptySet, FS_CardinalityType
    <2>9. DownloadInv'
      <3>1. AskedFor("element", Asked)'
        BY <2>6 DEF AskedFor
      <3>2. DOMAIN transfers' = {[req |-> set'.req, node |-> e] : e \in Moving'}
        BY <1>7, <2>2, <2>3, <2>7
      <3>3. downloaded' = Cardinality(stored'[set'.req]) /\ downloaded' < Cardinality(set'.handles) /\ stored'[set'.req] = {}
        <4>1. stored' = stored /\ downloaded' = downloaded
          BY <1>1
        <4>2. stored'[set'.req] = {} /\ downloaded' = 0 /\ set'.handles = Wanted(r)
          BY <1>4, <2>3, <4>1
        <4> QED BY <2>8, <4>2
      <3>4. state' = "DOWNLOAD_COLLECTION" /\ imported' = NoImport /\ internalQueue' = <<>>
        BY <1>1, <1>2, <1>4, <1>9
      <3> QED BY <2>3, <2>5, <2>6, <2>7, <3>1, <3>2, <3>3, <3>4 DEF DownloadInv
    <2>10. WorkInv'
      BY <1>2, <1>5, <2>3, <2>9 DEF WorkInv
    <2> QED BY <1>1, <1>2, <1>9, <2>2, <2>3, <2>4, <2>6, <2>10, WorkKeepsInv
  <1> QED BY <1>8, <1>9 DEF downloadCollection

LEMMA FolderKeepsInv ==
  ASSUME Undisturbed, Inv, TypeInv', NEW t \in Threads, createFolder(t)
  PROVE  Inv'
  <1> USE DEF queues, current, sdk, history
  <1> DEFINE r == set.req
  <1>1. /\ t \in calling /\ Alone(t) /\ state = "IMPORT_COLLECTION" /\ internalQueue # <<>>
        /\ internalQueue' = Tail(internalQueue)
        /\ UNCHANGED <<requestQueue, triggers, downloaded, transfers, preview, stored, report>>
    BY DEF createFolder, Pops, Calls
  <1>2. calling = {t} /\ t = "gui" /\ internalQueue' = <<>> /\ calling \ {t} = {}
        /\ (Head(internalQueue) = "set" <=> internalQueue = <<"set">>)
    BY <1>1, BusyCall
  <1>3. CurrentInv /\ r \in Requests /\ FetchInv
    BY <1>1, Busy DEF WorkInv, NodesInv, DownloadInv, ImportInv, CurrentInv
  <1>4. internalQueue = <<"set">> /\ outstanding = EmptyBag /\ transfers = EmptyBag /\ stored[r] = {} /\ downloaded = 0
        /\ imported = NoImport
    BY <1>1, <1>3 DEF FetchInv
  <1>5. Given(r) /\ set = filterSet(r) /\ Wanted(r) # {} /\ Wanted(r) \subseteq Elements /\ IsFiniteSet(Wanted(r))
    <2>1. Kind[r] = "import"
      BY <1>1, <1>3, Facts DEF CurrentInv, WaitsFor, Kinds
    <2> QED BY <1>3, <2>1, Facts DEF FetchInv, TakenSet, Given, Undisturbed
  <1>6. set.named /\ set.handles = Wanted(r) /\ set.nodes = SetToSeq(Wanted(r))
    BY <1>5 DEF filterSet
  <1>7. Range(set.nodes) = Wanted(r) /\ IsInjective(set.nodes)
    BY <1>5, <1>6, SetToSeqFacts
  <1>8. outstanding' = outstanding (+) SetToBag({Ask("folder", r)}) /\ Returns(t)
        /\ UNCHANGED <<state, set, selection, imported, status>>
    BY <1>2, <1>4 DEF createFolder
  <1>9. Once(outstanding') /\ DOMAIN outstanding' = {Ask("folder", r)}
    <2>1. Once(SetToBag({Ask("folder", r)})) /\ DOMAIN SetToBag({Ask("folder", r)}) = {Ask("folder", r)}
      BY SetToBagFacts
    <2> QED BY <1>4, <1>8, <2>1, OnlyThese
  <1>10. calling' = {} /\ Once(transfers')
    BY <1>1, <1>2, <1>4, <1>8, EmptyBagFacts DEF Returns
  <1>11. ImportInv'
    BY <1>1, <1>2, <1>4, <1>6, <1>7, <1>8, <1>9 DEF ImportInv
  <1>12. WorkInv'
    BY <1>2, <1>5, <1>6, <1>8, <1>11 DEF WorkInv
  <1> QED BY <1>1, <1>2, <1>8, <1>9, <1>10, <1>12, WorkKeepsInv
-----------------------------------------------------------------------------
(* Answers and downloads *)

\* An answer is to a request for what is in progress.
LEMMA AnswerFacts ==
  ASSUME Undisturbed, Inv, NEW ask, Answered(ask)
  PROVE  /\ calling = {} /\ internalQueue = <<>> /\ state # "INIT" /\ CurrentInv /\ (FetchInv \/ WorkInv)
         /\ ask \in DOMAIN outstanding /\ UNCHANGED <<requestQueue, triggers>>
         /\ Once(outstanding (-) SetToBag({ask})) /\ DOMAIN (outstanding (-) SetToBag({ask})) = DOMAIN outstanding \ {ask}
  <1>1. ask \in DOMAIN outstanding /\ UNCHANGED <<requestQueue, triggers>>
    BY DEF Answered, BagIn, BagToSet
  <1>2. state # "INIT"
    BY <1>1, EmptyBagFacts DEF Inv, InitInv
  <1>3. CurrentInv /\ (FetchInv \/ WorkInv)
    BY <1>2, Busy
  <1>4. calling = {} /\ internalQueue = <<>>
    BY <1>2, NobodyCalls DEF Answered
  <1>5. IsABag(outstanding) /\ Once(outstanding)
    BY <1>3 DEF CurrentInv, Once
  <1> QED BY <1>1, <1>2, <1>3, <1>4, <1>5, BagDifferenceFacts

LEMMA FailureKeepsInv ==
  ASSUME Undisturbed, Inv, TypeInv', NEW ask, requestFailed(ask)
  PROVE  Inv'
  <1> USE DEF queues, current, sdk, history
  <1>1. /\ Answered(ask) /\ ask.type \in Failures /\ ask.type \notin {"copy", "element"}
        /\ outstanding' = outstanding (-) SetToBag({ask})
        /\ resetAndHandleStates("gui") /\ End("failed")
        /\ UNCHANGED <<internalQueue, downloaded, transfers, preview, stored, report>>
    BY DEF requestFailed, Results, Undisturbed
  <1>2. /\ calling = {} /\ internalQueue = <<>> /\ state # "INIT" /\ CurrentInv /\ (FetchInv \/ WorkInv)
        /\ ask \in DOMAIN outstanding /\ UNCHANGED <<requestQueue, triggers>>
        /\ Once(outstanding') /\ DOMAIN outstanding' = DOMAIN outstanding \ {ask}
    BY <1>1, AnswerFacts
  <1>3. transfers = EmptyBag /\ downloaded = 0 /\ \E a : DOMAIN outstanding = {a}
    <2>1. CASE FetchInv
      BY <1>2, <2>1, EmptyBagFacts DEF FetchInv
    <2>2. CASE NodesInv
      BY <1>1, <1>2, <2>2 DEF NodesInv, AskedFor, Ask
    <2>3. CASE DownloadInv
      BY <1>1, <1>2, <2>3 DEF DownloadInv, AskedFor, Ask
    <2>4. CASE ImportInv
      <3>1. ~AskedFor("copy", set.handles \ Named(imported))
        BY <1>1, <1>2 DEF AskedFor, Ask
      <3> QED BY <2>4, <3>1 DEF ImportInv
    <2> QED BY <1>2, <2>1, <2>2, <2>3, <2>4 DEF WorkInv
  <1>4. outstanding' = EmptyBag
    <2>1. DOMAIN outstanding' = {}
      BY <1>2, <1>3
    <2> QED BY <1>2, <2>1, EmptyBagFacts DEF Once
  <1>5. ReportsAreWhole'
    <2>1. status \in [Requests -> {"new", "pending", "done", "failed"}] /\ set.req \in Requests
      BY <1>2 DEF Inv, TypeInv, TypeOK, CurrentInv
    <2> QED BY <1>1, <2>1, ReportsStay DEF End, Inv
  <1>6. "gui" \in Threads
    BY DEF Threads
  <1> QED BY <1>1, <1>2, <1>3, <1>4, <1>5, <1>6, EndKeepsInv

LEMMA FetchedKeepsInv ==
  ASSUME Undisturbed, Inv, TypeInv', NEW r \in Requests, handleFetchPublicSetResponse(r)
  PROVE  Inv'
  <1> USE DEF queues, current, sdk, history
  <1>1. /\ Answered(Ask("fetch", r)) /\ outstanding' = outstanding (-) SetToBag({Ask("fetch", r)})
        /\ preview' = r /\ internalQueue' = Append(internalQueue, "set") /\ calling' = calling \cup {"gui"}
        /\ UNCHANGED <<state, set, selection, imported, downloaded, transfers, stored, status, report>>
    BY DEF handleFetchPublicSetResponse
  <1>2. /\ calling = {} /\ internalQueue = <<>> /\ state # "INIT" /\ CurrentInv /\ (FetchInv \/ WorkInv)
        /\ Ask("fetch", r) \in DOMAIN outstanding /\ UNCHANGED <<requestQueue, triggers>>
        /\ Once(outstanding') /\ DOMAIN outstanding' = DOMAIN outstanding \ {Ask("fetch", r)}
    BY <1>1, AnswerFacts
  <1>3. FetchInv /\ r = set.req /\ DOMAIN outstanding = {Ask("fetch", r)}
    <2>1. ~AskedFor("element", set.handles \ Range(set.nodes)) /\ ~AskedFor("element", Asked)
          /\ ~AskedFor("copy", set.handles \ Named(imported)) /\ Ask("fetch", r) # Ask("folder", set.req)
      BY <1>2 DEF AskedFor, Ask
    <2>2. FetchInv
      BY <1>2, <2>1 DEF WorkInv, NodesInv, DownloadInv, ImportInv
    <2>3. DOMAIN outstanding = {Ask("fetch", set.req)}
      BY <1>2, <2>2 DEF FetchInv
    <2> QED BY <1>2, <2>2, <2>3 DEF Ask
  <1>4. outstanding' = EmptyBag
    <2>1. DOMAIN outstanding' = {}
      BY <1>2, <1>3
    <2> QED BY <1>2, <2>1, EmptyBagFacts DEF Once
  <1>5. internalQueue' = <<"set">> /\ calling' = {"gui"}
    BY <1>1, <1>2
  <1>6. FetchInv'
    BY <1>1, <1>3, <1>4, <1>5 DEF FetchInv
  <1>7. Once(transfers')
    BY <1>1, <1>2 DEF CurrentInv
  <1> QED BY <1>1, <1>2, <1>5, <1>6, <1>7, WorkKeepsInv

LEMMA NodeKeepsInv ==
  ASSUME Undisturbed, Inv, TypeInv', NEW e \in Elements, handleGetPreviewElementNodeResponse(e)
  PROVE  Inv'
  <1> USE DEF queues, current, sdk, history
  <1> DEFINE ask == Ask("element", e)
             r == set.req
  <1>1. /\ Answered(ask) /\ outstanding' = outstanding (-) SetToBag({ask})
        /\ set' = [set EXCEPT !.nodes = Append(@, e)]
        /\ internalQueue' = Append(internalQueue, "element") /\ calling' = calling \cup {"gui"}
        /\ UNCHANGED <<state, selection, imported, downloaded, transfers, preview, stored, status, report>>
    BY DEF handleGetPreviewElementNodeResponse
  <1>2. /\ calling = {} /\ internalQueue = <<>> /\ state # "INIT" /\ CurrentInv /\ (FetchInv \/ WorkInv)
        /\ ask \in DOMAIN outstanding /\ UNCHANGED <<requestQueue, triggers>>
        /\ Once(outstanding') /\ DOMAIN outstanding' = DOMAIN outstanding \ {ask}
    BY <1>1, AnswerFacts
  <1>3. WorkInv /\ (NodesInv \/ DownloadInv) /\ Once(transfers)
    <2>1. ~AskedFor("copy", set.handles \ Named(imported)) /\ ask # Ask("folder", set.req) /\ ask # Ask("fetch", set.req)
      BY <1>2 DEF AskedFor, Ask
    <2>2. ~FetchInv /\ ~ImportInv
      BY <1>2, <2>1, EmptyBagFacts DEF FetchInv, ImportInv
    <2> QED BY <1>2, <2>2 DEF WorkInv, CurrentInv
  <1>4. set \in Sets /\ set.nodes \in Seq(Elements)
    BY Types DEF Inv, Sets
  <1>5. /\ set'.req = r /\ set'.named = set.named /\ set'.handles = set.handles /\ set'.nodes = Append(set.nodes, e)
    BY <1>1, <1>4 DEF Sets
  <1>6. Range(set'.nodes) = Range(set.nodes) \cup {e} /\ (IsInjective(set.nodes) /\ e \notin Range(set.nodes) => IsInjective(set'.nodes))
    BY <1>4, <1>5, AppendFacts
  <1>7. internalQueue' = <<"element">> /\ calling' = {"gui"} /\ internalQueue' # <<>> /\ internalQueue' # <<"set">>
    <2>1. internalQueue' = <<"element">> /\ calling' = {"gui"}
      BY <1>1, <1>2
    <2>2. Head(<<"element">>) # Head(<<"set">>)
      OBVIOUS
    <2> QED BY <2>1, <2>2
  <1>8. \A q \in Elements : Ask("element", q) = ask => q = e
    BY DEF Ask
  <1>9. CASE NodesInv
    <2>1. e \in set.handles \ Range(set.nodes)
      BY <1>2, <1>9 DEF NodesInv, AskedFor, Ask
    <2>2. set.handles \subseteq Elements
      BY <1>4 DEF Sets
    <2>3. DOMAIN outstanding' = {Ask("element", q) : q \in set'.handles \ Range(set'.nodes)}
      <3>1. DOMAIN outstanding = {Ask("element", q) : q \in set.handles \ Range(set.nodes)}
        BY <1>9 DEF NodesInv, AskedFor
      <3>2. set'.handles \ Range(set'.nodes) = (set.handles \ Range(set.nodes)) \ {e}
        BY <1>5, <1>6
      <3> QED BY <1>2, <1>8, <2>1, <2>2, <3>1, <3>2
    <2>4. NodesInv'
      BY <1>1, <1>5, <1>6, <1>7, <1>9, <2>1, <2>3 DEF NodesInv, AskedFor
    <2>5. WorkInv'
      BY <1>3, <1>5, <1>7, <2>4 DEF WorkInv
    <2> QED BY <1>1, <1>2, <1>3, <1>5, <1>7, <2>5, WorkKeepsInv
  <1>10. CASE DownloadInv
    <2>1. e \in Asked
      BY <1>2 DEF Asked
    <2>2. Asked' = Asked \ {e}
      <3>1. \A q \in Elements : Ask("element", q) \in DOMAIN outstanding' <=> Ask("element", q) \in DOMAIN outstanding /\ q # e
        BY <1>2, <1>8
      <3> QED BY <3>1 DEF Asked
    <2>3. Moving' = Moving
      BY <1>1, <1>5 DEF Moving
    <2>4. AskedFor("element", Asked)'
      <3>1. DOMAIN outstanding = {Ask("element", q) : q \in Asked}
        BY <1>10 DEF DownloadInv, AskedFor
      <3>2. Asked \subseteq Elements
        BY DEF Asked
      <3> QED BY <1>2, <1>8, <2>1, <2>2, <3>1, <3>2 DEF AskedFor
    <2>5. e \notin Range(set.nodes) /\ e \notin Moving /\ e \notin stored[r] /\ e \in set.handles
      BY <1>10, <2>1 DEF DownloadInv
    <2>6. state # "DOWNLOAD_COLLECTION"
      BY <1>2, <1>10, EmptyBagFacts DEF DownloadInv
    <2>7. DownloadInv'
      <3>1. /\ Asked' \cap Range(set'.nodes) = {} /\ Asked' \cap Moving' = {} /\ Asked' \cap stored'[set'.req] = {}
            /\ Range(set'.nodes) \cap Moving' = {} /\ Range(set'.nodes) \cap stored'[set'.req] = {}
            /\ Moving' \cap stored'[set'.req] = {}
        BY <1>1, <1>5, <1>6, <1>10, <2>2, <2>3, <2>5 DEF DownloadInv
      <3>2. Asked' \cup Range(set'.nodes) \cup Moving' \cup stored'[set'.req] = Asked \cup Range(set.nodes) \cup Moving \cup stored[r]
        BY <1>1, <1>5, <1>6, <2>1, <2>2, <2>3
      <3>3. IsInjective(set'.nodes) /\ stored'[set'.req] = stored[r]
        BY <1>1, <1>5, <1>6, <1>10, <2>5 DEF DownloadInv
      <3>4. DOMAIN transfers' = {[req |-> set'.req, node |-> q] : q \in Moving'}
        BY <1>1, <1>5, <1>10, <2>3 DEF DownloadInv
      <3> QED BY <1>1, <1>5, <1>7, <1>10, <2>4, <2>6, <3>1, <3>2, <3>3, <3>4 DEF DownloadInv
    <2>8. WorkInv'
      BY <1>3, <1>5, <1>7, <2>7 DEF WorkInv
    <2> QED BY <1>1, <1>2, <1>3, <1>5, <1>7, <2>8, WorkKeepsInv
  <1> QED BY <1>3, <1>9, <1>10

\* How many elements three lists name that have none in common, and their concatenation.
LEMMA ListFacts ==
  ASSUME NEW lists \in Lists, Apart(lists)
  PROVE  LET all == lists.succeeded \o lists.failed \o lists.existing
         IN  /\ Range(all) = Named(lists) /\ Len(all) = NrImported(lists)
             /\ NrImported(lists) = Cardinality(Named(lists)) /\ IsFiniteSet(Named(lists))
  <1> DEFINE a == lists.succeeded
             b == lists.failed
             c == lists.existing
             ab == a \o b
             all == ab \o c
  <1>1. /\ a \in Seq(Elements) /\ b \in Seq(Elements) /\ c \in Seq(Elements)
        /\ IsInjective(a) /\ IsInjective(b) /\ IsInjective(c)
        /\ Range(a) \cap Range(b) = {} /\ Range(a) \cap Range(c) = {} /\ Range(b) \cap Range(c) = {}
        /\ Named(lists) = Range(a) \cup Range(b) \cup Range(c) /\ NrImported(lists) = Len(a) + Len(b) + Len(c)
    BY DEF Lists, Apart, Named, NrImported
  <1> HIDE DEF a, b, c
  <1>2. ab \in Seq(Elements) /\ Range(ab) = Range(a) \cup Range(b) /\ Len(ab) = Len(a) + Len(b) /\ IsInjective(ab)
    BY <1>1, ConcatFacts
  <1> HIDE DEF ab
  <1>3. Range(ab) \cap Range(c) = {}
    BY <1>1, <1>2
  <1>4. all \in Seq(Elements) /\ Range(all) = Range(ab) \cup Range(c) /\ Len(all) = Len(ab) + Len(c) /\ IsInjective(all)
    <2>1. ab \in Seq(Elements) /\ c \in Seq(Elements) /\ IsInjective(ab) /\ IsInjective(c)
      BY <1>1, <1>2
    <2> QED BY <1>3, <2>1, ConcatFacts
  <1> HIDE DEF all
  <1>5. Cardinality(Range(all)) = Len(all) /\ IsFiniteSet(Range(all))
    BY <1>4, SequenceFacts
  <1>6. Range(all) = Named(lists) /\ Len(all) = NrImported(lists)
    BY <1>1, <1>2, <1>4
  <1> QED BY <1>5, <1>6 DEF all, ab, a, b, c

\* The elements named so far are copied or there; the others are being copied.
LEMMA ImportKeepsInv ==
  ASSUME Undisturbed, Inv, TypeInv', ImportInv, set.named, set.handles # {}, calling = {}, state # "INIT",
         NEW lists \in Lists, Apart(lists), Named(lists) \subseteq set.handles,
         checkandHandleFinishedImport(lists), Once(outstanding'),
         DOMAIN outstanding' = {Ask("copy", e) : e \in set.handles \ Named(lists)},
         UNCHANGED <<requestQueue, internalQueue, downloaded, transfers, stored>>
  PROVE  Inv'
  <1> USE DEF history
  <1> DEFINE r == set.req
  <1>1. CurrentInv /\ r \in Requests /\ r # None
    BY Busy, Facts DEF CurrentInv
  <1>2. set.handles = Wanted(r) /\ IsFiniteSet(set.handles) /\ Kind[r] = "import" /\ Once(transfers) /\ internalQueue = <<>>
    BY <1>1, Facts DEF ImportInv, CurrentInv, WaitsFor, Kinds
  <1>3. NrImported(lists) = Cardinality(Named(lists)) /\ IsFiniteSet(Named(lists))
    BY ListFacts
  <1>4. NrImported(lists) = Cardinality(set.handles) <=> Named(lists) = set.handles
    BY <1>2, <1>3, FS_Subset
  <1>5. CASE Named(lists) = set.handles
    <2>1. /\ report' = [NoReport EXCEPT !.req = r, !.imported = lists]
          /\ End("done") /\ resetAndHandleStates("gui")
      BY <1>4, <1>5 DEF checkandHandleFinishedImport
    <2>2. outstanding' = EmptyBag
      <3>1. DOMAIN outstanding' = {}
        BY <1>5
      <3> QED BY <3>1, EmptyBagFacts DEF Once
    <2>3. report'.req = r /\ report'.imported = lists
      BY <2>1 DEF NoReport
    <2>4. ReportsAreWhole'
      <3>1. FetchedSetIsItsOwn'
        BY <1>2, <2>3 DEF FetchedSetIsItsOwn
      <3>2. ImportReportIsWhole'
        BY <1>2, <1>3, <1>5, <2>3, ListFacts DEF ImportReportIsWhole
      <3>3. status' = [status EXCEPT ![r] = "done"] /\ status \in [Requests -> {"new", "pending", "done", "failed"}]
        BY <1>1, <2>1 DEF End, Inv, TypeInv, TypeOK
      <3>4. \A q \in Requests : q # r => status'[q] = status[q]
        BY <3>3
      <3>5. DownloadIsWhole'
        BY <1>2, <3>4 DEF DownloadIsWhole, Inv, ReportsAreWhole
      <3> QED BY <3>1, <3>2, <3>5 DEF ReportsAreWhole
    <2>5. transfers' = EmptyBag /\ downloaded' = 0 /\ internalQueue' = <<>> /\ "gui" \in Threads
      BY DEF ImportInv, Threads
    <2> QED BY <2>1, <2>2, <2>4, <2>5, EndKeepsInv
  <1>6. CASE Named(lists) # set.handles
    <2>1. imported' = lists /\ UNCHANGED <<state, set, selection, calling, preview, status, report>>
      BY <1>4, <1>6 DEF checkandHandleFinishedImport
    <2>2. ImportInv'
      BY <1>6, <2>1 DEF ImportInv, AskedFor, Apart, Named
    <2>3. WorkInv'
      <3>1. <<>> # <<"set">>
        OBVIOUS
      <3> QED BY <1>2, <2>1, <2>2, <3>1 DEF WorkInv
    <2>4. calling' = {} /\ internalQueue' = <<>> /\ Once(transfers')
      BY <1>2, <2>1
    <2> QED BY <2>1, <2>3, <2>4, WorkKeepsInv
  <1> QED BY <1>5, <1>6

LEMMA CreatedKeepsInv ==
  ASSUME Undisturbed, Inv, TypeInv', NEW r \in Requests, handleCreateFolderResponse(r)
  PROVE  Inv'
  <1> USE DEF queues, current, sdk, history
  <1> DEFINE ask == Ask("folder", r)
             rest == outstanding (-) SetToBag({ask})
             nodes == set.nodes
  <1>1. /\ Answered(ask) /\ UNCHANGED <<internalQueue, downloaded, transfers, stored>>
    BY DEF handleCreateFolderResponse
  <1>2. /\ calling = {} /\ internalQueue = <<>> /\ state # "INIT" /\ CurrentInv /\ (FetchInv \/ WorkInv)
        /\ ask \in DOMAIN outstanding /\ UNCHANGED <<requestQueue, triggers>>
        /\ Once(rest) /\ DOMAIN rest = DOMAIN outstanding \ {ask}
    BY <1>1, AnswerFacts
  <1>3. WorkInv /\ ImportInv /\ imported = NoImport /\ DOMAIN outstanding = {ask}
    <2>1. ~AskedFor("element", set.handles \ Range(set.nodes)) /\ ~AskedFor("element", Asked)
          /\ ~AskedFor("copy", set.handles \ Named(imported)) /\ ask # Ask("fetch", set.req)
      BY <1>2 DEF AskedFor, Ask
    <2>2. ~FetchInv
      BY <1>2, <2>1, EmptyBagFacts DEF FetchInv
    <2>3. WorkInv /\ ImportInv /\ imported = NoImport /\ DOMAIN outstanding = {Ask("folder", set.req)}
      BY <1>2, <2>1, <2>2 DEF WorkInv, NodesInv, DownloadInv, ImportInv
    <2> QED BY <1>2, <2>3
  <1>4. rest = EmptyBag
    <2>1. DOMAIN rest = {}
      BY <1>2, <1>3
    <2> QED BY <1>2, <2>1, EmptyBagFacts DEF Once
  <1>5. nodes \in Seq(Elements) /\ IsInjective(nodes) /\ Range(nodes) = set.handles /\ set.named /\ set.handles # {}
    BY <1>3, Types DEF Inv, Sets, ImportInv, WorkInv
  <1>6. PICK there \in SUBSET Range(nodes) :
          LET Existing == {i \in DOMAIN nodes : nodes[i] \in there}
              toCopy == Picked(nodes, DOMAIN nodes \ Existing)
          IN  /\ outstanding' = rest (+) BagOf([k \in DOMAIN toCopy |-> Ask("copy", toCopy[k])])
              /\ checkandHandleFinishedImport([imported EXCEPT !.existing = @ \o Picked(nodes, Existing)])
    BY DEF handleCreateFolderResponse
  <1> DEFINE Existing == {i \in DOMAIN nodes : nodes[i] \in there}
             Others == DOMAIN nodes \ Existing
             found == Picked(nodes, Existing)
             toCopy == Picked(nodes, Others)
             asks == [k \in DOMAIN toCopy |-> Ask("copy", toCopy[k])]
             lists == [imported EXCEPT !.existing = @ \o found]
  <1>7. outstanding' = rest (+) BagOf(asks) /\ checkandHandleFinishedImport(lists)
    BY <1>6
  <1>8. /\ found \in Seq(Elements) /\ Range(found) = {nodes[i] : i \in Existing} /\ IsInjective(found)
        /\ toCopy \in Seq(Elements) /\ Range(toCopy) = {nodes[i] : i \in Others} /\ IsInjective(toCopy)
    BY <1>5, PickedFacts
  <1>9. Range(found) \subseteq set.handles /\ Range(toCopy) = set.handles \ Range(found)
    <2>1. \A i \in Others, j \in Existing : nodes[i] # nodes[j]
      OBVIOUS
    <2> HIDE DEF found, toCopy
    <2> QED BY <1>5, <1>8, <2>1 DEF Range
  <1> HIDE DEF asks, lists, toCopy, found
  <1>10. lists = [succeeded |-> <<>>, failed |-> <<>>, existing |-> found]
    <2>1. imported = [succeeded |-> <<>>, failed |-> <<>>, existing |-> <<>>]
      BY <1>3 DEF NoImport
    <2>2. <<>> \o found = found
      BY <1>8
    <2> QED BY <2>1, <2>2 DEF lists
  <1>11. lists \in Lists /\ Apart(lists) /\ Named(lists) = Range(found)
    <2>1. IsInjective(<<>>) /\ Range(<<>>) = {} /\ <<>> \in Seq(Elements)
      BY DEF IsInjective, Range
    <2> QED BY <1>8, <1>10, <2>1 DEF Lists, Apart, Named
  <1>12. Once(outstanding') /\ DOMAIN outstanding' = {Ask("copy", e) : e \in set.handles \ Named(lists)}
    <2> DEFINE n == Len(toCopy)
               D == [type : {"copy"}, of : Elements]
    <2>1. n \in Nat /\ DOMAIN toCopy = 1..n /\ \A k \in 1..n : toCopy[k] \in Elements
      BY <1>8, SequenceFacts
    <2> HIDE DEF n
    <2>2. asks \in [1..n -> D] /\ \A k \in 1..n : asks[k] = Ask("copy", toCopy[k])
      BY <2>1 DEF asks, Ask
    <2> HIDE DEF D
    <2>3. asks \in Seq(D) /\ DOMAIN asks = 1..n
      BY <2>1, <2>2
    <2>4. IsInjective(asks)
      <3> SUFFICES ASSUME NEW i \in 1..n, NEW j \in 1..n, asks[i] = asks[j] PROVE i = j
        BY <2>3 DEF IsInjective
      <3>1. toCopy[i] = toCopy[j]
        BY <2>2 DEF Ask
      <3> QED BY <1>8, <2>1, <3>1 DEF IsInjective
    <2>5. Range(asks) = {Ask("copy", e) : e \in Range(toCopy)}
      BY <2>1, <2>2, <2>3 DEF Range
    <2>6. Once(BagOf(asks)) /\ DOMAIN BagOf(asks) = Range(asks)
      BY <2>3, <2>4, BagOfFacts
    <2> QED BY <1>4, <1>7, <1>9, <1>11, <2>5, <2>6, OnlyThese
  <1> QED BY <1>1, <1>2, <1>3, <1>5, <1>7, <1>9, <1>11, <1>12, ImportKeepsInv

LEMMA CopiedKeepsInv ==
  ASSUME Undisturbed, Inv, TypeInv', NEW e \in Elements, handleCopyNodeResponse(e)
  PROVE  Inv'
  <1> USE DEF queues, current, sdk, history
  <1> DEFINE ask == Ask("copy", e)
  <1>1. /\ Answered(ask) /\ UNCHANGED <<internalQueue, downloaded, transfers, stored>>
        /\ outstanding' = outstanding (-) SetToBag({ask})
    BY DEF handleCopyNodeResponse
  <1>2. /\ calling = {} /\ internalQueue = <<>> /\ state # "INIT" /\ CurrentInv /\ (FetchInv \/ WorkInv)
        /\ ask \in DOMAIN outstanding /\ UNCHANGED <<requestQueue, triggers>>
        /\ Once(outstanding') /\ DOMAIN outstanding' = DOMAIN outstanding \ {ask}
    BY <1>1, AnswerFacts
  <1>3. WorkInv /\ ImportInv /\ Apart(imported) /\ Named(imported) \subseteq set.handles
        /\ DOMAIN outstanding = {Ask("copy", q) : q \in set.handles \ Named(imported)}
    <2>1. ~AskedFor("element", set.handles \ Range(set.nodes)) /\ ~AskedFor("element", Asked)
          /\ ask # Ask("fetch", set.req) /\ ask # Ask("folder", set.req)
      BY <1>2 DEF AskedFor, Ask
    <2>2. ~FetchInv
      BY <1>2, <2>1, EmptyBagFacts DEF FetchInv
    <2>3. WorkInv /\ ImportInv
      BY <1>2, <2>1, <2>2 DEF WorkInv, NodesInv, DownloadInv
    <2> QED BY <1>2, <2>1, <2>3 DEF ImportInv, AskedFor
  <1>4. \A q : Ask("copy", q) = ask => q = e
    BY DEF Ask
  <1>5. e \in set.handles \ Named(imported) /\ imported \in Lists /\ set.named /\ set.handles # {}
    BY <1>2, <1>3, <1>4, Types DEF WorkInv, Inv
  <1>6. PICK lists \in {[imported EXCEPT !.succeeded = Append(@, e)], [imported EXCEPT !.failed = Append(@, e)]} :
          checkandHandleFinishedImport(lists)
    BY DEF handleCopyNodeResponse
  <1>7. lists \in Lists /\ Apart(lists) /\ Named(lists) = Named(imported) \cup {e}
    <2> DEFINE a == imported.succeeded
               b == imported.failed
               c == imported.existing
    <2>1. a \in Seq(Elements) /\ b \in Seq(Elements) /\ c \in Seq(Elements)
          /\ e \notin Range(a) /\ e \notin Range(b) /\ e \notin Range(c)
      BY <1>5 DEF Lists, Named
    <2>2. \A s \in {a, b} : Append(s, e) \in Seq(Elements) /\ Range(Append(s, e)) = Range(s) \cup {e}
            /\ (IsInjective(s) => IsInjective(Append(s, e)))
      BY <2>1, AppendFacts
    <2>3. \/ lists = [succeeded |-> Append(a, e), failed |-> b, existing |-> c]
          \/ lists = [succeeded |-> a, failed |-> Append(b, e), existing |-> c]
      BY <1>5, <1>6 DEF Lists
    <2>4. Apart(imported) /\ Named(imported) = Range(a) \cup Range(b) \cup Range(c)
      BY <1>3 DEF Named
    <2> QED BY <2>1, <2>2, <2>3, <2>4 DEF Lists, Apart, Named
  <1>8. DOMAIN outstanding' = {Ask("copy", q) : q \in set.handles \ Named(lists)}
    <2>1. set.handles \ Named(lists) = (set.handles \ Named(imported)) \ {e}
      BY <1>7
    <2> QED BY <1>2, <1>3, <1>4, <2>1
  <1>9. Named(lists) \subseteq set.handles
    BY <1>3, <1>5, <1>7
  <1> QED BY <1>1, <1>2, <1>3, <1>5, <1>6, <1>7, <1>8, <1>9, ImportKeepsInv

LEMMA FinishKeepsInv ==
  ASSUME Undisturbed, Inv, TypeInv', NEW x \in BagToSet(transfers), onTransferFinish(x)
  PROVE  Inv'
  <1> USE DEF queues, current, sdk, history
  <1> DEFINE r == set.req
             e == x.node
  <1>1. /\ "gui" \notin calling /\ Alone("gui") /\ x \in DOMAIN transfers
        /\ transfers' = transfers (-) SetToBag({x})
        /\ stored' = [stored EXCEPT ![x.req] = @ \cup {e}]
        /\ UNCHANGED <<requestQueue, triggers, internalQueue, outstanding, report>>
    BY DEF onTransferFinish, BagToSet
  <1>2. calling = {} /\ state # "INIT" /\ internalQueue = <<>> /\ CurrentInv /\ (FetchInv \/ WorkInv)
    <2>1. state # "INIT"
      BY <1>1, EmptyBagFacts DEF Inv, InitInv
    <2> QED BY <1>1, <2>1, NobodyCalls, Busy
  <1>3. WorkInv /\ DownloadInv
    BY <1>1, <1>2, EmptyBagFacts DEF FetchInv, WorkInv, NodesInv, ImportInv
  <1>4. set.nodes = <<>> /\ Range(set.nodes) = {} /\ r \in Requests /\ Once(transfers) /\ Once(outstanding)
    BY <1>2, <1>3 DEF DownloadInv, CurrentInv, Range
  <1>5. e \in Moving /\ x = [req |-> r, node |-> e]
    <2>1. PICK q \in Moving : x = [req |-> r, node |-> q]
      BY <1>1, <1>3 DEF DownloadInv
    <2> QED BY <2>1
  <1>6. Once(transfers') /\ DOMAIN transfers' = DOMAIN transfers \ {x}
    <2>1. IsABag(transfers)
      BY <1>4 DEF Once
    <2> QED BY <1>1, <1>4, <2>1, BagDifferenceFacts
  <1>7. stored \in [Requests -> SUBSET Elements] /\ set.handles = Wanted(r) /\ set.handles \in SUBSET Elements
        /\ IsFiniteSet(set.handles) /\ set.handles # {}
    BY <1>3, <1>4, Facts DEF DownloadInv, WorkInv, Inv, TypeInv, TypeOK
  <1>8. stored'[r] = stored[r] \cup {e} /\ \A q \in Requests : q # r => stored'[q] = stored[q]
    BY <1>1, <1>4, <1>5, <1>7
  <1>9. e \notin stored[r] /\ stored'[r] \subseteq set.handles /\ stored[r] \subseteq set.handles
    BY <1>3, <1>5, <1>8 DEF DownloadInv
  <1>10. /\ IsFiniteSet(stored'[r]) /\ Cardinality(stored'[r]) = downloaded + 1 /\ downloaded \in Nat
         /\ Cardinality(stored'[r]) <= Cardinality(set.handles) /\ Cardinality(set.handles) \in Nat
         /\ (Cardinality(stored'[r]) = Cardinality(set.handles) <=> stored'[r] = set.handles)
    <2>1. IsFiniteSet(stored[r]) /\ IsFiniteSet(stored'[r]) /\ downloaded = Cardinality(stored[r]) /\ downloaded \in Nat
      BY <1>3, <1>7, <1>9, FS_Subset, FS_CardinalityType DEF DownloadInv
    <2>2. Cardinality(stored'[r]) = Cardinality(stored[r]) + 1
      BY <1>8, <1>9, <2>1, FS_AddElement
    <2> QED BY <1>7, <1>9, <2>1, <2>2, FS_Subset, FS_CardinalityType
  <1>11. CASE downloaded + 1 = Cardinality(set.handles)
    <2>1. downloaded' = 0 /\ End("done") /\ resetAndHandleStates("gui")
      BY <1>11 DEF onTransferFinish, Counted
    <2>2. stored'[r] = set.handles
      BY <1>10, <1>11
    <2>3. Asked = {} /\ Moving = {e}
      BY <1>3, <1>5, <1>8, <2>2 DEF DownloadInv
    <2>4. outstanding' = EmptyBag /\ transfers' = EmptyBag
      <3>1. DOMAIN outstanding = {} /\ DOMAIN transfers = {x}
        BY <1>3, <1>5, <2>3 DEF DownloadInv, AskedFor
      <3>2. DOMAIN transfers' = {}
        BY <1>6, <3>1
      <3> QED BY <1>1, <1>4, <1>6, <3>1, <3>2, EmptyBagFacts DEF Once
    <2>5. ReportsAreWhole'
      <3>1. FetchedSetIsItsOwn' /\ ImportReportIsWhole'
        BY <1>1 DEF FetchedSetIsItsOwn, ImportReportIsWhole, Inv, ReportsAreWhole
      <3>2. status' = [status EXCEPT ![r] = "done"] /\ status \in [Requests -> {"new", "pending", "done", "failed"}]
        BY <1>4, <2>1, Facts DEF End, Inv, TypeInv, TypeOK
      <3>3. \A q \in Requests : q # r => status'[q] = status[q]
        BY <3>2
      <3>4. DownloadIsWhole'
        BY <1>7, <1>8, <2>2, <3>3 DEF DownloadIsWhole, Inv, ReportsAreWhole
      <3> QED BY <3>1, <3>4 DEF ReportsAreWhole
    <2>6. internalQueue' = <<>> /\ "gui" \in Threads
      BY <1>1, <1>2 DEF Threads
    <2> QED BY <1>1, <1>2, <1>8, <2>1, <2>4, <2>5, <2>6, EndKeepsInv
  <1>12. CASE downloaded + 1 # Cardinality(set.handles)
    <2>1. downloaded' = downloaded + 1 /\ UNCHANGED <<preview, status, report, state, set, selection, imported, calling>>
      BY <1>1, <1>12 DEF onTransferFinish, Counted
    <2>2. Asked' = Asked
      BY <1>1 DEF Asked
    <2>3. Moving' = Moving \ {e} /\ DOMAIN transfers' = {[req |-> r, node |-> q] : q \in Moving'}
      <3>1. \A q : [req |-> r, node |-> q] = x => q = e
        BY <1>5
      <3>2. \A q \in Elements : [req |-> r, node |-> q] \in DOMAIN transfers' <=> q \in Moving /\ q # e
        BY <1>5, <1>6, <3>1 DEF Moving
      <3>3. Moving' = Moving \ {e}
        BY <2>1, <3>2 DEF Moving
      <3>4. DOMAIN transfers = {[req |-> r, node |-> q] : q \in Moving}
        BY <1>3 DEF DownloadInv
      <3> QED BY <1>5, <1>6, <3>1, <3>3, <3>4
    <2>4. DownloadInv'
      <3>1. /\ Asked' \cap Moving' = {} /\ Asked' \cap stored'[r] = {} /\ Moving' \cap stored'[r] = {}
            /\ Asked' \cup Moving' \cup stored'[r] = Asked \cup Moving \cup stored[r]
        BY <1>3, <1>5, <1>8, <2>2, <2>3 DEF DownloadInv
      <3>2. downloaded' = Cardinality(stored'[r]) /\ downloaded' < Cardinality(set.handles)
        BY <1>10, <1>12, <2>1
      <3>3. AskedFor("element", Asked)'
        BY <1>1, <1>3, <2>2 DEF DownloadInv, AskedFor
      <3> QED BY <1>1, <1>3, <1>4, <2>1, <2>3, <3>1, <3>2, <3>3 DEF DownloadInv
    <2>5. WorkInv'
      BY <1>1, <1>3, <2>1, <2>4 DEF WorkInv
    <2> QED BY <1>1, <1>2, <1>4, <1>6, <1>8, <2>1, <2>5, WorkKeepsInv
  <1> QED BY <1>11, <1>12
-----------------------------------------------------------------------------
(* The theorems *)

LEMMA InvInitially == Init => Inv
  <1> SUFFICES ASSUME Init PROVE Inv
    OBVIOUS
  <1> USE DEF Init
  <1>1. TypeInv
    BY TypeInitially
  <1>2. InitInv
    BY DEF InitInv
  <1>3. Range(requestQueue) = {} /\ IsInjective(requestQueue)
    BY DEF Range, IsInjective
  <1>4. QueueInv
    BY <1>3 DEF QueueInv
  <1>5. ReportsAreWhole
    BY DEF ReportsAreWhole, FetchedSetIsItsOwn, ImportReportIsWhole, DownloadIsWhole, NoReport
  <1> QED BY <1>1, <1>2, <1>4, <1>5 DEF Inv

LEMMA InvStep ==
  ASSUME Undisturbed, Inv, [Next]_vars
  PROVE  Inv'
  <1>1. TypeInv'
    BY TypeStep DEF Inv
  <1>2. ASSUME NEW r \in Requests, request(r) PROVE Inv'
    BY <1>1, <1>2, RequestKeepsInv
  <1>3. CASE handleTriggerAction
    BY <1>1, <1>3, TriggerKeepsInv
  <1>4. ASSUME NEW t \in Threads, handleStates(t) PROVE Inv'
    BY <1>1, <1>4, NothingKeepsInv, InitStateKeepsInv, PreviewKeepsInv, ElementKeepsInv, LinkDownloadKeepsInv,
       CollectionKeepsInv, FolderKeepsInv DEF handleStates
  <1>5. CASE onRequestFinish
    BY <1>1, <1>5, FailureKeepsInv, FetchedKeepsInv, NodeKeepsInv, CreatedKeepsInv, CopiedKeepsInv DEF onRequestFinish
  <1>6. ASSUME NEW x \in BagToSet(transfers), onTransferFinish(x) PROVE Inv'
    BY <1>1, <1>6, FinishKeepsInv
  <1>7. CASE UNCHANGED vars
    BY <1>7, StutterKeepsInv
  <1> QED BY <1>2, <1>3, <1>4, <1>5, <1>6, <1>7 DEF Next, ManagerNext

LEMMA InvInvariant == Undisturbed => (Spec => []Inv)
  <1> SUFFICES ASSUME Undisturbed PROVE Spec => []Inv
    OBVIOUS
  <1>1. Inv /\ [Next]_vars => Inv'
    BY InvStep
  <1> QED BY InvInitially, <1>1, PTL DEF Spec

\* When the manager is ready for the next request, nothing of the last one is under way.
THEOREM QuietTheorem == Undisturbed => (Spec => []QuietWhenInit)
  <1>1. Inv => QuietWhenInit
    BY DEF Inv, InitInv, QuietWhenInit
  <1> QED BY <1>1, InvInvariant, PTL

\* What is reported as done is whole, and nothing of another request is in it.
THEOREM ReportsTheorem == Undisturbed => (Spec => []ReportsAreWhole)
  <1>1. Inv => ReportsAreWhole
    BY DEF Inv
  <1> QED BY <1>1, InvInvariant, PTL

\* A request in progress waits for something, if folders for downloads can be created.
LEMMA SomethingIsAwaited ==
  ASSUME Undisturbed, "directory" \notin Failures, Inv, state # "INIT"
  PROVE  calling # {} \/ outstanding # EmptyBag \/ transfers # EmptyBag
  <1> SUFFICES ASSUME calling = {}, outstanding = EmptyBag, transfers = EmptyBag PROVE FALSE
    OBVIOUS
  <1>1. CurrentInv /\ internalQueue = <<>> /\ DOMAIN outstanding = {} /\ DOMAIN transfers = {}
    BY Busy, EmptyBagFacts DEF CurrentInv
  <1>2. ~FetchInv
    BY <1>1 DEF FetchInv
  <1>3. ~NodesInv
    BY <1>1 DEF NodesInv, AskedFor
  <1>4. ~DownloadInv
    <2> SUFFICES ASSUME DownloadInv PROVE FALSE
      OBVIOUS
    <2>1. Asked = {} /\ Moving = {} /\ set.nodes = <<>> /\ Range(set.nodes) = {}
      BY <1>1 DEF Asked, Moving, DownloadInv, Range
    <2>2. stored[set.req] = set.handles
      BY <2>1 DEF DownloadInv
    <2>3. Cardinality(set.handles) \in Nat
      BY Types, Facts DEF Inv, Sets
    <2> QED BY <2>2, <2>3 DEF DownloadInv
  <1>5. ~ImportInv
    BY <1>1 DEF ImportInv, AskedFor
  <1> QED BY <1>2, <1>3, <1>4, <1>5, Busy DEF WorkInv

\* No request is lost, and the manager is never left without anything that would go on.
THEOREM RequestsTheorem ==
  Undisturbed /\ "directory" \notin Failures => (Spec => []RequestsAreKept)
  <1> SUFFICES ASSUME Undisturbed, "directory" \notin Failures PROVE Spec => []RequestsAreKept
    OBVIOUS
  <1>1. Inv => RequestsAreKept
    BY SomethingIsAwaited DEF Inv, QueueInv, RequestsAreKept
  <1> QED BY <1>1, InvInvariant, PTL

\* The end of the request in progress.
LEMMA EndIsTold ==
  ASSUME Inv, state # "INIT", NEW t \in Threads, NEW how \in {"done", "failed"},
         resetAndHandleStates(t), End(how), requestQueue' = requestQueue
  PROVE  Line!LineNext
  <1>1. set.req \in Requests /\ status[set.req] = "pending" /\ set.req # None
    BY Busy, Facts DEF CurrentInv
  <1>2. state' = "INIT" /\ status' = [status EXCEPT ![set.req] = how]
    BY <1>1 DEF resetAndHandleStates, reset, End
  <1>3. Line!End(set.req, how)
    BY <1>1, <1>2 DEF Line!End
  <1> QED BY <1>1, <1>3 DEF Line!LineNext

\* What the line is does not change.
Waits == UNCHANGED <<requestQueue, IF state = "INIT" THEN {} ELSE {set.req}, status>>

LEMMA LineStep ==
  ASSUME Undisturbed, Inv, [Next]_vars
  PROVE  Line!LineNext \/ Waits
  <1> USE DEF queues, current, sdk, history
  <1>b. set \in Sets
    BY Types DEF Inv
  <1>1. ASSUME NEW r \in Requests, request(r) PROVE Line!LineNext
    <2>1. Line!Request(r)
      BY <1>1 DEF request, Line!Request
    <2> QED BY <2>1 DEF Line!LineNext
  <1>2. CASE handleTriggerAction
    BY <1>2 DEF handleTriggerAction, Waits
  <1>3. ASSUME NEW t \in Threads, nothingToHandle(t) PROVE Waits
    <2>1. state = "INIT"
      BY <1>3, Busy DEF nothingToHandle, CurrentInv
    <2> QED BY <1>3, <2>1 DEF nothingToHandle, Waits
  <1>4. ASSUME NEW t \in Threads, handleStateInit(t) PROVE Line!LineNext
    <2> DEFINE r == Head(requestQueue)
    <2>1. state = "INIT" /\ requestQueue # <<>> /\ requestQueue' = Tail(requestQueue) /\ status' = status
      BY <1>4 DEF handleStateInit, Calls
    <2>2. r \in Requests
      BY <2>1, TailTypes DEF Inv, TypeInv, TypeOK
    <2>3. ~(Given(r) /\ Wanted(r) = {})
      BY <2>2 DEF Undisturbed
    <2>4. state' = WaitsFor(r) /\ set'.req = r
      BY <1>4, <2>3 DEF handleStateInit, Given, filterSet, NoSet
    <2>5. state' # "INIT"
      BY <2>2, <2>4, Facts DEF Waiting
    <2>6. Line!Take
      BY <2>1, <2>4, <2>5 DEF Line!Take
    <2> QED BY <2>6 DEF Line!LineNext
  <1>5. ASSUME NEW t \in Threads, getPreview(t) PROVE Line!LineNext \/ Waits
    <2>1. state # "INIT" /\ requestQueue' = requestQueue
      BY <1>5 DEF getPreview, Handles, Pops, Calls
    <2>2. CASE preview = None \/ set.handles \cup InPreview = {}
      BY <1>5, <2>1, <2>2, EndIsTold DEF getPreview
    <2>3. CASE ~(preview = None \/ set.handles \cup InPreview = {})
      <3>1. set'.req = set.req /\ state' = state /\ status' = status
        BY <1>5, <1>b, <2>3 DEF getPreview, Sets
      <3> QED BY <2>1, <3>1 DEF Waits
    <2> QED BY <2>2, <2>3
  <1>6. ASSUME NEW t \in Threads, elementFetched(t) PROVE Line!LineNext \/ Waits
    <2>1. state # "INIT" /\ requestQueue' = requestQueue
      BY <1>6 DEF elementFetched, Handles, Pops, Calls
    <2> QED BY <1>6, <2>1, EndIsTold DEF elementFetched, Waits
  <1>7. ASSUME NEW t \in Threads, elementToDownload(t) PROVE Waits
    <2>1. UNCHANGED <<requestQueue, state, status>> /\ set' = [set EXCEPT !.nodes = <<>>]
      BY <1>7 DEF elementToDownload, Handles, Pops, startDownload
    <2> QED BY <1>b, <2>1 DEF Sets, Waits
  <1>8. ASSUME NEW t \in Threads, downloadCollection(t) PROVE Line!LineNext \/ Waits
    <2>1. state # "INIT" /\ requestQueue' = requestQueue
      BY <1>8 DEF downloadCollection, Pops, Calls
    <2>2. CASE startDownload /\ Returns(t) /\ UNCHANGED <<state, selection, imported, status>>
      BY <1>b, <2>1, <2>2 DEF startDownload, Sets, Waits
    <2>3. CASE resetAndHandleStates(t) /\ End("failed")
      BY <2>1, <2>3, EndIsTold
    <2> QED BY <1>8, <2>2, <2>3 DEF downloadCollection
  <1>9. ASSUME NEW t \in Threads, createFolder(t) PROVE Line!LineNext \/ Waits
    <2>1. state # "INIT" /\ requestQueue' = requestQueue
      BY <1>9 DEF createFolder, Pops, Calls
    <2> QED BY <1>9, <2>1, EndIsTold DEF createFolder, Waits
  <1>10. ASSUME NEW ask, Answered(ask) PROVE state # "INIT" /\ requestQueue' = requestQueue /\ "gui" \in Threads
    BY <1>10, AnswerFacts DEF Threads
  <1>11. ASSUME NEW ask, requestFailed(ask) PROVE Line!LineNext
    BY <1>10, <1>11, EndIsTold DEF requestFailed
  <1>12. ASSUME NEW r \in Requests, handleFetchPublicSetResponse(r) PROVE Waits
    BY <1>10, <1>12 DEF handleFetchPublicSetResponse, Waits
  <1>13. ASSUME NEW e \in Elements, handleGetPreviewElementNodeResponse(e) PROVE Waits
    <2>1. set'.req = set.req
      BY <1>b, <1>13 DEF handleGetPreviewElementNodeResponse, Sets
    <2> QED BY <1>10, <1>13, <2>1 DEF handleGetPreviewElementNodeResponse, Waits
  <1>14. ASSUME NEW lists, checkandHandleFinishedImport(lists), state # "INIT", requestQueue' = requestQueue
         PROVE  Line!LineNext \/ Waits
    BY <1>14, EndIsTold DEF checkandHandleFinishedImport, Waits, Threads
  <1>15. ASSUME NEW r \in Requests, handleCreateFolderResponse(r) PROVE Line!LineNext \/ Waits
    BY <1>10, <1>14, <1>15 DEF handleCreateFolderResponse
  <1>16. ASSUME NEW e \in Elements, handleCopyNodeResponse(e) PROVE Line!LineNext \/ Waits
    BY <1>10, <1>14, <1>16 DEF handleCopyNodeResponse
  <1>17. ASSUME NEW x \in BagToSet(transfers), onTransferFinish(x) PROVE Line!LineNext \/ Waits
    <2>1. state # "INIT"
      BY EmptyBagFacts DEF Inv, InitInv, BagToSet
    <2>2. requestQueue' = requestQueue /\ "gui" \in Threads
      BY <1>17 DEF onTransferFinish, Threads
    <2>3. CASE downloaded + 1 = Cardinality(set.handles)
      BY <1>17, <2>1, <2>2, <2>3, EndIsTold DEF onTransferFinish
    <2>4. CASE downloaded + 1 # Cardinality(set.handles)
      BY <1>17, <2>2, <2>4 DEF onTransferFinish, Waits
    <2> QED BY <2>3, <2>4
  <1>18. CASE UNCHANGED vars
    BY <1>18 DEF vars, Waits
  <1> QED
    BY <1>1, <1>2, <1>3, <1>4, <1>5, <1>6, <1>7, <1>8, <1>9, <1>11, <1>12, <1>13, <1>15, <1>16, <1>17, <1>18
    DEF Next, ManagerNext, handleStates, onRequestFinish

\* Requests are dealt with in their order, one at a time, and each to an end.
THEOREM InTurn == Undisturbed => (Spec => ServesInTurn)
  <1> SUFFICES ASSUME Undisturbed PROVE Spec => ServesInTurn
    OBVIOUS
  <1>1. Init => Line!LineInit
    BY DEF Init, Line!LineInit
  <1>2. Inv /\ [Next]_vars =>
          [Line!LineNext]_<<requestQueue, IF state = "INIT" THEN {} ELSE {set.req}, status>>
    BY LineStep DEF Waits
  <1> QED BY <1>1, <1>2, InvInvariant, PTL DEF Spec, ServesInTurn, Line!LineSpec
=============================================================================
