-------------------- MODULE TransferThread_count_proofs ---------------------
(***************************************************************************)
(* The counters of TransferThread: pending, total and failed agree with    *)
(* the SDK, and the summary counters with what is remembered by tag, for   *)
(* every set of transfers and every width of the counters.                 *)
(***************************************************************************)
EXTENDS TransferThread_proofs

-----------------------------------------------------------------------------
(* Sizes of sets of transfers *)

LEMMA CardAdd ==
  ASSUME NEW A \in SUBSET Tags, NEW t \in Tags, t \notin A
  PROVE  /\ Cardinality(A \cup {t}) = Cardinality(A) + 1
         /\ Cardinality(A) \in Uint /\ Cardinality(A) < UintMax
  <1>1. IsFiniteSet(A) /\ Cardinality(A) \in Uint
    BY TagSets
  <1>2. Cardinality(A \cup {t}) = Cardinality(A) + 1
    BY <1>1, FS_AddElement
  <1>3. Cardinality(A \cup {t}) \in Uint
    BY TagSets
  <1> QED BY <1>1, <1>2, <1>3, BoundsAssumption DEF Uint

LEMMA CardRemove ==
  ASSUME NEW A \in SUBSET Tags, NEW t \in A
  PROVE  /\ Cardinality(A \ {t}) = Cardinality(A) - 1
         /\ Cardinality(A) \in Uint /\ Cardinality(A) >= 1
  <1>1. IsFiniteSet(A) /\ Cardinality(A) \in Uint
    BY TagSets
  <1>2. Cardinality(A \ {t}) = Cardinality(A) - 1
    BY <1>1, FS_RemoveElement
  <1>3. Cardinality(A \ {t}) \in Uint
    BY TagSets
  <1> QED BY <1>1, <1>2, <1>3, BoundsAssumption DEF Uint

LEMMA CardDiff ==
  ASSUME NEW A \in SUBSET Tags, NEW B \in SUBSET A
  PROVE  /\ Cardinality(A \ B) = Cardinality(A) - Cardinality(B)
         /\ Cardinality(A) \in Uint /\ Cardinality(B) \in Uint
         /\ Cardinality(B) <= Cardinality(A)
  <1>1. IsFiniteSet(A) /\ Cardinality(A) \in Uint /\ Cardinality(B) \in Uint
    BY TagSets
  <1>2. A \cap B = B
    OBVIOUS
  <1>3. Cardinality(A \ B) = Cardinality(A) - Cardinality(B)
    BY <1>1, <1>2, FS_Difference
  <1>4. Cardinality(B) <= Cardinality(A)
    BY <1>1, FS_Subset
  <1> QED BY <1>1, <1>3, <1>4

LEMMA CardDisjoint ==
  ASSUME NEW A \in SUBSET Tags, NEW B \in SUBSET Tags, A \cap B = {}
  PROVE  /\ Cardinality(A \cup B) = Cardinality(A) + Cardinality(B)
         /\ Cardinality(A) \in Uint /\ Cardinality(B) \in Uint
         /\ Cardinality(A \cup B) \in Uint
  <1>1. /\ IsFiniteSet(A) /\ Cardinality(A) \in Uint
        /\ IsFiniteSet(B) /\ Cardinality(B) \in Uint
        /\ Cardinality(A \cup B) \in Uint
    BY TagSets
  <1>2. Cardinality(A \cup B) = Cardinality(A) + Cardinality(B) - Cardinality(A \cap B)
    BY <1>1, FS_Union
  <1>3. Cardinality(A \cap B) = 0
    BY FS_EmptySet
  <1> QED BY <1>1, <1>2, <1>3, BoundsAssumption DEF Uint

LEMMA CardBound ==
  ASSUME NEW A \in SUBSET Tags
  PROVE  Cardinality(A) <= Cardinality(Tags) /\ Cardinality(A) \in Nat
  <1>1. Tags \in SUBSET Tags /\ A \in SUBSET Tags
    OBVIOUS
  <1>2. Cardinality(A) <= Cardinality(Tags) /\ Cardinality(A) \in Uint
    BY <1>1, CardDiff
  <1> QED BY <1>2 DEF Uint

\* Within their width the unsigned operations are the arithmetic ones.
LEMMA UintExact ==
  /\ \A n \in Uint : n < UintMax => Inc(n) = n + 1
  /\ \A n, k \in Uint : k <= n => Minus(n, k) = n - k /\ n - k \in Uint
  /\ 0 \in Uint /\ (UintMax >= 1 => 1 \in Uint)
  BY BoundsAssumption DEF Uint, Inc, Minus

LEMMA DirType == Dirs = {"up", "down"} /\ \A t : Dir(t) \in Dirs
  BY DEF Dir, Dirs
-----------------------------------------------------------------------------
(* The pending counters *)

LiveSync == (Live("up") \cup Live("down")) \cap SyncTransfers

LEMMA LiveTypes ==
  /\ \A d \in Dirs : Live(d) \in SUBSET Tags
  /\ LiveSync \in SUBSET Tags
  /\ \A t \in SyncTransfers : t \in Tags /\ Counted(t)
  BY TagsAssumption DEF Live, LiveSync, Counted

\* What a notification does to the sets of live transfers.
LEMMA LiveMoves ==
  ASSUME TypeOK, NEW t \in Tags, NEW s, Notify(t, s)
  PROVE  /\ \A d \in Dirs : Live(d)' = IF Counted(t) /\ Dir(t) = d
                                       THEN IF s \in LiveStates THEN Live(d) \cup {t} ELSE Live(d) \ {t}
                                       ELSE Live(d)
         /\ LiveSync' = IF t \in SyncTransfers
                        THEN IF s \in LiveStates THEN LiveSync \cup {t} ELSE LiveSync \ {t}
                        ELSE LiveSync
  <1>1. \A u \in Tags : sdk'[u] = IF u = t THEN s ELSE sdk[u]
    BY DEF Notify, TypeOK
  <1>2. \A d \in Dirs : Live(d)' = IF Counted(t) /\ Dir(t) = d
                                   THEN IF s \in LiveStates THEN Live(d) \cup {t} ELSE Live(d) \ {t}
                                   ELSE Live(d)
    BY <1>1 DEF Live
  <1>3. \A u : u \in LiveSync' <=> /\ u \in SyncTransfers
                                   /\ sdk'[u] \in LiveStates
    BY LiveTypes DEF LiveSync, Live, Dir
  <1>4. \A u : u \in LiveSync <=> u \in SyncTransfers /\ sdk[u] \in LiveStates
    BY LiveTypes DEF LiveSync, Live, Dir
  <1>5. \A u : u \in LiveSync' <=> u \in IF t \in SyncTransfers
                        THEN IF s \in LiveStates THEN LiveSync \cup {t} ELSE LiveSync \ {t}
                        ELSE LiveSync
    BY <1>1, <1>3, <1>4, LiveTypes
  <1> QED BY <1>2, <1>5

\* PendingMatchesSdk is inductive on the typed states.
LEMMA PendingStep == TypeOK /\ PendingMatchesSdk /\ [Next]_vars => PendingMatchesSdk'
  <1> SUFFICES ASSUME TypeOK, PendingMatchesSdk, [Next]_vars PROVE PendingMatchesSdk'
    OBVIOUS
  <1>d. \A d \in Dirs : count.pending[d] \in Uint /\ count.pendingSync \in Uint /\ Cardinality(Live(d)) \in Uint
    BY TagSets, LiveTypes DEF TypeOK, Counts
  <1>e. /\ \A d \in Dirs : count.pending[d] >= Cardinality(Live(d))
        /\ session # "leaving" =>
             /\ \A d \in Dirs : count.pending[d] = Cardinality(Live(d))
             /\ count.pendingSync = Cardinality(LiveSync)
    BY DirType DEF PendingMatchesSdk, LiveSync
  <1>g. ASSUME /\ \A d \in Dirs : (count.pending[d])' = Cardinality(Live(d)')
               /\ (count.pendingSync)' = Cardinality(LiveSync')
        PROVE  PendingMatchesSdk'
    <2>1. \A d \in Dirs : Live(d)' \in SUBSET Tags
      BY DEF Live
    <2>2. \A d \in Dirs : Cardinality(Live(d)') \in Nat
      BY <2>1, TagSets DEF Uint
    <2> QED BY <1>g, <2>2 DEF PendingMatchesSdk, LiveSync
  <1>1. ASSUME NEW t \in Tags, onTransferStart(t) PROVE PendingMatchesSdk'
    <2>1. Notify(t, "QUEUED") /\ "QUEUED" \in LiveStates /\ session = "in" /\ sdk[t] \notin LiveStates
      BY <1>1 DEF onTransferStart, LiveStates
    <2>2. \A d \in Dirs : t \notin Live(d) /\ t \notin LiveSync
      BY <2>1 DEF Live, LiveSync
    <2>3. CASE Counted(t)
      <3>1. count' = AddStarted(count, t)
        BY <1>1, <2>3 DEF onTransferStart
      <3>2. /\ \A d \in Dirs : count'.pending[d] = IF d = Dir(t) THEN Inc(count.pending[d]) ELSE count.pending[d]
            /\ count'.pendingSync = IF t \in SyncTransfers THEN Inc(count.pendingSync) ELSE count.pendingSync
        BY <3>1, DirType DEF AddStarted, TypeOK, Counts
      <3>3. \A d \in Dirs : Cardinality(Live(d) \cup {t}) = Cardinality(Live(d)) + 1 /\ Cardinality(Live(d)) < UintMax
        BY <2>2, CardAdd, LiveTypes
      <3>4. Cardinality(LiveSync \cup {t}) = Cardinality(LiveSync) + 1 /\ Cardinality(LiveSync) < UintMax
        BY <2>2, CardAdd, LiveTypes, DirType
      <3>5. \A d \in Dirs : Live(d)' = IF Dir(t) = d THEN Live(d) \cup {t} ELSE Live(d)
        BY <2>1, <2>3, LiveMoves
      <3>6. LiveSync' = IF t \in SyncTransfers THEN LiveSync \cup {t} ELSE LiveSync
        BY <2>1, LiveMoves
      <3>7. \A d \in Dirs : count'.pending[d] = Cardinality(Live(d)')
        BY <1>d, <1>e, <2>1, <3>2, <3>3, <3>5, UintExact
      <3>8. count'.pendingSync = Cardinality(LiveSync')
        BY <1>d, <1>e, <2>1, <3>2, <3>4, <3>6, UintExact, DirType
      <3> QED BY <1>g, <3>7, <3>8
    <2>4. CASE ~Counted(t)
      BY <1>1, <1>e, <1>g, <2>1, <2>4, LiveMoves, LiveTypes DEF onTransferStart
    <2> QED BY <2>3, <2>4
  <1>2. ASSUME NEW t \in Tags, onTransferUpdate(t) PROVE PendingMatchesSdk'
    <2>1. Notify(t, "ACTIVE") /\ "ACTIVE" \in LiveStates /\ session = "in" /\ sdk[t] \in LiveStates /\ count' = count
      BY <1>2 DEF onTransferUpdate, LiveStates
    <2>2. \A d \in Dirs : Live(d)' = Live(d)
      BY <2>1, LiveMoves DEF Live
    <2>3. LiveSync' = LiveSync
      BY <2>1, LiveMoves, LiveTypes, DirType DEF LiveSync, Live, Dir
    <2> QED BY <1>e, <1>g, <2>1, <2>2, <2>3
  <1>3. ASSUME NEW t \in Tags, NEW s \in EndStates, NEW err \in FinishErrors(t, s),
               onTransferFinish(t, s, err)
        PROVE  PendingMatchesSdk'
    <2>1. Notify(t, s) /\ s \notin LiveStates /\ session = "in" /\ sdk[t] \in LiveStates
      BY <1>3 DEF onTransferFinish, LiveStates, EndStates
    <2>2. /\ Counted(t) => t \in Live(Dir(t))
          /\ t \in SyncTransfers => t \in LiveSync
      BY <2>1, LiveTypes DEF Live, LiveSync, Dir
    <2>3. CASE Counted(t)
      <3>1. count' = FinishCount(count, t, s)
        BY <1>3, <2>3 DEF onTransferFinish
      <3>2. /\ \A d \in Dirs : count'.pending[d] = IF d = Dir(t) THEN Minus(count.pending[d], 1) ELSE count.pending[d]
            /\ count'.pendingSync = IF t \in SyncTransfers THEN Minus(count.pendingSync, 1) ELSE count.pendingSync
        BY <3>1, DirType DEF FinishCount, RemovePending, RemoveTotal, TypeOK, Counts
      <3>3. /\ Cardinality(Live(Dir(t)) \ {t}) = Cardinality(Live(Dir(t))) - 1
            /\ Cardinality(Live(Dir(t))) >= 1
        BY <2>2, <2>3, CardRemove, LiveTypes, DirType
      <3>4. t \in SyncTransfers => /\ Cardinality(LiveSync \ {t}) = Cardinality(LiveSync) - 1
                                   /\ Cardinality(LiveSync) >= 1
        BY <2>2, CardRemove, LiveTypes
      <3>5. \A d \in Dirs : Live(d)' = IF Dir(t) = d THEN Live(d) \ {t} ELSE Live(d)
        BY <2>1, <2>3, LiveMoves
      <3>6. LiveSync' = IF t \in SyncTransfers THEN LiveSync \ {t} ELSE LiveSync
        BY <2>1, LiveMoves
      <3>0. 1 \in Uint
        BY <1>d, <3>3, DirType, BoundsAssumption DEF Uint
      <3>7. \A d \in Dirs : count'.pending[d] = Cardinality(Live(d)')
        BY <1>d, <1>e, <2>1, <3>0, <3>2, <3>3, <3>5, UintExact
      <3>8. count'.pendingSync = Cardinality(LiveSync')
        BY <1>d, <1>e, <2>1, <3>0, <3>2, <3>4, <3>6, UintExact, DirType
      <3> QED BY <1>g, <3>7, <3>8
    <2>4. CASE ~Counted(t)
      BY <1>3, <1>e, <1>g, <2>1, <2>4, LiveMoves, LiveTypes DEF onTransferFinish
    <2> QED BY <2>3, <2>4
  <1>4. ASSUME NEW t \in Tags, onTransferFinishLoggedOut(t) PROVE PendingMatchesSdk'
    <2>1. session' = "leaving" /\ count' = count /\ sdk' = [sdk EXCEPT ![t] = "ABORTED"]
      BY <1>4 DEF onTransferFinishLoggedOut, threadVars
    <2>2. \A d \in Dirs : Live(d)' \in SUBSET Live(d)
      BY <2>1 DEF Live, TypeOK, LiveStates
    <2>3. \A d \in Dirs : Cardinality(Live(d)') <= Cardinality(Live(d)) /\ Cardinality(Live(d)') \in Uint
      BY <2>2, CardDiff, LiveTypes
    <2> QED BY <1>d, <1>e, <2>1, <2>3 DEF PendingMatchesSdk, Uint
  <1>5. CASE Logout
    <2>1. session' = "leaving" /\ UNCHANGED <<count, sdk>>
      BY <1>5 DEF Logout, threadVars
    <2> QED BY <1>e, <2>1 DEF PendingMatchesSdk, Live
  <1>6. CASE Login
    <2>1. session = "out" /\ UNCHANGED <<count, sdk>>
      BY <1>6 DEF Login, threadVars
    <2>2. (\A d \in Dirs : Live(d)' = Live(d)) /\ LiveSync' = LiveSync
      BY <2>1 DEF Live, LiveSync
    <2>3. session # "leaving"
      BY <2>1
    <2>4. /\ \A d \in Dirs : count'.pending[d] = Cardinality(Live(d)')
          /\ count'.pendingSync = Cardinality(LiveSync')
      BY <1>e, <2>1, <2>2, <2>3
    <2> QED BY <1>g, <2>4
  <1>7. ASSUME NEW T \in SUBSET Tags, resetCompleted(T) PROVE PendingMatchesSdk'
    <2>1. count'.pending = count.pending /\ count'.pendingSync = count.pendingSync
      BY <1>7 DEF resetCompleted, ResetCompleted, TypeOK, Counts
    <2>2. UNCHANGED <<sdk, session>>
      BY <1>7 DEF resetCompleted, sdkVars
    <2>3. \A d : Live(d)' = Live(d)
      BY <2>2 DEF Live
    <2> QED BY <2>1, <2>2, <2>3 DEF PendingMatchesSdk
  <1>8. CASE clear
    <2>1. \A t \in Tags : sdk'[t] \notin LiveStates
      BY <1>8 DEF clear, LiveStates
    <2>2. (\A d \in Dirs : Live(d)' = {}) /\ LiveSync' = {}
      BY <2>1 DEF Live, LiveSync
    <2>3. (\A d \in Dirs : count'.pending[d] = 0) /\ count'.pendingSync = 0
      BY <1>8 DEF clear, NoCount
    <2>4. Cardinality({}) = 0
      BY FS_EmptySet
    <2>5. /\ \A d \in Dirs : count'.pending[d] = Cardinality(Live(d)')
          /\ count'.pendingSync = Cardinality(LiveSync')
      BY <2>2, <2>3, <2>4
    <2> QED BY <1>g, <2>5
  <1>9. ASSUME UNCHANGED <<sdk, session, count>> PROVE PendingMatchesSdk'
    BY <1>9 DEF PendingMatchesSdk, Live
  <1> QED
    BY <1>1, <1>2, <1>3, <1>4, <1>5, <1>6, <1>7, <1>8, <1>9
    DEF Next, SdkNext, GuiNext, cacheSection, processTransfers, Consume,
        vars, sdkVars, threadVars, guiVars

LEMMA PendingInit == Init => PendingMatchesSdk
  <1> SUFFICES ASSUME Init PROVE PendingMatchesSdk
    OBVIOUS
  <1>1. \A d : Live(d) = {}
    BY DEF Init, Live, LiveStates
  <1>2. \A d \in Dirs : count.pending[d] = 0 /\ count.pendingSync = 0
    BY DEF Init, NoCount
  <1> QED BY <1>1, <1>2, FS_EmptySet, DirType DEF PendingMatchesSdk

\* The pending counters are the number of transfers under way, for any number of
\* transfers, logouts and clears, and never wrap below zero.
THEOREM PendingInvariant == Spec => []PendingMatchesSdk
  BY InitType, StepType, PendingInit, PendingStep, PTL DEF Spec
-----------------------------------------------------------------------------
(* The summary counters *)

\* The transfers of direction d the SDK has ever started.
Seen(d) == {t \in Tags : Dir(t) = d /\ sdk[t] # "NONE"}

\* The summary is never behind the counters on what is pending; it remembers by tag only
\* transfers that ended, and has room for every transfer that has not started.
SummaryInv ==
  /\ \A d \in Dirs :
       /\ last.total[d] = last.pending[d] + Cardinality(OfDir(last.byTag, d))
       /\ last.pending[d] >= count.pending[d]
       /\ last.pending[d] + Cardinality(OfDir(last.byTag, d)) <= Cardinality(Seen(d))
  /\ \A t \in last.byTag : sdk[t] \notin {"NONE"} \cup LiveStates

LEMMA SummaryTypes ==
  ASSUME TypeOK, NEW d \in Dirs
  PROVE  /\ OfDir(last.byTag, d) \in SUBSET Tags /\ Seen(d) \in SUBSET Tags
         /\ Cardinality(OfDir(last.byTag, d)) \in Uint /\ Cardinality(Seen(d)) \in Uint
         /\ last.total[d] \in Uint /\ last.pending[d] \in Uint /\ count.pending[d] \in Uint
  <1>1. OfDir(last.byTag, d) \in SUBSET Tags /\ Seen(d) \in SUBSET Tags
    BY DEF OfDir, Seen, TypeOK, LastCounts
  <1> QED BY <1>1, TagSets DEF TypeOK, LastCounts, Counts

LEMMA SummaryStep ==
  TypeOK /\ PendingMatchesSdk /\ SummaryInv /\ [Next]_vars => SummaryInv'
  <1> SUFFICES ASSUME TypeOK, PendingMatchesSdk, SummaryInv, [Next]_vars PROVE SummaryInv'
    OBVIOUS
  <1>t. \A d \in Dirs :
          /\ OfDir(last.byTag, d) \in SUBSET Tags /\ Seen(d) \in SUBSET Tags
          /\ Cardinality(OfDir(last.byTag, d)) \in Uint /\ Cardinality(Seen(d)) \in Uint
          /\ last.total[d] \in Uint /\ last.pending[d] \in Uint /\ count.pending[d] \in Uint
    BY SummaryTypes
  <1>i. /\ \A d \in Dirs :
            /\ last.total[d] = last.pending[d] + Cardinality(OfDir(last.byTag, d))
            /\ last.pending[d] >= count.pending[d]
            /\ last.pending[d] + Cardinality(OfDir(last.byTag, d)) <= Cardinality(Seen(d))
        /\ \A t \in last.byTag : sdk[t] \notin {"NONE"} \cup LiveStates
    BY DEF SummaryInv
  <1>1. ASSUME NEW t \in Tags, onTransferStart(t) PROVE SummaryInv'
    <2>1. /\ sdk' = [sdk EXCEPT ![t] = "QUEUED"] /\ sdk[t] = "NONE" /\ sdk \in [Tags -> SdkStates]
          /\ t \notin last.byTag
      BY <1>1, <1>i DEF onTransferStart, Notify, TypeOK
    <2>2. \A d \in Dirs : Seen(d)' = IF d = Dir(t) THEN Seen(d) \cup {t} ELSE Seen(d)
      BY <2>1 DEF Seen
    <2>3. \A d \in Dirs : t \notin Seen(d)
      BY <2>1 DEF Seen
    <2>4. \A d \in Dirs : /\ Cardinality(Seen(d) \cup {t}) = Cardinality(Seen(d)) + 1
                          /\ Cardinality(Seen(d)) < UintMax
      BY <1>t, <2>3, CardAdd
    <2>5. \A u \in last.byTag : sdk'[u] \notin {"NONE"} \cup LiveStates
      BY <1>i, <2>1 DEF TypeOK, LastCounts
    <2>6. CASE Counted(t)
      <3>1. last' = AddStarted(last, t) /\ count' = AddStarted(count, t)
        BY <1>1, <2>6 DEF onTransferStart
      <3>2. /\ \A d \in Dirs : last'.pending[d] = IF d = Dir(t) THEN Inc(last.pending[d]) ELSE last.pending[d]
            /\ \A d \in Dirs : last'.total[d] = IF d = Dir(t) THEN Inc(last.total[d]) ELSE last.total[d]
            /\ last'.byTag = last.byTag
        BY <3>1, DirType DEF AddStarted, TypeOK, LastCounts
      <3>3. \A d \in Dirs : count'.pending[d] = IF d = Dir(t) THEN Inc(count.pending[d]) ELSE count.pending[d]
        BY <3>1, DirType DEF AddStarted, TypeOK, Counts
      <3>4. ASSUME NEW d \in Dirs
            PROVE  /\ last'.total[d] = last'.pending[d] + Cardinality(OfDir(last'.byTag, d))
                   /\ last'.pending[d] >= count'.pending[d]
                   /\ last'.pending[d] + Cardinality(OfDir(last'.byTag, d)) <= Cardinality(Seen(d)')
        <4>1. /\ last.total[d] \in Nat /\ last.pending[d] \in Nat /\ count.pending[d] \in Nat
              /\ Cardinality(OfDir(last.byTag, d)) \in Nat /\ Cardinality(Seen(d)) \in Nat
          BY <1>t DEF Uint
        <4>2. last.total[d] < UintMax /\ last.pending[d] < UintMax /\ count.pending[d] < UintMax
          <5>1. /\ last.total[d] = last.pending[d] + Cardinality(OfDir(last.byTag, d))
                /\ last.pending[d] >= count.pending[d]
                /\ last.pending[d] + Cardinality(OfDir(last.byTag, d)) <= Cardinality(Seen(d))
            BY <1>i
          <5>2. Cardinality(Seen(d)) < UintMax /\ UintMax \in Nat
            BY <2>4, BoundsAssumption
          <5> QED BY <4>1, <5>1, <5>2
        <4>3. /\ Inc(last.total[d]) = last.total[d] + 1 /\ Inc(last.pending[d]) = last.pending[d] + 1
              /\ Inc(count.pending[d]) = count.pending[d] + 1
          BY <1>t, <4>2, UintExact
        <4>4. Cardinality(Seen(d)') = IF d = Dir(t) THEN Cardinality(Seen(d)) + 1 ELSE Cardinality(Seen(d))
          BY <2>2, <2>4
        <4> QED BY <1>i, <3>2, <3>3, <4>1, <4>3, <4>4
      <3> QED BY <2>5, <3>2, <3>4 DEF SummaryInv
    <2>7. CASE ~Counted(t)
      <3>1. last' = last /\ count' = count
        BY <1>1, <2>7 DEF onTransferStart
      <3>2. \A d \in Dirs : Cardinality(Seen(d)) <= Cardinality(Seen(d)') /\ Cardinality(Seen(d)') \in Nat
        BY <1>t, <2>2, <2>4 DEF Uint
      <3>3. \A d \in Dirs : last.pending[d] + Cardinality(OfDir(last.byTag, d)) <= Cardinality(Seen(d)')
        BY <1>t, <1>i, <3>2 DEF Uint
      <3> QED BY <1>i, <2>5, <3>1, <3>3 DEF SummaryInv
    <2> QED BY <2>6, <2>7
  <1>2. ASSUME UNCHANGED <<count, last>>,
               \A d \in Dirs : Seen(d)' = Seen(d),
               \A t \in last.byTag : sdk'[t] \notin {"NONE"} \cup LiveStates
        PROVE  SummaryInv'
    BY <1>2 DEF SummaryInv
  <1>3. ASSUME NEW t \in Tags, onTransferUpdate(t) PROVE SummaryInv'
    <2>1. sdk' = [sdk EXCEPT ![t] = "ACTIVE"] /\ sdk[t] \in LiveStates /\ UNCHANGED <<count, last>>
      BY <1>3 DEF onTransferUpdate, Notify
    <2>2. \A d \in Dirs : Seen(d)' = Seen(d)
      BY <2>1 DEF Seen, TypeOK, LiveStates
    <2>3. \A u \in last.byTag : sdk'[u] \notin {"NONE"} \cup LiveStates
      BY <1>i, <2>1 DEF TypeOK, LastCounts
    <2> QED BY <1>2, <2>1, <2>2, <2>3
  <1>4. ASSUME NEW t \in Tags, NEW s \in EndStates, NEW err \in FinishErrors(t, s),
               onTransferFinish(t, s, err)
        PROVE  SummaryInv'
    <2>1. /\ sdk' = [sdk EXCEPT ![t] = s] /\ sdk[t] \in LiveStates /\ t \notin last.byTag
          /\ session # "leaving" /\ s \notin {"NONE"} \cup LiveStates
      BY <1>4, <1>i DEF onTransferFinish, Notify, EndStates, LiveStates
    <2>2. \A d \in Dirs : Seen(d)' = Seen(d)
      BY <2>1 DEF Seen, TypeOK, LiveStates
    <2>3. \A u \in last.byTag \cup {t} : sdk'[u] \notin {"NONE"} \cup LiveStates
      BY <1>i, <2>1 DEF TypeOK, LastCounts
    <2>4. CASE ~Counted(t)
      BY <1>2, <1>4, <2>2, <2>3, <2>4 DEF onTransferFinish
    <2>5. CASE Counted(t)
      <3>1. count' = FinishCount(count, t, s)
        BY <1>4, <2>5 DEF onTransferFinish
      <3>2. \A d \in Dirs : count'.pending[d] = IF d = Dir(t) THEN Minus(count.pending[d], 1) ELSE count.pending[d]
        BY <3>1, DirType DEF FinishCount, RemovePending, RemoveTotal, TypeOK, Counts
      <3>3. count.pending[Dir(t)] >= 1
        <4>1. t \in Live(Dir(t))
          BY <2>1, <2>5 DEF Live
        <4>2. Cardinality(Live(Dir(t))) >= 1
          BY <4>1, CardRemove, LiveTypes, DirType
        <4> QED BY <2>1, <4>2, DirType DEF PendingMatchesSdk
      <3>4. 1 \in Uint
        BY <1>t, <3>3, DirType, BoundsAssumption DEF Uint
      <3>5. \A d \in Dirs : count'.pending[d] = IF d = Dir(t) THEN count.pending[d] - 1 ELSE count.pending[d]
        BY <1>t, <3>2, <3>3, <3>4, UintExact
      <3>6. \A d \in Dirs : count'.pending[d] \in Nat
        BY <1>t, <3>3, <3>5 DEF Uint
      <3>7. CASE pendingTransfers(count') = 0
        <4>1. last' = NoLastCount
          BY <1>4, <2>5, <3>7 DEF onTransferFinish
        <4>2. \A d \in Dirs : count'.pending[d] = 0
          BY <3>6, <3>7, DirType DEF pendingTransfers
        <4>3. \A d \in Dirs : /\ last'.pending[d] = 0 /\ last'.total[d] = 0
                              /\ OfDir(last'.byTag, d) = {} /\ last'.byTag = {}
          BY <4>1 DEF NoLastCount, OfDir
        <4>4. Cardinality({}) = 0
          BY FS_EmptySet
        <4>5. \A d \in Dirs : Cardinality(Seen(d)') \in Nat
          BY <1>t, <2>2 DEF Uint
        <4>6. \A u \in last'.byTag : sdk'[u] \notin {"NONE"} \cup LiveStates
          BY <4>3, DirType
        <4>7. \A d \in Dirs :
                /\ last'.total[d] = last'.pending[d] + Cardinality(OfDir(last'.byTag, d))
                /\ last'.pending[d] >= count'.pending[d]
                /\ last'.pending[d] + Cardinality(OfDir(last'.byTag, d)) <= Cardinality(Seen(d)')
          BY <4>2, <4>3, <4>4, <4>5
        <4> QED BY <4>6, <4>7 DEF SummaryInv
      <3>8. CASE pendingTransfers(count') # 0
        <4>1. last' = FinishLast(last, t, s)
          BY <1>4, <2>5, <3>8 DEF onTransferFinish
        <4>2. /\ \A d \in Dirs : last'.pending[d] = IF d = Dir(t) THEN Minus(last.pending[d], 1) ELSE last.pending[d]
              /\ \A d \in Dirs : last'.total[d] = IF d = Dir(t) /\ Forgotten(t, s)
                                                 THEN Minus(last.total[d], 1) ELSE last.total[d]
              /\ last'.byTag = IF Forgotten(t, s) THEN last.byTag ELSE last.byTag \cup {t}
          BY <4>1, DirType DEF FinishLast, RemovePending, RemoveTotal, TypeOK, LastCounts
        <4>3. ASSUME NEW d \in Dirs
              PROVE  /\ last'.total[d] = last'.pending[d] + Cardinality(OfDir(last'.byTag, d))
                     /\ last'.pending[d] >= count'.pending[d]
                     /\ last'.pending[d] + Cardinality(OfDir(last'.byTag, d)) <= Cardinality(Seen(d)')
          <5>1. /\ last.total[d] \in Nat /\ last.pending[d] \in Nat /\ count.pending[d] \in Nat
                /\ Cardinality(OfDir(last.byTag, d)) \in Nat /\ Cardinality(Seen(d)) \in Nat
            BY <1>t DEF Uint
          <5>2. d = Dir(t) => last.pending[d] >= 1 /\ last.total[d] >= 1
            BY <1>i, <3>3, <5>1
          <5>3. d = Dir(t) => Minus(last.pending[d], 1) = last.pending[d] - 1
                              /\ Minus(last.total[d], 1) = last.total[d] - 1
            BY <1>t, <3>4, <5>2, UintExact
          <5>4. Cardinality(OfDir(last'.byTag, d)) = IF d = Dir(t) /\ ~Forgotten(t, s)
                                                     THEN Cardinality(OfDir(last.byTag, d)) + 1
                                                     ELSE Cardinality(OfDir(last.byTag, d))
            <6>1. CASE d = Dir(t) /\ ~Forgotten(t, s)
              <7>1. OfDir(last'.byTag, d) = OfDir(last.byTag, d) \cup {t} /\ t \notin OfDir(last.byTag, d)
                BY <2>1, <4>2, <6>1 DEF OfDir
              <7> QED BY <1>t, <6>1, <7>1, CardAdd
            <6>2. CASE ~(d = Dir(t) /\ ~Forgotten(t, s))
              <7>1. OfDir(last'.byTag, d) = OfDir(last.byTag, d)
                BY <4>2, <6>2 DEF OfDir
              <7> QED BY <6>2, <7>1
            <6> QED BY <6>1, <6>2
          <5> QED BY <1>i, <2>2, <3>5, <4>2, <5>1, <5>2, <5>3, <5>4
        <4>4. \A u \in last'.byTag : sdk'[u] \notin {"NONE"} \cup LiveStates
          BY <2>3, <4>2
        <4> QED BY <4>3, <4>4 DEF SummaryInv
      <3> QED BY <3>7, <3>8
    <2> QED BY <2>4, <2>5
  <1>5. ASSUME NEW t \in Tags, onTransferFinishLoggedOut(t) PROVE SummaryInv'
    <2>1. sdk' = [sdk EXCEPT ![t] = "ABORTED"] /\ sdk[t] \in LiveStates /\ UNCHANGED <<count, last>>
      BY <1>5 DEF onTransferFinishLoggedOut, threadVars
    <2>2. \A d \in Dirs : Seen(d)' = Seen(d)
      BY <2>1 DEF Seen, TypeOK, LiveStates
    <2>3. \A u \in last.byTag : sdk'[u] \notin {"NONE"} \cup LiveStates
      BY <1>i, <2>1 DEF TypeOK, LastCounts
    <2> QED BY <1>2, <2>1, <2>2, <2>3
  <1>6. ASSUME NEW T \in SUBSET Tags, resetCompleted(T) PROVE SummaryInv'
    <2> DEFINE known == T \cap last.byTag
    <2>1. /\ \A d \in Dirs : last'.total[d] = Minus(last.total[d], Cardinality(OfDir(known, d)))
          /\ last'.pending = last.pending
          /\ last'.byTag = last.byTag \ known
      BY <1>6 DEF resetCompleted, ResetCompleted, Remembered, TypeOK, LastCounts
    <2>2. count'.pending = count.pending /\ sdk' = sdk
      BY <1>6 DEF resetCompleted, ResetCompleted, TypeOK, Counts, sdkVars
    <2>3. ASSUME NEW d \in Dirs
          PROVE  /\ last'.total[d] = last'.pending[d] + Cardinality(OfDir(last'.byTag, d))
                 /\ last'.pending[d] >= count'.pending[d]
                 /\ last'.pending[d] + Cardinality(OfDir(last'.byTag, d)) <= Cardinality(Seen(d)')
      <3>1. OfDir(last'.byTag, d) = OfDir(last.byTag, d) \ OfDir(known, d)
        BY <2>1 DEF OfDir
      <3>2. OfDir(known, d) \in SUBSET OfDir(last.byTag, d)
        BY DEF OfDir
      <3> HIDE DEF known
      <3>3. /\ Cardinality(OfDir(last'.byTag, d)) = Cardinality(OfDir(last.byTag, d)) - Cardinality(OfDir(known, d))
            /\ Cardinality(OfDir(known, d)) \in Uint
            /\ Cardinality(OfDir(known, d)) <= Cardinality(OfDir(last.byTag, d))
        BY <1>t, <3>1, <3>2, CardDiff
      <3>4. /\ last.total[d] \in Nat /\ last.pending[d] \in Nat /\ count.pending[d] \in Nat
            /\ Cardinality(OfDir(last.byTag, d)) \in Nat /\ Cardinality(Seen(d)) \in Nat
            /\ Cardinality(OfDir(known, d)) \in Nat
        BY <1>t, <3>3 DEF Uint
      <3>5. Cardinality(OfDir(known, d)) <= last.total[d]
        BY <1>i, <3>3, <3>4
      <3>6. last'.total[d] = last.total[d] - Cardinality(OfDir(known, d))
        BY <1>t, <2>1, <3>3, <3>5, UintExact
      <3>7. Seen(d)' = Seen(d)
        BY <2>2 DEF Seen
      <3> QED BY <1>i, <2>1, <2>2, <3>3, <3>4, <3>6, <3>7
    <2>4. \A u \in last'.byTag : sdk'[u] \notin {"NONE"} \cup LiveStates
      BY <1>i, <2>1, <2>2
    <2> QED BY <2>3, <2>4 DEF SummaryInv
  <1>7. CASE clear
    <2>1. /\ last' = last /\ \A d \in Dirs : count'.pending[d] = 0
          /\ \A t \in Tags : sdk'[t] = IF sdk[t] = "NONE" THEN "NONE" ELSE "ABORTED"
      BY <1>7 DEF clear, NoCount
    <2>2. \A d \in Dirs : Seen(d)' = Seen(d)
      BY <2>1 DEF Seen
    <2>3. \A u \in last.byTag : sdk'[u] \notin {"NONE"} \cup LiveStates
      BY <1>i, <2>1 DEF TypeOK, LastCounts, LiveStates
    <2>4. \A d \in Dirs : last.pending[d] >= 0
      BY <1>t DEF Uint
    <2>5. \A d \in Dirs :
            /\ last'.total[d] = last'.pending[d] + Cardinality(OfDir(last'.byTag, d))
            /\ last'.pending[d] >= count'.pending[d]
            /\ last'.pending[d] + Cardinality(OfDir(last'.byTag, d)) <= Cardinality(Seen(d)')
      BY <1>i, <2>1, <2>2, <2>4
    <2> QED BY <2>1, <2>3, <2>5 DEF SummaryInv
  <1>8. ASSUME UNCHANGED <<sdk, count, last>> PROVE SummaryInv'
    BY <1>8 DEF SummaryInv, Seen
  <1> QED
    BY <1>1, <1>3, <1>4, <1>5, <1>6, <1>7, <1>8
    DEF Next, SdkNext, GuiNext, cacheSection, Logout, Login, processTransfers, Consume,
        vars, sdkVars, threadVars, guiVars

LEMMA SummaryInit == Init => SummaryInv
  <1> SUFFICES ASSUME Init PROVE SummaryInv
    OBVIOUS
  <1>1. \A d \in Dirs : /\ last.total[d] = 0 /\ last.pending[d] = 0 /\ count.pending[d] = 0
                        /\ OfDir(last.byTag, d) = {} /\ last.byTag = {} /\ Seen(d) = {}
    BY DEF Init, NoLastCount, NoCount, OfDir, Seen
  <1>2. Cardinality({}) = 0
    BY FS_EmptySet
  <1>3. \A t \in last.byTag : FALSE
    BY <1>1, DirType
  <1>4. ASSUME NEW d \in Dirs
        PROVE  /\ last.total[d] = last.pending[d] + Cardinality(OfDir(last.byTag, d))
               /\ last.pending[d] >= count.pending[d]
               /\ last.pending[d] + Cardinality(OfDir(last.byTag, d)) <= Cardinality(Seen(d))
    BY <1>1, <1>2
  <1> QED BY <1>3, <1>4 DEF SummaryInv

LEMMA SummaryInvariant == Spec => [](TypeOK /\ SummaryInv)
  BY InitType, StepType, PendingInit, PendingStep, SummaryInit, SummaryStep, PTL DEF Spec
-----------------------------------------------------------------------------
(* What the GUI believes about the end of a transfer *)

\* A datum about the end of a file transfer says how it ended, and whether it failed.
DataTrue(t, y) ==
  y.state \in EndStates =>
    /\ y.failed = (y.state # "COMPLETED")
    /\ t \in cleared \/ sdk[t] = y.state

\* Every datum about a file transfer, wherever it is, is true; only transfers that ended
\* are cleared.
TruthInv ==
  /\ CacheInv
  /\ \A t \in Tags \ FolderTransfers :
       /\ DataTrue(t, delivered[t])
       /\ \A m \in Maps : DataTrue(t, cache[m][t])
       /\ handler # Idle /\ handler.tag = t => DataTrue(t, handler.data)
  /\ \A t \in cleared : sdk[t] \in {"COMPLETED", "FAILED", "ABORTED"}

LEMMA EmptyIsTrue == \A t : DataTrue(t, Empty)
  BY DEF DataTrue, Empty, EndStates

LEMMA TruthInit == Init => TruthInv
  BY CacheInvInit, EmptyIsTrue DEF Init, TruthInv, NoTransfers

\* A notification about a transfer that had not ended.
LEMMA NotifyTruth ==
  ASSUME TruthInv, CacheInv', NEW t \in Tags, NEW s \in LiveStates \cup EndStates, Notify(t, s),
         sdk[t] \in {"NONE"} \cup LiveStates, handler = Idle,
         \/ handler' = Idle
         \/ /\ handler'.tag = t /\ handler'.data.state = s
            /\ t \notin FolderTransfers /\ s \in EndStates => handler'.data.failed = (s # "COMPLETED"),
         UNCHANGED <<cache, delivered, cleared>>
  PROVE  TruthInv'
  <1>1. sdk' = [sdk EXCEPT ![t] = s] /\ sdk \in [Tags -> SdkStates]
    BY DEF Notify, TruthInv, CacheInv, TypeOK
  <1>2. t \notin cleared
    BY DEF TruthInv, LiveStates
  <1>3. sdk[t] \notin EndStates
    BY DEF LiveStates, EndStates
  <1>4. ASSUME NEW u \in Tags \ FolderTransfers, NEW y, DataTrue(u, y)
        PROVE  DataTrue(u, y)'
    BY <1>1, <1>2, <1>3, <1>4 DEF DataTrue
  <1>5. \A u \in Tags \ FolderTransfers :
          /\ DataTrue(u, delivered[u])'
          /\ \A m \in Maps : DataTrue(u, cache[m][u])'
    BY <1>4 DEF TruthInv, DataTrue
  <1>6. handler' # Idle /\ t \notin FolderTransfers => DataTrue(t, handler.data)'
    BY <1>1 DEF DataTrue
  <1>7. \A u \in cleared : sdk'[u] \in {"COMPLETED", "FAILED", "ABORTED"}
    BY <1>1, <1>2 DEF TruthInv, CacheInv, TypeOK
  <1> QED BY <1>5, <1>6, <1>7 DEF TruthInv

LEMMA TruthStep == TruthInv /\ [Next]_vars => TruthInv'
  <1> SUFFICES ASSUME TruthInv, [Next]_vars PROVE TruthInv'
    OBVIOUS
  <1>0. CacheInv /\ CacheInv' /\ TypeOK
    BY CacheInvStep DEF TruthInv, CacheInv
  <1>1. ASSUME NEW t \in Tags, onTransferStart(t) PROVE TruthInv'
    <2>1. "QUEUED" \in LiveStates /\ "QUEUED" \notin EndStates
      BY DEF LiveStates, EndStates
    <2> QED BY <1>0, <1>1, <2>1, NotifyTruth DEF onTransferStart, Callback, guiVars
  <1>2. ASSUME NEW t \in Tags, onTransferUpdate(t) PROVE TruthInv'
    <2>1. "ACTIVE" \in LiveStates /\ "ACTIVE" \notin EndStates
      BY DEF LiveStates, EndStates
    <2> QED BY <1>0, <1>2, <2>1, NotifyTruth DEF onTransferUpdate, Callback, guiVars
  <1>3. ASSUME NEW t \in Tags, NEW s \in EndStates, NEW err \in FinishErrors(t, s),
               onTransferFinish(t, s, err)
        PROVE  TruthInv'
    <2>1. t \notin FolderTransfers => err = (s # "COMPLETED")
      BY DEF FinishErrors
    <2>2. t \notin FolderTransfers => (s = "FAILED" \/ err) = (s # "COMPLETED")
      BY <2>1
    <2> QED BY <1>0, <1>3, <2>2, NotifyTruth DEF onTransferFinish, Callback, guiVars
  <1>4. ASSUME NEW t \in Tags, onTransferFinishLoggedOut(t) PROVE TruthInv'
    <2>1. /\ sdk' = [sdk EXCEPT ![t] = "ABORTED"] /\ sdk[t] \in LiveStates /\ sdk \in [Tags -> SdkStates]
          /\ UNCHANGED <<handler, cache, delivered, cleared>>
      BY <1>0, <1>4 DEF onTransferFinishLoggedOut, threadVars, guiVars, TypeOK
    <2>2. sdk[t] \notin EndStates /\ t \notin cleared
      BY <2>1 DEF LiveStates, EndStates, TruthInv
    <2>3. \A u \in Tags : \A y : DataTrue(u, y) => DataTrue(u, y)'
      BY <2>1, <2>2 DEF DataTrue
    <2>4. \A u \in cleared : sdk'[u] \in {"COMPLETED", "FAILED", "ABORTED"}
      BY <1>0, <2>1, <2>2 DEF TruthInv, TypeOK
    <2>5. \A u \in Tags \ FolderTransfers :
            /\ DataTrue(u, delivered[u])'
            /\ \A m \in Maps : DataTrue(u, cache[m][u])'
            /\ handler # Idle /\ handler.tag = u => DataTrue(u, handler.data)'
      BY <2>1, <2>3 DEF TruthInv, DataTrue
    <2> QED BY <1>0, <2>1, <2>4, <2>5 DEF TruthInv
  <1>5. CASE cacheSection
    <2>t. PICK t \in Tags : t = handler.tag
      BY <1>0, <1>5 DEF cacheSection, TypeOK, Callbacks
    <2> DEFINE x == handler.data
               event == handler.event
    <2>1. x \in Data /\ handler # Idle /\ handler' = Idle /\ UNCHANGED <<sdk, delivered, cleared>>
      BY <1>0, <1>5 DEF cacheSection, TypeOK, Callbacks, sdkVars, guiVars
    <2>2. cache' = CacheEvent(cache, event, t, x)
      BY <1>5, <2>t DEF cacheSection
    <2>3. x.nn = nn[t] /\ \A m \in Maps : cache[m][t].nn < x.nn
      BY <1>0, <2>1, <2>t DEF CacheInv, CacheOrder
    <2>4. t \notin FolderTransfers => DataTrue(t, x)
      BY <2>1, <2>t DEF TruthInv
    <2> HIDE DEF x, event
    <2>5. PICK m0 \in Maps, y \in {x, Inserted(t, x), Empty} :
            /\ OthersKept(cache, cache', t) /\ OnlyIn(cache', t, m0, y)
            /\ Placed(cache, event, t, x, m0, y)
      BY <1>0, <2>1, <2>2, <2>3, CacheEventColumn DEF CacheInv, OneHolder, TypeOK, Caches
    <2>6. t \notin FolderTransfers => y \in {x, Empty}
      BY <2>5 DEF Inserted
    <2>7. ASSUME NEW u \in Tags \ FolderTransfers, NEW m \in Maps
          PROVE  DataTrue(u, cache'[m][u])
      <3>1. CASE u = t
        BY <2>4, <2>5, <2>6, <2>7, <3>1, EmptyIsTrue DEF OnlyIn
      <3>2. CASE u # t
        BY <2>5, <2>7, <3>2 DEF OthersKept, TruthInv
      <3> QED BY <3>1, <3>2
    <2> QED BY <1>0, <2>1, <2>7 DEF TruthInv, DataTrue
  <1>6. CASE processTransfers
    <2>1. UNCHANGED <<sdk, handler, cleared>>
      BY <1>6 DEF processTransfers, sdkVars
    <2>2. ASSUME NEW u \in Tags \ FolderTransfers
          PROVE  DataTrue(u, delivered'[u]) /\ \A m \in Maps : DataTrue(u, cache'[m][u])
      <3>1. \/ /\ delivered'[u] = delivered[u]
               /\ \A m \in Maps : cache'[m][u] = cache[m][u]
            \/ \E m \in Maps :
                 /\ Has(cache, m, u)
                 /\ delivered'[u] = cache[m][u]
                 /\ \A k \in Maps : cache'[k][u] = Empty
        BY <1>0, <1>6, ExtractionMoves DEF CacheInv, TypeOK, Caches
      <3>2. DataTrue(u, delivered[u]) /\ \A m \in Maps : DataTrue(u, cache[m][u])
        BY DEF TruthInv
      <3> QED BY <3>1, <3>2, EmptyIsTrue
    <2> QED BY <1>0, <2>1, <2>2 DEF TruthInv, DataTrue
  <1>7. ASSUME NEW T \in SUBSET Tags, resetCompleted(T) PROVE TruthInv'
    <2>1. /\ T \subseteq Clearable /\ cleared' = cleared \cup T
          /\ UNCHANGED <<sdk, handler, cache, delivered>>
      BY <1>7 DEF resetCompleted, sdkVars
    <2>2. \A t \in T : sdk[t] \in {"COMPLETED", "FAILED"}
      <3> SUFFICES ASSUME NEW t \in T PROVE sdk[t] \in {"COMPLETED", "FAILED"}
        OBVIOUS
      <3>1. t \in Tags \ FolderTransfers /\ t \notin cleared /\ delivered[t].state \in {"COMPLETED", "FAILED"}
        BY <2>1 DEF Clearable
      <3> QED BY <3>1 DEF TruthInv, DataTrue, EndStates
    <2> QED BY <1>0, <2>1, <2>2 DEF TruthInv, DataTrue
  <1>8. CASE clear
    <2>1. /\ handler = Idle /\ handler' = Idle /\ delivered' = delivered
          /\ \A t \in Tags : sdk'[t] = IF sdk[t] = "NONE" THEN "NONE" ELSE "ABORTED"
          /\ cleared' = {t \in Tags : sdk[t] # "NONE"}
      BY <1>8 DEF clear
    <2>2. \A m \in Maps, t \in Tags : cache'[m][t] = Empty
      BY <1>8 DEF clear, NoTransfers
    <2>3. ASSUME NEW u \in Tags \ FolderTransfers PROVE DataTrue(u, delivered[u])'
      <3>1. delivered[u].state \in EndStates => u \in cleared'
        BY <2>1 DEF TruthInv, DataTrue, EndStates
      <3> QED BY <2>1, <3>1 DEF TruthInv, DataTrue
    <2>4. \A t \in cleared' : sdk'[t] \in {"COMPLETED", "FAILED", "ABORTED"}
      BY <2>1
    <2>5. \A u \in Tags, m \in Maps : DataTrue(u, cache[m][u])'
      BY <2>2 DEF DataTrue, Empty, EndStates
    <2> QED BY <1>0, <2>1, <2>3, <2>4, <2>5 DEF TruthInv
  <1>9. ASSUME UNCHANGED <<sdk, handler, cache, delivered, cleared>> PROVE TruthInv'
    BY <1>0, <1>9 DEF TruthInv, DataTrue
  <1> QED
    BY <1>1, <1>2, <1>3, <1>4, <1>5, <1>6, <1>7, <1>8, <1>9
    DEF Next, SdkNext, GuiNext, Logout, Login, Consume, vars, sdkVars, threadVars, guiVars
-----------------------------------------------------------------------------
(* Totals and failures *)

\* No row was cleared whose transfer is not in the totals.
Clean == \A t \in cleared : sdk[t] # "ABORTED" => Counted(t) /\ ~Forgotten(t, sdk[t])

DoneFailed(d) == {t \in Done(d) : sdk[t] = "FAILED"}

\* The total counts what is pending and what is done, and failed counts failures.
Balanced(d) ==
  /\ count.total[d] = count.pending[d] + Cardinality(Done(d))
  /\ count.failed[d] = Cardinality(DoneFailed(d))

CountInv == TruthInv /\ PendingMatchesSdk /\ (Clean => \A d \in Dirs : Balanced(d))

LEMMA DoneTypes ==
  ASSUME NEW d \in Dirs
  PROVE  /\ Done(d) \in SUBSET Tags /\ DoneFailed(d) \in SUBSET Done(d)
         /\ Cardinality(Done(d)) \in Uint /\ Cardinality(DoneFailed(d)) \in Uint
         /\ Cardinality(DoneFailed(d)) <= Cardinality(Done(d))
  <1>1. Done(d) \in SUBSET Tags /\ DoneFailed(d) \in SUBSET Done(d)
    BY DEF Done, DoneFailed
  <1> QED BY <1>1, CardDiff

LEMMA CountTypes ==
  ASSUME TypeOK, NEW d \in Dirs
  PROVE  count.total[d] \in Uint /\ count.pending[d] \in Uint /\ count.failed[d] \in Uint
  BY DEF TypeOK, Counts

\* What a notification about a transfer that had not ended does to Done.
LEMMA DoneMoves ==
  ASSUME TruthInv, NEW t \in Tags, NEW s \in LiveStates \cup EndStates, Notify(t, s),
         sdk[t] \in {"NONE"} \cup LiveStates, cleared' = cleared
  PROVE  /\ \A d \in Dirs : t \notin Done(d)
         /\ \A d \in Dirs :
              LET ends == Counted(t) /\ Dir(t) = d /\ s \in {"COMPLETED", "FAILED"} /\ ~Forgotten(t, s)
              IN /\ Done(d)' = IF ends THEN Done(d) \cup {t} ELSE Done(d)
                 /\ DoneFailed(d)' = IF ends /\ s = "FAILED" THEN DoneFailed(d) \cup {t} ELSE DoneFailed(d)
         /\ Clean' => Clean
  <1>1. sdk' = [sdk EXCEPT ![t] = s] /\ sdk \in [Tags -> SdkStates]
    BY DEF Notify, TruthInv, CacheInv, TypeOK
  <1>2. t \notin cleared /\ \A d \in Dirs : t \notin Done(d)
    BY DEF TruthInv, LiveStates, Done
  <1>3. \A u \in Tags : sdk'[u] = IF u = t THEN s ELSE sdk[u]
    BY <1>1
  <1>4. cleared \subseteq Tags
    BY DEF TruthInv, CacheInv, TypeOK
  <1>5. Clean' => Clean
    BY <1>2, <1>3, <1>4 DEF Clean
  <1>6. ASSUME NEW d \in Dirs
        PROVE  LET ends == Counted(t) /\ Dir(t) = d /\ s \in {"COMPLETED", "FAILED"} /\ ~Forgotten(t, s)
               IN /\ Done(d)' = IF ends THEN Done(d) \cup {t} ELSE Done(d)
                  /\ DoneFailed(d)' = IF ends /\ s = "FAILED" THEN DoneFailed(d) \cup {t} ELSE DoneFailed(d)
    <2> DEFINE ends == Counted(t) /\ Dir(t) = d /\ s \in {"COMPLETED", "FAILED"} /\ ~Forgotten(t, s)
    <2>1. Done(d)' = IF ends THEN Done(d) \cup {t} ELSE Done(d)
      BY <1>2, <1>3 DEF Done
    <2>2. \A u : u \in DoneFailed(d)' <=> u \in Done(d)' /\ sdk'[u] = "FAILED"
      BY DEF DoneFailed
    <2>3. \A u : u \in DoneFailed(d) <=> u \in Done(d) /\ sdk[u] = "FAILED"
      BY DEF DoneFailed
    <2>4. Done(d) \subseteq Tags
      BY DoneTypes
    <2>5. \A u : u \in DoneFailed(d)' <=>
                 u \in IF ends /\ s = "FAILED" THEN DoneFailed(d) \cup {t} ELSE DoneFailed(d)
      BY <1>2, <1>3, <2>1, <2>2, <2>3, <2>4
    <2> QED BY <2>1, <2>5
  <1> QED BY <1>2, <1>5, <1>6

LEMMA CountStep == CountInv /\ [Next]_vars => CountInv'
  <1> SUFFICES ASSUME CountInv, [Next]_vars PROVE CountInv'
    OBVIOUS
  <1>0. TruthInv /\ TruthInv' /\ PendingMatchesSdk /\ PendingMatchesSdk' /\ TypeOK /\ CacheInv
    BY TruthStep, PendingStep DEF CountInv, TruthInv, CacheInv
  <1>u. ASSUME UNCHANGED <<count, sdk, cleared>> PROVE CountInv'
    BY <1>0, <1>u DEF CountInv, Clean, Balanced, Done, DoneFailed
  <1>s. SUFFICES ASSUME Clean', ~UNCHANGED <<count, sdk, cleared>>
                 PROVE  \A d \in Dirs : Balanced(d)'
    BY <1>0, <1>u DEF CountInv
  <1>t. \A d \in Dirs : /\ count.total[d] \in Nat /\ count.pending[d] \in Nat /\ count.failed[d] \in Nat
                        /\ Cardinality(Done(d)) \in Nat /\ Cardinality(DoneFailed(d)) \in Nat
    BY <1>0, CountTypes, DoneTypes DEF Uint
  <1>1. ASSUME NEW t \in Tags, onTransferStart(t) PROVE \A d \in Dirs : Balanced(d)'
    <2>1. /\ Notify(t, "QUEUED") /\ "QUEUED" \in LiveStates /\ sdk[t] = "NONE" /\ cleared' = cleared
          /\ session # "leaving"
      BY <1>1 DEF onTransferStart, LiveStates, guiVars
    <2>2. Clean /\ \A d \in Dirs : Done(d)' = Done(d) /\ DoneFailed(d)' = DoneFailed(d) /\ t \notin Done(d)
      BY <1>0, <1>s, <2>1, DoneMoves
    <2>3. CASE ~Counted(t)
      BY <1>1, <2>2, <2>3 DEF onTransferStart, CountInv, Balanced
    <2>4. CASE Counted(t)
      <3>1. count' = AddStarted(count, t)
        BY <1>1, <2>4 DEF onTransferStart
      <3>2. /\ \A d \in Dirs : count'.pending[d] = IF d = Dir(t) THEN Inc(count.pending[d]) ELSE count.pending[d]
            /\ \A d \in Dirs : count'.total[d] = IF d = Dir(t) THEN Inc(count.total[d]) ELSE count.total[d]
            /\ count'.failed = count.failed
        BY <1>0, <3>1, DirType DEF AddStarted, TypeOK, Counts
      <3>3. ASSUME NEW d \in Dirs PROVE Balanced(d)'
        <4>1. Live(d) \cap Done(d) = {} /\ t \notin Live(d) \cup Done(d)
          BY <2>1, <2>2 DEF Live, Done, LiveStates
        <4>2. Live(d) \in SUBSET Tags /\ Done(d) \in SUBSET Tags
          BY LiveTypes, DoneTypes
        <4>3. /\ Cardinality(Live(d) \cup Done(d)) = Cardinality(Live(d)) + Cardinality(Done(d))
              /\ Cardinality(Live(d) \cup Done(d)) < UintMax
          BY <4>1, <4>2, CardDisjoint, CardAdd
        <4>4. count.pending[d] = Cardinality(Live(d)) /\ count.total[d] = count.pending[d] + Cardinality(Done(d))
          BY <1>0, <2>1, <2>2 DEF PendingMatchesSdk, CountInv, Balanced
        <4>5. count.total[d] < UintMax /\ count.pending[d] < UintMax
          BY <1>t, <4>3, <4>4, BoundsAssumption
        <4>6. Inc(count.total[d]) = count.total[d] + 1 /\ Inc(count.pending[d]) = count.pending[d] + 1
          BY <1>0, <4>5, CountTypes, UintExact
        <4>7. count'.total[d] = count'.pending[d] + Cardinality(Done(d))
          BY <1>t, <3>2, <4>4, <4>6
        <4>8. count'.failed[d] = Cardinality(DoneFailed(d))
          BY <2>2, <3>2 DEF CountInv, Balanced
        <4> QED BY <2>2, <4>7, <4>8 DEF Balanced
      <3> QED BY <3>3
    <2> QED BY <2>3, <2>4
  <1>2. ASSUME NEW t \in Tags, onTransferUpdate(t) PROVE \A d \in Dirs : Balanced(d)'
    <2>1. /\ Notify(t, "ACTIVE") /\ "ACTIVE" \in LiveStates /\ sdk[t] \in LiveStates
          /\ cleared' = cleared /\ count' = count
      BY <1>2 DEF onTransferUpdate, LiveStates, guiVars
    <2>2. "ACTIVE" \notin {"COMPLETED", "FAILED"}
      OBVIOUS
    <2>3. Clean /\ \A d \in Dirs : Done(d)' = Done(d) /\ DoneFailed(d)' = DoneFailed(d)
      BY <1>0, <1>s, <2>1, <2>2, DoneMoves
    <2> QED BY <2>1, <2>3 DEF CountInv, Balanced
  <1>3. ASSUME NEW t \in Tags, NEW s \in EndStates, NEW err \in FinishErrors(t, s),
               onTransferFinish(t, s, err)
        PROVE  \A d \in Dirs : Balanced(d)'
    <2>1. Notify(t, s) /\ sdk[t] \in LiveStates /\ cleared' = cleared /\ session # "leaving"
      BY <1>3 DEF onTransferFinish, guiVars
    <2>2. /\ Clean
          /\ \A d \in Dirs : t \notin Done(d)
          /\ \A d \in Dirs :
               LET ends == Counted(t) /\ Dir(t) = d /\ s \in {"COMPLETED", "FAILED"} /\ ~Forgotten(t, s)
               IN /\ Done(d)' = IF ends THEN Done(d) \cup {t} ELSE Done(d)
                  /\ DoneFailed(d)' = IF ends /\ s = "FAILED" THEN DoneFailed(d) \cup {t} ELSE DoneFailed(d)
      BY <1>0, <1>s, <2>1, DoneMoves
    <2>3. CASE ~Counted(t)
      BY <1>3, <2>2, <2>3 DEF onTransferFinish, CountInv, Balanced
    <2>4. CASE Counted(t)
      <3>1. count' = FinishCount(count, t, s)
        BY <1>3, <2>4 DEF onTransferFinish
      <3>2. /\ \A d \in Dirs : count'.pending[d] = IF d = Dir(t) THEN Minus(count.pending[d], 1) ELSE count.pending[d]
            /\ \A d \in Dirs : count'.total[d] = IF d = Dir(t) /\ Forgotten(t, s)
                                                 THEN Minus(count.total[d], 1) ELSE count.total[d]
            /\ \A d \in Dirs : count'.failed[d] = IF d = Dir(t) /\ ~Forgotten(t, s) /\ s = "FAILED"
                                                  THEN Inc(count.failed[d]) ELSE count.failed[d]
        BY <1>0, <3>1, DirType DEF FinishCount, RemovePending, RemoveTotal, TypeOK, Counts
      <3>3. count.pending[Dir(t)] >= 1
        <4>1. t \in Live(Dir(t))
          BY <2>1, <2>4 DEF Live
        <4>2. Cardinality(Live(Dir(t))) >= 1
          BY <4>1, CardRemove, LiveTypes, DirType
        <4> QED BY <1>0, <2>1, <4>2, DirType DEF PendingMatchesSdk
      <3>4. ASSUME NEW d \in Dirs PROVE Balanced(d)'
        <4>1. /\ count.total[d] = count.pending[d] + Cardinality(Done(d))
              /\ count.failed[d] = Cardinality(DoneFailed(d))
          BY <2>2 DEF CountInv, Balanced
        <4>2. CASE d # Dir(t)
          <5>1. Done(d)' = Done(d) /\ DoneFailed(d)' = DoneFailed(d)
            BY <2>2, <4>2
          <5> QED BY <3>2, <4>1, <4>2, <5>1 DEF Balanced
        <4>3. CASE d = Dir(t)
          <5>1. count.pending[d] >= 1 /\ count.total[d] >= 1
            BY <1>t, <3>3, <4>1, <4>3
          <5>2. 1 \in Uint
            BY <1>0, <5>1, CountTypes, BoundsAssumption DEF Uint
          <5>3. Minus(count.pending[d], 1) = count.pending[d] - 1 /\ Minus(count.total[d], 1) = count.total[d] - 1
            BY <1>0, <5>1, <5>2, CountTypes, UintExact
          <5>4. /\ Cardinality(Done(d) \cup {t}) = Cardinality(Done(d)) + 1
                /\ Cardinality(DoneFailed(d) \cup {t}) = Cardinality(DoneFailed(d)) + 1
                /\ Cardinality(DoneFailed(d)) < UintMax
            <6>1. Done(d) \in SUBSET Tags /\ DoneFailed(d) \in SUBSET Tags
                  /\ t \notin Done(d) /\ t \notin DoneFailed(d)
              BY <2>2, DoneTypes
            <6> QED BY <6>1, CardAdd
          <5>5. Inc(count.failed[d]) = count.failed[d] + 1
            BY <1>0, <4>1, <5>4, CountTypes, UintExact
          <5>6. CASE Forgotten(t, s)
            <6>1. Done(d)' = Done(d) /\ DoneFailed(d)' = DoneFailed(d)
              BY <2>2, <5>6
            <6> QED BY <1>t, <3>2, <4>1, <4>3, <5>3, <5>6, <6>1 DEF Balanced
          <5>7. CASE ~Forgotten(t, s)
            <6>1. s \in {"COMPLETED", "FAILED"}
              BY <5>7 DEF EndStates, Forgotten
            <6>2. Done(d)' = Done(d) \cup {t}
              BY <2>2, <2>4, <4>3, <5>7, <6>1
            <6>3. DoneFailed(d)' = IF s = "FAILED" THEN DoneFailed(d) \cup {t} ELSE DoneFailed(d)
              BY <2>2, <2>4, <4>3, <5>7, <6>1
            <6>4. count'.total[d] = count'.pending[d] + Cardinality(Done(d)')
              BY <1>t, <3>2, <4>1, <4>3, <5>3, <5>4, <5>7, <6>2
            <6>5. count'.failed[d] = Cardinality(DoneFailed(d)')
              BY <1>t, <3>2, <4>1, <4>3, <5>4, <5>5, <5>7, <6>3
            <6> QED BY <6>4, <6>5 DEF Balanced
          <5> QED BY <5>6, <5>7
        <4> QED BY <4>2, <4>3
      <3> QED BY <3>4
    <2> QED BY <2>3, <2>4
  <1>4. ASSUME NEW t \in Tags, onTransferFinishLoggedOut(t) PROVE \A d \in Dirs : Balanced(d)'
    <2>1. /\ sdk' = [sdk EXCEPT ![t] = "ABORTED"] /\ sdk[t] \in LiveStates
          /\ cleared' = cleared /\ count' = count
      BY <1>4 DEF onTransferFinishLoggedOut, threadVars, guiVars
    <2>2. sdk \in [Tags -> SdkStates] /\ t \notin cleared /\ cleared \subseteq Tags
      BY <1>0, <2>1 DEF TypeOK, TruthInv, LiveStates
    <2>3. Clean
      BY <1>s, <2>1, <2>2 DEF Clean
    <2>4. \A d \in Dirs : Done(d)' = Done(d)
      BY <2>1, <2>2 DEF Done, LiveStates
    <2>5. \A d \in Dirs : DoneFailed(d)' = DoneFailed(d)
      BY <2>1, <2>2, <2>4, DoneTypes DEF DoneFailed, Done, LiveStates
    <2> QED BY <2>1, <2>3, <2>4, <2>5 DEF CountInv, Balanced
  <1>5. ASSUME NEW T \in SUBSET Tags, resetCompleted(T) PROVE \A d \in Dirs : Balanced(d)'
    <2> DEFINE F == {t \in T : delivered[t].failed}
               keep == F \ SyncTransfers
    <2>1. T \subseteq Clearable /\ cleared' = cleared \cup T /\ UNCHANGED sdk
      BY <1>5 DEF resetCompleted, sdkVars
    <2>2. Clean /\ \A d \in Dirs : Balanced(d)
      BY <1>s, <2>1 DEF Clean, CountInv
    <2>3. ASSUME NEW t \in T
          PROVE  /\ t \in Tags /\ t \notin cleared /\ Counted(t) /\ ~Forgotten(t, sdk[t])
                 /\ sdk[t] \in {"COMPLETED", "FAILED"}
                 /\ (sdk[t] = "FAILED") <=> t \in keep
      <3>1. t \in Tags \ FolderTransfers /\ t \notin cleared /\ delivered[t].state \in {"COMPLETED", "FAILED"}
        BY <2>1 DEF Clearable
      <3>2. sdk[t] = delivered[t].state /\ delivered[t].failed = (sdk[t] # "COMPLETED")
        BY <1>0, <3>1 DEF TruthInv, DataTrue, EndStates
      <3>3. Counted(t) /\ ~Forgotten(t, sdk[t])
        BY <1>s, <2>1, <3>1, <3>2 DEF Clean
      <3>4. (sdk[t] = "FAILED") <=> t \in keep
        BY <3>1, <3>2, <3>3 DEF Forgotten
      <3> QED BY <3>1, <3>2, <3>3, <3>4
    <2>4. PICK P \in SUBSET T :
            /\ \A d \in Dirs :
                 \/ OfDir(P, d) = OfDir(T, d) /\ Cardinality(OfDir(T, d)) <= count.total[d]
                 \/ /\ Cardinality(OfDir(T, d)) > count.total[d]
                    /\ Cardinality(OfDir(P, d)) = count.total[d]
            /\ count' = [count EXCEPT
                 !.total = [d \in Dirs |-> @[d] - Cardinality(OfDir(P, d))],
                 !.failed = [d \in Dirs |-> Minus(@[d], Cardinality(OfDir(P \cap keep, d)))]]
      BY <1>5 DEF resetCompleted, ResetCompleted
    <2> HIDE DEF keep
    <2>5. /\ \A d \in Dirs : count'.total[d] = count.total[d] - Cardinality(OfDir(P, d))
          /\ \A d \in Dirs : count'.failed[d] = Minus(count.failed[d], Cardinality(OfDir(P \cap keep, d)))
          /\ count'.pending = count.pending
      BY <1>0, <2>4 DEF TypeOK, Counts
    <2>6. ASSUME NEW d \in Dirs PROVE Balanced(d)'
      <3>1. OfDir(T, d) \in SUBSET Done(d)
        BY <2>3 DEF OfDir, Done
      <3>2. Cardinality(OfDir(T, d)) <= Cardinality(Done(d)) /\ Cardinality(OfDir(T, d)) \in Nat
        <4>1. Done(d) \in SUBSET Tags
          BY DoneTypes
        <4>2. Cardinality(OfDir(T, d)) <= Cardinality(Done(d)) /\ Cardinality(OfDir(T, d)) \in Uint
          BY <3>1, <4>1, CardDiff
        <4> QED BY <4>2 DEF Uint
      <3>3. count.total[d] = count.pending[d] + Cardinality(Done(d)) /\ count.failed[d] = Cardinality(DoneFailed(d))
        BY <2>2 DEF Balanced
      <3>4. OfDir(P, d) = OfDir(T, d)
        BY <1>t, <2>4, <3>2, <3>3
      <3>5. Done(d)' = Done(d) \ OfDir(T, d)
        BY <2>1, <2>3 DEF Done, OfDir
      <3>6. Cardinality(Done(d)') = Cardinality(Done(d)) - Cardinality(OfDir(T, d))
        BY <3>1, <3>5, CardDiff, DoneTypes
      <3>7. OfDir(P \cap keep, d) \in SUBSET DoneFailed(d)
        BY <2>3, <3>1, <3>4 DEF OfDir, DoneFailed
      <3>8. DoneFailed(d)' = DoneFailed(d) \ OfDir(P \cap keep, d)
        <4>1. \A u : u \in DoneFailed(d)' <=> u \in Done(d)' /\ sdk[u] = "FAILED"
          BY <2>1 DEF DoneFailed
        <4>2. \A u : u \in DoneFailed(d) <=> u \in Done(d) /\ sdk[u] = "FAILED"
          BY DEF DoneFailed
        <4>3. \A u : u \in OfDir(P \cap keep, d) <=> u \in OfDir(T, d) /\ u \in keep
          BY <3>4 DEF OfDir
        <4>4. \A u : u \in OfDir(T, d) => (u \in keep <=> sdk[u] = "FAILED")
          BY <2>3 DEF OfDir
        <4>5. \A u : u \in DoneFailed(d)' <=> u \in DoneFailed(d) \ OfDir(P \cap keep, d)
          BY <3>5, <4>1, <4>2, <4>3, <4>4
        <4> QED BY <4>5
      <3>9. /\ Cardinality(DoneFailed(d)') = Cardinality(DoneFailed(d)) - Cardinality(OfDir(P \cap keep, d))
            /\ Cardinality(OfDir(P \cap keep, d)) <= Cardinality(DoneFailed(d))
            /\ Cardinality(OfDir(P \cap keep, d)) \in Uint
        <4>1. DoneFailed(d) \in SUBSET Tags
          BY DoneTypes
        <4> QED BY <3>7, <3>8, <4>1, CardDiff
      <3>10. count'.failed[d] = count.failed[d] - Cardinality(OfDir(P \cap keep, d))
        BY <1>0, <2>5, <3>3, <3>9, CountTypes, UintExact
      <3>11. count'.failed[d] = Cardinality(DoneFailed(d)')
        BY <3>3, <3>9, <3>10
      <3>12. count'.total[d] = count'.pending[d] + Cardinality(Done(d)')
        BY <1>t, <2>5, <3>2, <3>3, <3>4, <3>6
      <3> QED BY <3>11, <3>12 DEF Balanced
    <2> QED BY <2>6
  <1>6. CASE clear
    <2>1. /\ \A d \in Dirs : count'.total[d] = 0 /\ count'.pending[d] = 0 /\ count'.failed[d] = 0
          /\ \A t \in Tags : sdk'[t] \notin {"COMPLETED", "FAILED"}
      BY <1>6 DEF clear, NoCount
    <2>2. \A d \in Dirs : Done(d)' = {}
      BY <2>1 DEF Done
    <2>3. \A d \in Dirs : DoneFailed(d)' = {}
      BY <2>2 DEF DoneFailed
    <2>4. Cardinality({}) = 0
      BY FS_EmptySet
    <2> QED BY <2>1, <2>2, <2>3, <2>4 DEF Balanced
  <1> QED
    BY <1>s, <1>1, <1>2, <1>3, <1>4, <1>5, <1>6
    DEF Next, SdkNext, GuiNext, cacheSection, Logout, Login, processTransfers, Consume,
        vars, sdkVars, threadVars, guiVars

LEMMA CountInit == Init => CountInv
  <1> SUFFICES ASSUME Init PROVE CountInv
    OBVIOUS
  <1>1. \A d \in Dirs : count.total[d] = 0 /\ count.pending[d] = 0 /\ count.failed[d] = 0
    BY DEF Init, NoCount
  <1>2. \A d \in Dirs : Done(d) = {} /\ DoneFailed(d) = {}
    BY DEF Init, Done, DoneFailed
  <1>3. Cardinality({}) = 0
    BY FS_EmptySet
  <1>4. \A d \in Dirs : Balanced(d)
    BY <1>1, <1>2, <1>3 DEF Balanced
  <1> QED BY <1>4, TruthInit, PendingInit DEF CountInv

\* The number of completed transfers, a difference of three unsigned counters kept by
\* three functions on two threads, is the true one as long as no row was cleared whose
\* transfer is not in the totals: it neither drifts nor wraps.
THEOREM CompletedCount == Spec => []CompletedCountIsTrue
  <1>1. CountInv => CompletedCountIsTrue
    <2> SUFFICES ASSUME CountInv, Clean, NEW d \in Dirs
                 PROVE  Minus(Minus(count.total[d], count.pending[d]), count.failed[d])
                          = Cardinality({t \in Done(d) : sdk[t] = "COMPLETED"})
      BY DEF CompletedCountIsTrue, UncountedWasCleared, Clean
    <2>1. /\ count.total[d] = count.pending[d] + Cardinality(Done(d))
          /\ count.failed[d] = Cardinality(DoneFailed(d))
      BY DEF CountInv, Balanced
    <2>2. count.total[d] \in Uint /\ count.pending[d] \in Uint /\ count.failed[d] \in Uint
      BY CountTypes DEF CountInv, TruthInv, CacheInv
    <2>3. {t \in Done(d) : sdk[t] = "COMPLETED"} = Done(d) \ DoneFailed(d)
      BY DEF Done, DoneFailed
    <2>4. Cardinality(Done(d) \ DoneFailed(d)) = Cardinality(Done(d)) - Cardinality(DoneFailed(d))
      BY DoneTypes, CardDiff
    <2>5. /\ Cardinality(Done(d)) \in Uint /\ Cardinality(DoneFailed(d)) \in Uint
          /\ Cardinality(DoneFailed(d)) <= Cardinality(Done(d))
      BY DoneTypes
    <2>6. count.pending[d] <= count.total[d] /\ count.total[d] - count.pending[d] = Cardinality(Done(d))
      BY <2>1, <2>2, <2>5 DEF Uint
    <2>7. Minus(count.total[d], count.pending[d]) = Cardinality(Done(d))
      BY <2>2, <2>6, UintExact
    <2>8. Minus(Cardinality(Done(d)), Cardinality(DoneFailed(d))) = Cardinality(Done(d)) - Cardinality(DoneFailed(d))
      BY <2>5, UintExact
    <2> QED BY <2>1, <2>3, <2>4, <2>7, <2>8
  <1> QED BY <1>1, CountInit, CountStep, PTL DEF Spec
-----------------------------------------------------------------------------
(* The summary and the SDK *)

SeenSync == {t \in SyncTransfers : sdk[t] # "NONE"}

\* Every counter has room for what the SDK has started.
RoomInv ==
  /\ \A d \in Dirs : count.pending[d] + Cardinality(Done(d)) <= Cardinality(Seen(d))
  /\ count.pendingSync <= last.pendingSync
  /\ last.pendingSync <= Cardinality(SeenSync)

\* Until a session is left the summary is up to date.
FreshInv ==
  ~LeftSession =>
    /\ \A d \in Dirs : last.pending[d] = count.pending[d]
    /\ \A d \in Dirs : OfDir(last.byTag, d) \subseteq Done(d)
    /\ ~FailedWasCleared => \A d \in Dirs : last.failed[d] = 0

AccountInv == CountInv /\ SummaryInv /\ RoomInv /\ FreshInv

LEMMA RoomTypes ==
  ASSUME TypeOK
  PROVE  /\ \A d \in Dirs : /\ Seen(d) \in SUBSET Tags /\ Cardinality(Seen(d)) \in Nat
                            /\ Done(d) \in SUBSET Tags /\ Cardinality(Done(d)) \in Nat
                            /\ OfDir(last.byTag, d) \in SUBSET Tags
                            /\ count.pending[d] \in Uint /\ last.pending[d] \in Uint
         /\ SeenSync \in SUBSET Tags /\ Cardinality(SeenSync) \in Nat
         /\ count.pendingSync \in Uint /\ last.pendingSync \in Uint
  <1>1. SeenSync \in SUBSET Tags
    BY LiveTypes DEF SeenSync
  <1>2. count.pendingSync \in Uint /\ last.pendingSync \in Uint
    BY DEF TypeOK, Counts, LastCounts
  <1>3. Cardinality(SeenSync) \in Nat
    BY <1>1, TagSets DEF Uint
  <1>4. ASSUME NEW d \in Dirs
        PROVE  /\ Seen(d) \in SUBSET Tags /\ Cardinality(Seen(d)) \in Nat
               /\ Done(d) \in SUBSET Tags /\ Cardinality(Done(d)) \in Nat
               /\ OfDir(last.byTag, d) \in SUBSET Tags
               /\ count.pending[d] \in Uint /\ last.pending[d] \in Uint
    BY SummaryTypes, DoneTypes DEF Uint
  <1> QED BY <1>1, <1>2, <1>3, <1>4

LEMMA AccountInit == Init => AccountInv
  <1> SUFFICES ASSUME Init PROVE AccountInv
    OBVIOUS
  <1>1. /\ last.byTag = {} /\ count.pendingSync = 0 /\ last.pendingSync = 0
        /\ \A d \in Dirs : last.pending[d] = 0 /\ count.pending[d] = 0 /\ last.failed[d] = 0
    BY DEF Init, NoLastCount, NoCount
  <1>2. \A d \in Dirs : OfDir(last.byTag, d) = {} /\ Done(d) = {} /\ Seen(d) = {}
    BY <1>1 DEF Init, OfDir, Done, Seen
  <1>3. SeenSync = {}
    BY LiveTypes DEF Init, SeenSync
  <1>4. Cardinality({}) = 0
    BY FS_EmptySet
  <1>5. RoomInv
    BY <1>1, <1>2, <1>3, <1>4 DEF RoomInv
  <1>6. FreshInv
    BY <1>1, <1>2 DEF FreshInv
  <1> QED BY <1>5, <1>6, CountInit, SummaryInit DEF AccountInv

\* A step that leaves the counters alone and of the SDK's states changes none that matter.
LEMMA AccountKeeps ==
  ASSUME AccountInv, CountInv', SummaryInv', UNCHANGED <<count, last>>,
         \A d \in Dirs : Seen(d)' = Seen(d) /\ Done(d)' = Done(d),
         SeenSync' = SeenSync,
         LeftSession' \/ (~LeftSession /\ (FailedWasCleared => FailedWasCleared'))
  PROVE  AccountInv'
  BY DEF AccountInv, RoomInv, FreshInv

\* What a notification about a transfer that had not ended does to the histories.
LEMMA NotifyHistory ==
  ASSUME TruthInv, NEW t \in Tags, NEW s \in LiveStates \cup EndStates, Notify(t, s),
         sdk[t] \in {"NONE"} \cup LiveStates, cleared' = cleared
  PROVE  /\ LeftSession' <=> LeftSession
         /\ FailedWasCleared' <=> FailedWasCleared
         /\ \A d \in Dirs : Seen(d)' = IF Dir(t) = d THEN Seen(d) \cup {t} ELSE Seen(d)
         /\ SeenSync' = IF t \in SyncTransfers THEN SeenSync \cup {t} ELSE SeenSync
  <1>1. \A u \in Tags : sdk'[u] = IF u = t THEN s ELSE sdk[u]
    BY DEF Notify, TruthInv, CacheInv, TypeOK
  <1>2. t \notin cleared /\ cleared \subseteq Tags
    BY DEF TruthInv, CacheInv, TypeOK, LiveStates
  <1>3. s \notin {"NONE", "ABORTED"} /\ sdk[t] # "ABORTED"
    BY DEF LiveStates, EndStates
  <1>4. LeftSession' <=> LeftSession
    BY <1>1, <1>3 DEF LeftSession
  <1>5. FailedWasCleared' <=> FailedWasCleared
    BY <1>1, <1>2 DEF FailedWasCleared
  <1>6. \A d \in Dirs : Seen(d)' = IF Dir(t) = d THEN Seen(d) \cup {t} ELSE Seen(d)
    BY <1>1, <1>3 DEF Seen
  <1>7. \A u : u \in SeenSync' <=> u \in IF t \in SyncTransfers THEN SeenSync \cup {t} ELSE SeenSync
    BY <1>1, <1>3, LiveTypes DEF SeenSync
  <1> QED BY <1>4, <1>5, <1>6, <1>7

LEMMA AccountStart ==
  ASSUME AccountInv, CountInv', SummaryInv', NEW t \in Tags, onTransferStart(t)
  PROVE  AccountInv'
  <1>0. TruthInv /\ TypeOK /\ RoomInv /\ FreshInv /\ SummaryInv
    BY DEF AccountInv, CountInv, TruthInv, CacheInv
  <1>1. /\ Notify(t, "QUEUED") /\ "QUEUED" \in LiveStates \cup EndStates /\ sdk[t] = "NONE"
        /\ cleared' = cleared
    BY DEF onTransferStart, LiveStates, guiVars
  <1>2. /\ LeftSession' <=> LeftSession
        /\ FailedWasCleared' <=> FailedWasCleared
        /\ \A d \in Dirs : Seen(d)' = IF Dir(t) = d THEN Seen(d) \cup {t} ELSE Seen(d)
        /\ SeenSync' = IF t \in SyncTransfers THEN SeenSync \cup {t} ELSE SeenSync
    BY <1>0, <1>1, NotifyHistory
  <1>3. \A d \in Dirs : Done(d)' = Done(d)
    BY <1>0, <1>1, DoneMoves
  <1>4. t \notin SeenSync /\ \A d \in Dirs : t \notin Seen(d)
    BY <1>1 DEF SeenSync, Seen
  <1>5. /\ \A d \in Dirs : /\ Cardinality(Seen(d) \cup {t}) = Cardinality(Seen(d)) + 1
                          /\ Cardinality(Seen(d)) < UintMax
        /\ Cardinality(SeenSync \cup {t}) = Cardinality(SeenSync) + 1
        /\ Cardinality(SeenSync) < UintMax
    BY <1>0, <1>4, RoomTypes, CardAdd
  <1>6. /\ \A d \in Dirs : count.pending[d] + Cardinality(Done(d)) <= Cardinality(Seen(d))
        /\ count.pendingSync <= last.pendingSync
        /\ last.pendingSync <= Cardinality(SeenSync)
        /\ \A d \in Dirs : last.pending[d] + Cardinality(OfDir(last.byTag, d)) <= Cardinality(Seen(d))
    BY <1>0 DEF RoomInv, SummaryInv
  <1>n. /\ \A d \in Dirs : /\ count.pending[d] \in Nat /\ last.pending[d] \in Nat
                          /\ Cardinality(Done(d)) \in Nat /\ Cardinality(Seen(d)) \in Nat
                          /\ Cardinality(OfDir(last.byTag, d)) \in Nat
        /\ count.pendingSync \in Nat /\ last.pendingSync \in Nat /\ Cardinality(SeenSync) \in Nat
    BY <1>0, RoomTypes, TagSets DEF Uint
  <1>7. CASE ~Counted(t)
    <2>1. t \notin SyncTransfers
      BY <1>7, LiveTypes
    <2>2. count' = count /\ last' = last
      BY <1>7 DEF onTransferStart
    <2>3. RoomInv'
      BY <1>2, <1>3, <1>5, <1>6, <1>n, <2>1, <2>2 DEF RoomInv
    <2>4. FreshInv'
      BY <1>0, <1>2, <1>3, <2>2 DEF FreshInv
    <2> QED BY <2>3, <2>4 DEF AccountInv
  <1>8. CASE Counted(t)
    <2>1. count' = AddStarted(count, t) /\ last' = AddStarted(last, t)
      BY <1>8 DEF onTransferStart
    <2>2. /\ \A d \in Dirs : count'.pending[d] = IF d = Dir(t) THEN Inc(count.pending[d]) ELSE count.pending[d]
          /\ count'.pendingSync = IF t \in SyncTransfers THEN Inc(count.pendingSync) ELSE count.pendingSync
      BY <1>0, <2>1, DirType DEF AddStarted, TypeOK, Counts
    <2>3. /\ \A d \in Dirs : last'.pending[d] = IF d = Dir(t) THEN Inc(last.pending[d]) ELSE last.pending[d]
          /\ last'.pendingSync = IF t \in SyncTransfers THEN Inc(last.pendingSync) ELSE last.pendingSync
          /\ last'.byTag = last.byTag /\ last'.failed = last.failed
      BY <1>0, <2>1, DirType DEF AddStarted, TypeOK, LastCounts
    <2>4. /\ \A d \in Dirs : count.pending[d] < UintMax
          /\ count.pendingSync < UintMax /\ last.pendingSync < UintMax
      <3>1. UintMax \in Nat
        BY BoundsAssumption
      <3>2. ASSUME NEW d \in Dirs PROVE count.pending[d] < UintMax
        <4>1. count.pending[d] + Cardinality(Done(d)) <= Cardinality(Seen(d))
          BY <1>6
        <4>2. Cardinality(Seen(d)) < UintMax
          BY <1>5
        <4>3. count.pending[d] \in Nat /\ Cardinality(Done(d)) \in Nat /\ Cardinality(Seen(d)) \in Nat
          BY <1>n
        <4> QED BY <3>1, <4>1, <4>2, <4>3
      <3>3. count.pendingSync < UintMax /\ last.pendingSync < UintMax
        <4>1. count.pendingSync <= last.pendingSync /\ last.pendingSync <= Cardinality(SeenSync)
          BY <1>6
        <4>2. Cardinality(SeenSync) < UintMax
          BY <1>5
        <4>3. count.pendingSync \in Nat /\ last.pendingSync \in Nat /\ Cardinality(SeenSync) \in Nat
          BY <1>n
        <4> QED BY <3>1, <4>1, <4>2, <4>3
      <3> QED BY <3>2, <3>3
    <2>5. /\ \A d \in Dirs : Inc(count.pending[d]) = count.pending[d] + 1
          /\ Inc(count.pendingSync) = count.pendingSync + 1 /\ Inc(last.pendingSync) = last.pendingSync + 1
      BY <1>0, <2>4, RoomTypes, UintExact
    <2>6. ASSUME NEW d \in Dirs
          PROVE  (count.pending[d])' + Cardinality(Done(d)') <= Cardinality(Seen(d)')
      BY <1>2, <1>3, <1>5, <1>6, <1>n, <2>2, <2>5
    <2>7. /\ count'.pendingSync <= last'.pendingSync
          /\ last'.pendingSync <= Cardinality(SeenSync')
      BY <1>2, <1>5, <1>6, <1>n, <2>2, <2>3, <2>5
    <2>8. RoomInv'
      BY <2>6, <2>7 DEF RoomInv
    <2>9. FreshInv'
      <3> SUFFICES ASSUME ~LeftSession
                   PROVE  /\ \A d \in Dirs : last'.pending[d] = count'.pending[d]
                          /\ \A d \in Dirs : OfDir(last'.byTag, d) \subseteq Done(d)'
                          /\ ~FailedWasCleared => \A d \in Dirs : last'.failed[d] = 0
        BY <1>2 DEF FreshInv
      <3> QED BY <1>0, <1>3, <2>2, <2>3 DEF FreshInv
    <2> QED BY <2>8, <2>9 DEF AccountInv
  <1> QED BY <1>7, <1>8

\* The end of a transfer: both pending counters go down, and what the summary remembers
\* by tag has just been done.
LEMMA AccountFinish ==
  ASSUME AccountInv, CountInv', SummaryInv', NEW t \in Tags, NEW s \in EndStates,
         NEW err \in FinishErrors(t, s), onTransferFinish(t, s, err)
  PROVE  AccountInv'
  <1>0. /\ TruthInv /\ TypeOK /\ RoomInv /\ FreshInv /\ SummaryInv
        /\ PendingMatchesSdk /\ PendingMatchesSdk'
    BY DEF AccountInv, CountInv, TruthInv, CacheInv
  <1>1. /\ Notify(t, s) /\ s \in LiveStates \cup EndStates /\ sdk[t] \in LiveStates
        /\ cleared' = cleared /\ session # "leaving" /\ session' = session
    BY DEF onTransferFinish, Notify, guiVars
  <1>2. /\ LeftSession' <=> LeftSession
        /\ FailedWasCleared' <=> FailedWasCleared
        /\ \A d \in Dirs : Seen(d)' = IF Dir(t) = d THEN Seen(d) \cup {t} ELSE Seen(d)
        /\ SeenSync' = IF t \in SyncTransfers THEN SeenSync \cup {t} ELSE SeenSync
    BY <1>0, <1>1, NotifyHistory
  <1>3. /\ \A d \in Dirs : Seen(d)' = Seen(d)
        /\ SeenSync' = SeenSync
    <2>1. sdk[t] # "NONE"
      BY <1>1 DEF LiveStates
    <2>2. t \in Seen(Dir(t)) /\ (t \in SyncTransfers => t \in SeenSync)
      BY <2>1 DEF Seen, SeenSync
    <2>3. ASSUME NEW d \in Dirs PROVE Seen(d)' = Seen(d)
      <3>1. CASE Dir(t) = d
        BY <1>2, <2>2, <3>1
      <3>2. CASE Dir(t) # d
        BY <1>2, <3>2
      <3> QED BY <3>1, <3>2
    <2> QED BY <1>2, <2>2, <2>3
  <1>4. /\ \A d \in Dirs : t \notin Done(d)
        /\ \A d \in Dirs :
             Done(d)' = IF Counted(t) /\ Dir(t) = d /\ s \in {"COMPLETED", "FAILED"} /\ ~Forgotten(t, s)
                        THEN Done(d) \cup {t} ELSE Done(d)
    BY <1>0, <1>1, DoneMoves
  <1>6. /\ \A d \in Dirs : count.pending[d] + Cardinality(Done(d)) <= Cardinality(Seen(d))
        /\ count.pendingSync <= last.pendingSync
        /\ last.pendingSync <= Cardinality(SeenSync)
        /\ \A d \in Dirs : last.pending[d] >= count.pending[d]
    BY <1>0 DEF RoomInv, SummaryInv
  <1>n. /\ \A d \in Dirs : /\ count.pending[d] \in Nat /\ last.pending[d] \in Nat
                           /\ Cardinality(Done(d)) \in Nat /\ Cardinality(Seen(d)) \in Nat
        /\ count.pendingSync \in Nat /\ last.pendingSync \in Nat /\ Cardinality(SeenSync) \in Nat
    BY <1>0, RoomTypes DEF Uint
  <1>7. CASE ~Counted(t)
    <2>1. count' = count /\ last' = last /\ \A d \in Dirs : Done(d)' = Done(d)
      BY <1>4, <1>7 DEF onTransferFinish
    <2>2. LeftSession' \/ (~LeftSession /\ (FailedWasCleared => FailedWasCleared'))
      BY <1>2
    <2> QED BY <1>3, <2>1, <2>2, AccountKeeps
  <1>8. CASE Counted(t)
    <2>1. count' = FinishCount(count, t, s)
      BY <1>8 DEF onTransferFinish
    <2>2. /\ \A d \in Dirs : count'.pending[d] = IF d = Dir(t) THEN Minus(count.pending[d], 1) ELSE count.pending[d]
          /\ count'.pendingSync = IF t \in SyncTransfers THEN Minus(count.pendingSync, 1) ELSE count.pendingSync
      BY <1>0, <2>1, DirType DEF FinishCount, RemovePending, RemoveTotal, TypeOK, Counts
    <2>3. /\ count.pending[Dir(t)] >= 1
          /\ t \in SyncTransfers => count.pendingSync >= 1
      <3>1. t \in Live(Dir(t)) /\ (t \in SyncTransfers => t \in LiveSync)
        BY <1>1, <1>8, LiveTypes DEF Live, LiveSync, Dir
      <3>2. Cardinality(Live(Dir(t))) >= 1 /\ (t \in SyncTransfers => Cardinality(LiveSync) >= 1)
        BY <3>1, CardRemove, LiveTypes, DirType
      <3> QED BY <1>0, <1>1, <3>2, DirType DEF PendingMatchesSdk, LiveSync
    <2>4. 1 \in Uint
      BY <1>0, <2>3, DirType, RoomTypes, BoundsAssumption DEF Uint
    <2>5. /\ \A d \in Dirs : count'.pending[d] = IF d = Dir(t) THEN count.pending[d] - 1 ELSE count.pending[d]
          /\ count'.pendingSync = IF t \in SyncTransfers THEN count.pendingSync - 1 ELSE count.pendingSync
      BY <1>0, <2>2, <2>3, <2>4, RoomTypes, UintExact
    <2>6. ASSUME NEW d \in Dirs
          PROVE  (count.pending[d])' + Cardinality(Done(d)') <= Cardinality(Seen(d)')
      <3>1. Cardinality(Done(d) \cup {t}) = Cardinality(Done(d)) + 1
        BY <1>0, <1>4, RoomTypes, CardAdd
      <3>2. CASE d = Dir(t)
        <4>1. Cardinality(Done(d)') \in {Cardinality(Done(d)), Cardinality(Done(d)) + 1}
          BY <1>4, <3>1
        <4>2. count'.pending[d] = count.pending[d] - 1
          BY <2>5, <3>2
        <4> QED BY <1>3, <1>6, <1>n, <4>1, <4>2
      <3>3. CASE d # Dir(t)
        <4>1. Done(d)' = Done(d) /\ count'.pending[d] = count.pending[d]
          BY <1>4, <2>5, <3>3
        <4> QED BY <1>3, <1>6, <4>1
      <3> QED BY <3>2, <3>3
    <2>7. CASE pendingTransfers(count') = 0
      <3>1. last' = NoLastCount
        BY <1>8, <2>7 DEF onTransferFinish
      <3>2. \A d \in Dirs : /\ last'.pending[d] = 0 /\ last'.failed[d] = 0
                            /\ OfDir(last'.byTag, d) = {} /\ last'.pendingSync = 0
        BY <3>1 DEF NoLastCount, OfDir
      <3>3. \A d \in Dirs : count'.pending[d] \in Nat
        BY <1>n, <2>3, <2>5
      <3>4. \A d \in Dirs : count'.pending[d] = 0
        BY <2>7, <3>3, DirType DEF pendingTransfers
      <3>5. count'.pendingSync = 0
        <4>1. \A d \in Dirs : Cardinality(Live(d)') = 0
          BY <1>0, <1>1, <3>4 DEF PendingMatchesSdk
        <4>2. \A d \in Dirs : IsFiniteSet(Live(d)')
          <5>1. \A d \in Dirs : Live(d)' \in SUBSET Tags
            BY DEF Live
          <5> QED BY <5>1, TagSets
        <4>3. \A d \in Dirs : Live(d)' = {}
          BY <4>1, <4>2, FS_EmptySet
        <4>4. LiveSync' = {}
          BY <4>3, DirType DEF LiveSync
        <4>5. Cardinality({}) = 0
          BY FS_EmptySet
        <4>6. count'.pendingSync = Cardinality(LiveSync')
          BY <1>0, <1>1, DirType DEF PendingMatchesSdk, LiveSync
        <4> QED BY <4>4, <4>5, <4>6
      <3>6. RoomInv'
        BY <1>3, <1>n, <2>6, <3>2, <3>5, DirType DEF RoomInv
      <3>7. FreshInv'
        BY <3>2, <3>4 DEF FreshInv
      <3> QED BY <3>6, <3>7 DEF AccountInv
    <2>8. CASE pendingTransfers(count') # 0
      <3>1. last' = FinishLast(last, t, s)
        BY <1>8, <2>8 DEF onTransferFinish
      <3>2. /\ \A d \in Dirs : last'.pending[d] = IF d = Dir(t) THEN Minus(last.pending[d], 1) ELSE last.pending[d]
            /\ last'.pendingSync = IF t \in SyncTransfers THEN Minus(last.pendingSync, 1) ELSE last.pendingSync
            /\ last'.failed = last.failed
            /\ last'.byTag = IF Forgotten(t, s) THEN last.byTag ELSE last.byTag \cup {t}
        BY <1>0, <3>1, DirType DEF FinishLast, RemovePending, RemoveTotal, TypeOK, LastCounts
      <3>3. t \in SyncTransfers => Minus(last.pendingSync, 1) = last.pendingSync - 1
        <4>1. t \in SyncTransfers => last.pendingSync >= 1
          BY <1>6, <1>n, <2>3
        <4> QED BY <1>0, <2>4, <4>1, RoomTypes, UintExact
      <3>4. last'.pendingSync = IF t \in SyncTransfers THEN last.pendingSync - 1 ELSE last.pendingSync
        BY <3>2, <3>3
      <3>5. count'.pendingSync <= last'.pendingSync /\ last'.pendingSync <= Cardinality(SeenSync')
        BY <1>3, <1>6, <1>n, <2>5, <3>4
      <3>6. RoomInv'
        BY <2>6, <3>5 DEF RoomInv
      <3>7. FreshInv'
        <4> SUFFICES ASSUME ~LeftSession
                     PROVE  /\ \A d \in Dirs : last'.pending[d] = count'.pending[d]
                            /\ \A d \in Dirs : OfDir(last'.byTag, d) \subseteq Done(d)'
                            /\ ~FailedWasCleared => \A d \in Dirs : last'.failed[d] = 0
          BY <1>2 DEF FreshInv
        <4>1. \A d \in Dirs : OfDir(last.byTag, d) \subseteq Done(d)
          BY <1>0 DEF FreshInv
        <4>2. ASSUME NEW d \in Dirs PROVE OfDir(last'.byTag, d) \subseteq Done(d)'
          <5>1. Forgotten(t, s) \/ s \in {"COMPLETED", "FAILED"}
            BY DEF Forgotten, EndStates
          <5>2. OfDir(last'.byTag, d) \subseteq IF Dir(t) = d /\ ~Forgotten(t, s)
                                                THEN OfDir(last.byTag, d) \cup {t} ELSE OfDir(last.byTag, d)
            BY <3>2 DEF OfDir
          <5> QED BY <1>4, <1>8, <4>1, <5>1, <5>2
        <4> QED BY <1>0, <2>2, <3>2, <4>2 DEF FreshInv
      <3> QED BY <3>6, <3>7 DEF AccountInv
    <2> QED BY <2>7, <2>8
  <1> QED BY <1>7, <1>8

\* Clearing rows: the summary forgets the tags it remembered, and its failed counters stay
\* zero if none of them had failed.
LEMMA AccountReset ==
  ASSUME AccountInv, CountInv', SummaryInv', NEW T \in SUBSET Tags, resetCompleted(T)
  PROVE  AccountInv'
  <1> DEFINE F == {t \in T : delivered[t].failed}
             keep == F \ SyncTransfers
             known == T \cap last.byTag
  <1>0. /\ TruthInv /\ TypeOK /\ RoomInv /\ FreshInv /\ SummaryInv /\ TypeOK'
    BY DEF AccountInv, CountInv, TruthInv, CacheInv
  <1>1. T \subseteq Clearable /\ cleared' = cleared \cup T /\ sdk' = sdk
    BY DEF resetCompleted, sdkVars
  <1>2. /\ count'.pending = count.pending /\ count'.pendingSync = count.pendingSync
        /\ last'.pending = last.pending /\ last'.pendingSync = last.pendingSync
        /\ last'.byTag = last.byTag \ known
        /\ \A d \in Dirs : last'.failed[d] = Minus(last.failed[d], Cardinality(OfDir(known \cap keep, d)))
    BY <1>0 DEF resetCompleted, ResetCompleted, Remembered, TypeOK, Counts, LastCounts
  <1>3. /\ \A d \in Dirs : Seen(d)' = Seen(d) /\ Done(d)' = Done(d) \ T
        /\ SeenSync' = SeenSync
        /\ LeftSession' <=> LeftSession
        /\ FailedWasCleared => FailedWasCleared'
    BY <1>1 DEF Seen, Done, SeenSync, LeftSession, FailedWasCleared
  <1>4. \A d \in Dirs : Cardinality(Done(d)') <= Cardinality(Done(d)) /\ Cardinality(Done(d)') \in Nat
    <2> SUFFICES ASSUME NEW d \in Dirs
                 PROVE  Cardinality(Done(d) \ T) <= Cardinality(Done(d)) /\ Cardinality(Done(d) \ T) \in Nat
      BY <1>3
    <2>1. Done(d) \in SUBSET Tags /\ Done(d) \ T \in SUBSET Done(d)
      BY <1>0, RoomTypes
    <2>2. Cardinality(Done(d) \ T) <= Cardinality(Done(d)) /\ Cardinality(Done(d) \ T) \in Uint
      BY <2>1, CardDiff
    <2> QED BY <2>2 DEF Uint
  <1>n. \A d \in Dirs : /\ count.pending[d] \in Nat /\ Cardinality(Done(d)) \in Nat
                        /\ Cardinality(Seen(d)) \in Nat
    BY <1>0, RoomTypes DEF Uint
  <1>5. RoomInv'
    <2>1. ASSUME NEW d \in Dirs
          PROVE  (count.pending[d])' + Cardinality(Done(d)') <= Cardinality(Seen(d)')
      <3>1. count.pending[d] + Cardinality(Done(d)) <= Cardinality(Seen(d))
        BY <1>0 DEF RoomInv
      <3>2. count'.pending[d] = count.pending[d] /\ Cardinality(Seen(d)') = Cardinality(Seen(d))
        BY <1>2, <1>3
      <3> QED BY <1>4, <1>n, <3>1, <3>2
    <2> QED BY <1>0, <1>2, <1>3, <2>1 DEF RoomInv
  <1>6. ~FailedWasCleared' => keep = {}
    <2> SUFFICES ASSUME NEW t \in keep PROVE FailedWasCleared'
      OBVIOUS
    <2>1. t \in Tags \ FolderTransfers /\ delivered[t].state \in {"COMPLETED", "FAILED"} /\ delivered[t].failed
          /\ t \notin cleared /\ t \in T
      BY <1>1 DEF Clearable
    <2>2. DataTrue(t, delivered[t])
      BY <1>0, <2>1 DEF TruthInv
    <2>3. sdk[t] = "FAILED"
      BY <2>1, <2>2 DEF DataTrue, EndStates
    <2> QED BY <1>1, <2>1, <2>3 DEF FailedWasCleared
  <1>7. FreshInv'
    <2> SUFFICES ASSUME ~LeftSession
                 PROVE  /\ \A d \in Dirs : last'.pending[d] = count'.pending[d]
                        /\ \A d \in Dirs : OfDir(last'.byTag, d) \subseteq Done(d)'
                        /\ ~FailedWasCleared' => \A d \in Dirs : last'.failed[d] = 0
      BY <1>3 DEF FreshInv
    <2>1. \A d \in Dirs : last'.pending[d] = count'.pending[d]
      BY <1>0, <1>2 DEF FreshInv
    <2>2. ASSUME NEW d \in Dirs PROVE OfDir(last'.byTag, d) \subseteq Done(d)'
      <3>1. OfDir(last.byTag, d) \subseteq Done(d)
        BY <1>0 DEF FreshInv
      <3>2. OfDir(last'.byTag, d) = OfDir(last.byTag, d) \ T
        BY <1>2 DEF OfDir
      <3> QED BY <1>3, <3>1, <3>2
    <2>3. ASSUME ~FailedWasCleared', NEW d \in Dirs PROVE last'.failed[d] = 0
      <3>1. last.failed[d] = 0
        BY <1>0, <1>3, <2>3 DEF FreshInv
      <3>2. OfDir(known \cap keep, d) = {}
        BY <1>6, <2>3 DEF OfDir
      <3>3. Cardinality(OfDir(known \cap keep, d)) = 0
        BY <3>2, FS_EmptySet
      <3>4. Minus(0, 0) = 0
        BY DEF Minus
      <3> QED BY <1>2, <3>1, <3>3, <3>4
    <2> QED BY <2>1, <2>2, <2>3
  <1> QED BY <1>5, <1>7 DEF AccountInv

\* The reset on logout zeroes the counters of the list; the summary is left as it is, which
\* is up to date only if the account never held a transfer.
LEMMA AccountClear ==
  ASSUME AccountInv, CountInv', SummaryInv', clear
  PROVE  AccountInv'
  <1>0. TypeOK /\ RoomInv /\ FreshInv /\ SummaryInv /\ TruthInv
    BY DEF AccountInv, CountInv, TruthInv, CacheInv
  <1>1. /\ last' = last /\ \A d \in Dirs : count'.pending[d] = 0 /\ count'.pendingSync = 0
        /\ \A t \in Tags : sdk'[t] = IF sdk[t] = "NONE" THEN "NONE" ELSE "ABORTED"
    BY DEF clear, NoCount
  <1>2. \A d \in Dirs : Seen(d)' = Seen(d) /\ Done(d)' = {}
    BY <1>1 DEF Seen, Done
  <1>3. SeenSync' = SeenSync
    BY <1>1, LiveTypes DEF SeenSync
  <1>4. Cardinality({}) = 0
    BY FS_EmptySet
  <1>5. RoomInv'
    <2>1. \A d \in Dirs : Cardinality(Seen(d)) \in Nat /\ last.pendingSync \in Nat
      BY <1>0, RoomTypes DEF Uint
    <2>2. last.pendingSync <= Cardinality(SeenSync)
      BY <1>0 DEF RoomInv
    <2>3. count'.pendingSync = 0
      BY <1>1, DirType
    <2>4. last.pendingSync >= 0
      BY <2>1, DirType
    <2> QED BY <1>1, <1>2, <1>3, <1>4, <2>1, <2>2, <2>3, <2>4 DEF RoomInv
  <1>6. FreshInv'
    <2> SUFFICES ASSUME ~LeftSession' PROVE FreshInv'
      BY DEF FreshInv
    <2>1. \A t \in Tags : sdk[t] = "NONE"
      BY <1>1 DEF LeftSession
    <2>2. ~LeftSession /\ ~FailedWasCleared
      BY <1>0, <2>1 DEF LeftSession, FailedWasCleared, TypeOK
    <2>3. \A d \in Dirs : Seen(d) = {}
      BY <2>1 DEF Seen
    <2>4. ASSUME NEW d \in Dirs
          PROVE  last.pending[d] = 0 /\ OfDir(last.byTag, d) = {} /\ last.failed[d] = 0
      <3>1. OfDir(last.byTag, d) \in SUBSET Tags /\ IsFiniteSet(OfDir(last.byTag, d))
        BY <1>0, RoomTypes, TagSets
      <3>2. last.pending[d] + Cardinality(OfDir(last.byTag, d)) <= 0
        BY <1>0, <1>4, <2>3 DEF SummaryInv
      <3>3. last.pending[d] \in Nat /\ Cardinality(OfDir(last.byTag, d)) \in Nat
        BY <1>0, <3>1, RoomTypes, TagSets DEF Uint
      <3>4. last.pending[d] = 0 /\ Cardinality(OfDir(last.byTag, d)) = 0
        BY <3>2, <3>3
      <3> QED BY <1>0, <2>2, <3>1, <3>4, FS_EmptySet DEF FreshInv
    <2> QED BY <1>1, <2>4 DEF FreshInv
  <1> QED BY <1>5, <1>6 DEF AccountInv

LEMMA AccountStep == AccountInv /\ [Next]_vars => AccountInv'
  <1> SUFFICES ASSUME AccountInv, [Next]_vars PROVE AccountInv'
    OBVIOUS
  <1>0. CountInv /\ CountInv' /\ SummaryInv /\ SummaryInv' /\ TruthInv /\ TypeOK
    BY CountStep, SummaryStep DEF AccountInv, CountInv, TruthInv, CacheInv
  <1>1. ASSUME NEW t \in Tags, onTransferStart(t) PROVE AccountInv'
    BY <1>0, <1>1, AccountStart
  <1>2. ASSUME NEW t \in Tags, onTransferUpdate(t) PROVE AccountInv'
    <2>1. /\ Notify(t, "ACTIVE") /\ "ACTIVE" \in LiveStates \cup EndStates /\ sdk[t] \in LiveStates
          /\ cleared' = cleared /\ count' = count /\ last' = last
      BY <1>2 DEF onTransferUpdate, LiveStates, guiVars
    <2>2. "ACTIVE" \notin {"COMPLETED", "FAILED"} /\ sdk[t] # "NONE"
      BY <2>1 DEF LiveStates
    <2>3. \A d \in Dirs : Done(d)' = Done(d)
      BY <1>0, <2>1, <2>2, DoneMoves
    <2>4. (LeftSession' <=> LeftSession) /\ (FailedWasCleared' <=> FailedWasCleared)
      BY <1>0, <2>1, NotifyHistory
    <2>5. \A d \in Dirs : Seen(d)' = Seen(d)
      BY <1>0, <2>1, <2>2, NotifyHistory DEF Seen
    <2>6. SeenSync' = SeenSync
      BY <1>0, <2>1, <2>2, NotifyHistory DEF SeenSync
    <2> QED BY <1>0, <2>1, <2>3, <2>4, <2>5, <2>6, AccountKeeps
  <1>3. ASSUME NEW t \in Tags, NEW s \in EndStates, NEW err \in FinishErrors(t, s),
               onTransferFinish(t, s, err)
        PROVE  AccountInv'
    BY <1>0, <1>3, AccountFinish
  <1>4. ASSUME NEW t \in Tags, onTransferFinishLoggedOut(t) PROVE AccountInv'
    <2>1. /\ sdk' = [sdk EXCEPT ![t] = "ABORTED"] /\ sdk[t] \in LiveStates
          /\ cleared' = cleared /\ count' = count /\ last' = last
      BY <1>4 DEF onTransferFinishLoggedOut, threadVars, guiVars
    <2>2. \A u \in Tags : sdk'[u] = IF u = t THEN "ABORTED" ELSE sdk[u]
      BY <1>0, <2>1 DEF TypeOK
    <2>3. LeftSession'
      BY <2>2 DEF LeftSession
    <2>4. \A d \in Dirs : Seen(d)' = Seen(d) /\ Done(d)' = Done(d)
      BY <2>1, <2>2 DEF Seen, Done, LiveStates
    <2>5. SeenSync' = SeenSync
      BY <2>1, <2>2, LiveTypes DEF SeenSync, LiveStates
    <2> QED BY <1>0, <2>1, <2>3, <2>4, <2>5, AccountKeeps
  <1>5. ASSUME NEW T \in SUBSET Tags, resetCompleted(T) PROVE AccountInv'
    BY <1>0, <1>5, AccountReset
  <1>6. CASE clear
    BY <1>0, <1>6, AccountClear
  <1>7. ASSUME UNCHANGED <<count, last, sdk, cleared>> PROVE AccountInv'
    <2>1. (LeftSession' <=> LeftSession) /\ (FailedWasCleared' <=> FailedWasCleared)
      BY <1>7 DEF LeftSession, FailedWasCleared
    <2>2. \A d \in Dirs : Seen(d)' = Seen(d) /\ Done(d)' = Done(d)
      BY <1>7 DEF Seen, Done
    <2>3. SeenSync' = SeenSync
      BY <1>7 DEF SeenSync
    <2> QED BY <1>0, <1>7, <2>1, <2>2, <2>3, AccountKeeps
  <1> QED
    BY <1>1, <1>2, <1>3, <1>4, <1>5, <1>6, <1>7
    DEF Next, SdkNext, GuiNext, cacheSection, Logout, Login, processTransfers, Consume,
        vars, sdkVars, threadVars, guiVars

LEMMA AccountInvariant == Spec => []AccountInv
  BY AccountInit, AccountStep, PTL DEF Spec

\* What the info dialog shows of the transfers of a busy time is what the list's counters
\* and the SDK say, for any number of transfers: the pending ones, the total, and, as long
\* as no failed row was cleared, the completed number (in which failed ones are counted).
THEOREM Summary == Spec => []SummaryIsTrue
  <1>1. AccountInv => SummaryIsTrue
    <2> SUFFICES ASSUME AccountInv PROVE SummaryIsTrue
      OBVIOUS
    <2>0. TypeOK /\ SummaryInv /\ FreshInv
      BY DEF AccountInv, CountInv, TruthInv, CacheInv
    <2>1. SummaryPending
      BY <2>0 DEF SummaryPending, SummaryInv, FreshInv
    <2>2. SummaryTotal
      BY <2>0 DEF SummaryTotal, SummaryInv, FreshInv
    <2>3. SummaryCompleted
      <3> SUFFICES ASSUME ~LeftSession, ~FailedWasCleared, NEW d \in Dirs
                   PROVE  Minus(Minus(last.total[d], last.pending[d]), last.failed[d])
                            = Cardinality(OfDir(last.byTag, d))
        BY DEF SummaryCompleted
      <3>1. /\ last.failed[d] = 0
            /\ last.total[d] = last.pending[d] + Cardinality(OfDir(last.byTag, d))
        BY <2>0 DEF FreshInv, SummaryInv
      <3>2. /\ last.total[d] \in Uint /\ last.pending[d] \in Uint
            /\ Cardinality(OfDir(last.byTag, d)) \in Uint
        BY <2>0, SummaryTypes
      <3>3. last.pending[d] <= last.total[d] /\ last.total[d] - last.pending[d] = Cardinality(OfDir(last.byTag, d))
        BY <3>1, <3>2 DEF Uint
      <3>4. Minus(last.total[d], last.pending[d]) = Cardinality(OfDir(last.byTag, d))
        BY <3>2, <3>3, UintExact
      <3>5. Minus(Cardinality(OfDir(last.byTag, d)), 0) = Cardinality(OfDir(last.byTag, d))
        BY <3>2 DEF Minus, Uint
      <3> QED BY <3>1, <3>4, <3>5
    <2> QED BY <2>1, <2>2, <2>3 DEF SummaryIsTrue
  <1> QED BY <1>1, AccountInvariant, PTL

\* No counter of either set ever jumps below zero: each stays at or below the number of
\* transfers, whatever the width of the counters.  The theorem has the exceptions of the
\* property, the totals and failures after a row was cleared that is in no total and the
\* summary's failures after a failed row was cleared; the code needs them.
THEOREM CountersInRange == Spec => []CountersStayInRange
  <1>1. AccountInv => CountersStayInRange
    <2> SUFFICES ASSUME AccountInv PROVE CountersStayInRange
      OBVIOUS
    <2>0. TypeOK /\ SummaryInv /\ FreshInv /\ RoomInv /\ CountInv
      BY DEF AccountInv, CountInv, TruthInv, CacheInv
    <2> DEFINE n == Cardinality(Tags)
    <2>1. n \in Nat
      BY TagSets DEF Uint
    <2>2. /\ Cardinality(SeenSync) <= n /\ Cardinality(SeenSync) \in Nat
          /\ count.pendingSync \in Nat /\ last.pendingSync \in Nat
      BY <2>0, RoomTypes, CardBound DEF Uint
    <2>3. count.pendingSync <= n /\ last.pendingSync <= n
      BY <2>0, <2>1, <2>2 DEF RoomInv
    <2>4. ASSUME NEW d \in Dirs
          PROVE  /\ count.pending[d] <= n /\ last.pending[d] <= n /\ last.total[d] <= n
                 /\ ~UncountedWasCleared => count.total[d] <= n /\ count.failed[d] <= n
                 /\ ~LeftSession /\ ~FailedWasCleared => last.failed[d] = 0
      <3>1. /\ Cardinality(Seen(d)) <= n /\ Cardinality(Seen(d)) \in Nat
            /\ count.pending[d] \in Nat /\ last.pending[d] \in Nat
            /\ Cardinality(Done(d)) \in Nat /\ Cardinality(OfDir(last.byTag, d)) \in Nat
        <4>1. /\ Seen(d) \in SUBSET Tags /\ Done(d) \in SUBSET Tags /\ OfDir(last.byTag, d) \in SUBSET Tags
              /\ count.pending[d] \in Uint /\ last.pending[d] \in Uint
          BY <2>0, RoomTypes
        <4>2. count.pending[d] \in Nat /\ last.pending[d] \in Nat
          BY <4>1 DEF Uint
        <4> QED BY <4>1, <4>2, CardBound
      <3>2. /\ count.pending[d] + Cardinality(Done(d)) <= Cardinality(Seen(d))
            /\ last.total[d] = last.pending[d] + Cardinality(OfDir(last.byTag, d))
            /\ last.pending[d] + Cardinality(OfDir(last.byTag, d)) <= Cardinality(Seen(d))
        BY <2>0 DEF RoomInv, SummaryInv
      <3>3. count.pending[d] <= n /\ last.pending[d] <= n /\ last.total[d] <= n
        BY <2>1, <3>1, <3>2
      <3>4. ASSUME ~UncountedWasCleared PROVE count.total[d] <= n /\ count.failed[d] <= n
        <4>1. /\ count.total[d] = count.pending[d] + Cardinality(Done(d))
              /\ count.failed[d] = Cardinality(DoneFailed(d))
          BY <2>0, <3>4 DEF CountInv, Balanced, Clean, UncountedWasCleared
        <4>2. Cardinality(DoneFailed(d)) <= Cardinality(Done(d)) /\ Cardinality(DoneFailed(d)) \in Nat
          BY DoneTypes DEF Uint
        <4> QED BY <2>1, <3>1, <3>2, <4>1, <4>2
      <3>5. ~LeftSession /\ ~FailedWasCleared => last.failed[d] = 0
        BY <2>0 DEF FreshInv
      <3> QED BY <3>3, <3>4, <3>5
    <2> QED BY <2>3, <2>4 DEF CountersStayInRange
  <1> QED BY <1>1, AccountInvariant, PTL
=============================================================================
