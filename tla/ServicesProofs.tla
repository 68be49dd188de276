---------------------------- MODULE ServicesProofs ----------------------------
(***************************************************************************)
(* Who is answered with which call (OutgoingCall), what a page of contacts *)
(* is sent (ContactsStream) and when an operator's mode is on              *)
(* (OperatorMode), for any number of calls, requests, items and dialogues. *)
(***************************************************************************)
EXTENDS OutgoingCall, ContactsStream, OperatorMode, SequenceTheorems, TLAPS

-----------------------------------------------------------------------------
(* Outgoing calls.                                                         *)

\* A goroutine stores one call, and only for a request that has been made.
DiallingOnce == \A r \in Requests : /\ r \in dialling => request[r] # "idle" /\ dialled[r] = NoCall
                                    /\ request[r] = "idle" => dialled[r] = NoCall

\* The only new call a request can find, while nobody has intruded, is its own.
NewIsOwn == \A r \in Waiting : r \notin intruded => NewCalls(r) \subseteq {dialled[r]}

AnswerIsCall == \A r \in Requests : request[r] = "answered" => answer[r] \in CallIds

DialInv == DialTypeOK /\ AnswerIsOwn /\ DiallingOnce /\ NewIsOwn /\ AnswerIsCall

LEMMA DialStep == ASSUME DialInv, [DialNext]_dialVars PROVE DialInv'
<1> USE DialAssumption
    DEF DialInv, DialTypeOK, AnswerIsOwn, DiallingOnce, NewIsOwn, AnswerIsCall, Waiting, NewCalls, Store
<1>1. ASSUME NEW r \in Requests, BeginRequest(r) PROVE DialInv'
  BY <1>1 DEF BeginRequest
<1>2. ASSUME NEW r \in Requests, DialFails(r) PROVE DialInv'
  BY <1>2 DEF DialFails
<1>3. ASSUME NEW r \in Requests, AnswerRequest(r) PROVE DialInv'
  BY <1>3 DEF AnswerRequest
<1>4. ASSUME NEW r \in Requests, TimeoutRequest(r) PROVE DialInv'
  BY <1>4 DEF TimeoutRequest
<1>5. ASSUME NEW r \in Requests, NEW c \in CallIds, StoreDialled(r, c) PROVE DialInv'
  <2>1. DialTypeOK'
    BY <1>5 DEF StoreDialled
  <2>5. dialled[r] = NoCall
    <3>1. r \in dialling
      BY <1>5 DEF StoreDialled
    <3> HIDE DEF NewIsOwn, AnswerIsOwn
    <3> QED
      BY <3>1
  <2>6. request[r] = "answered" => r \in intruded
    BY <2>5
  <2>7. /\ request' = request /\ answer' = answer /\ intruded \subseteq intruded'
        /\ \A q \in Requests : q # r => dialled'[q] = dialled[q]
    BY <1>5 DEF StoreDialled
  <2>2. AnswerIsOwn' /\ AnswerIsCall'
    BY <2>6, <2>7
  <2>3. DiallingOnce'
    BY <1>5 DEF StoreDialled
  <2>4. NewIsOwn'
    <3> SUFFICES ASSUME NEW q \in Waiting', q \notin intruded'
                 PROVE  NewCalls(q)' \subseteq {dialled[q]}'
      BY DEF NewIsOwn
    <3>1. q = r /\ q \in Waiting /\ q \notin intruded
      BY <1>5 DEF StoreDialled
    <3>2. NewCalls(r) = {}
      <4>1. r \in Waiting /\ r \notin intruded /\ NewCalls(r) \subseteq CallIds
        BY <3>1
      <4>2. NewCalls(r) \subseteq {dialled[r]}
        BY <4>1
      <4> HIDE DEF NewCalls, DialInv
      <4> QED
        BY <2>5, <4>1, <4>2
    <3> QED
      BY <1>5, <3>1, <3>2 DEF StoreDialled
  <2> QED
    BY <2>1, <2>2, <2>3, <2>4
<1>6. ASSUME NEW c \in CallIds, StoreIncoming(c) PROVE DialInv'
  BY <1>6 DEF StoreIncoming
<1>7. ASSUME NEW c \in CallIds, ForgetCall(c) PROVE DialInv'
  BY <1>7 DEF ForgetCall
<1>8. CASE UNCHANGED dialVars
  BY <1>8 DEF dialVars
<1> QED
  BY <1>1, <1>2, <1>3, <1>4, <1>5, <1>6, <1>7, <1>8 DEF DialNext

\* Requests for outgoing calls keep their strengthened invariant.
THEOREM DialInvariance == DialSpec => []DialInv
<1>1. DialInit => DialInv
  BY DEF DialInit, DialInv, DialTypeOK, AnswerIsOwn, DiallingOnce, NewIsOwn, AnswerIsCall, Waiting
<1> QED
  BY <1>1, DialStep, PTL DEF DialSpec

\* Types of the outgoing calls (delivery/rpc/server.go, telegram.go).
THEOREM DialTypeCorrect == DialSpec => []DialTypeOK
<1>1. DialInv => DialTypeOK
  BY DEF DialInv
<1> QED
  BY <1>1, DialInvariance, PTL

\* A request that is answered with another's call has been intruded on while it waited
\* (User.InitiateOutgoingCall).
THEOREM AnsweredWithOwn == DialSpec => []AnswerIsOwn
<1>1. DialInv => AnswerIsOwn
  BY DEF DialInv
<1> QED
  BY <1>1, DialInvariance, PTL

-----------------------------------------------------------------------------
(* The operator mode.                                                      *)

\* A dialogue is in operator mode while its operator is there or has left by himself, as
\* long as its mode has not been cleared for him to be let go, and otherwise only by a
\* message of his that came too late; such a message is in the queue only while he is there,
\* has left by himself or was let go with it.
NobodyLeft == \A d \in Dialogs :
  /\ d \in operMode => d \in stale \/ (d \in connected \cup departed /\ disabling[d] = "no")
  /\ LeftOver(d) => d \in connected \cup departed \cup stale

OperatorInv == OperatorTypeOK /\ NobodyLeft

LEMMA OperatorStep == ASSUME OperatorInv, [OperatorNext]_operVars PROVE OperatorInv'
<1> USE OperatorAssumption DEF OperatorInv, OperatorTypeOK, NobodyLeft, LeftOver
<1>1. ASSUME NEW d \in Dialogs, OperatorJoins(d) PROVE OperatorInv'
  BY <1>1 DEF OperatorJoins
<1>1a. ASSUME NEW d \in Dialogs, OperatorLeaves(d) PROVE OperatorInv'
  BY <1>1a DEF OperatorLeaves
<1>2. ASSUME NEW d \in Dialogs, NEW author \in {"assist", "operator"}, Write(d, author) PROVE OperatorInv'
  <2>1. Append(txCh[d], author) \in Seq({"assist", "operator"})
    OBVIOUS
  <2>2. /\ Len(Append(txCh[d], author)) = Len(txCh[d]) + 1
        /\ DOMAIN Append(txCh[d], author) = 1 .. Len(txCh[d]) + 1
        /\ DOMAIN txCh[d] = 1 .. Len(txCh[d]) /\ Len(txCh[d]) \in Nat
        /\ \A i \in 1 .. Len(txCh[d]) : Append(txCh[d], author)[i] = txCh[d][i]
        /\ Append(txCh[d], author)[Len(txCh[d]) + 1] = author
    OBVIOUS
  <2>3. OperatorTypeOK'
    BY <1>2, <2>1, <2>2 DEF Write
  <2>4. NobodyLeft'
    BY <1>2, <2>2 DEF Write
  <2> QED
    BY <2>3, <2>4
<1>3. ASSUME NEW d \in Dialogs, ProcessAnswer(d) PROVE OperatorInv'
  <2>1. /\ Tail(txCh[d]) \in Seq({"assist", "operator"}) /\ Len(Tail(txCh[d])) = Len(txCh[d]) - 1
        /\ Len(txCh[d]) \in Nat /\ Len(txCh[d]) > 0 /\ DOMAIN txCh[d] = 1 .. Len(txCh[d])
        /\ DOMAIN Tail(txCh[d]) = 1 .. Len(txCh[d]) - 1
        /\ \A i \in 1 .. Len(txCh[d]) - 1 : Tail(txCh[d])[i] = txCh[d][i + 1]
        /\ Head(txCh[d]) = txCh[d][1]
    BY <1>3 DEF ProcessAnswer
  <2>2. OperatorTypeOK'
    BY <1>3, <2>1 DEF ProcessAnswer
  <2>3. NobodyLeft'
    <3>1. LeftOver(d)' => LeftOver(d)
      BY <1>3, <2>1 DEF ProcessAnswer
    <3>2. ASSUME NEW e \in Dialogs, e # d PROVE LeftOver(e)' => LeftOver(e)
      BY <1>3, <3>2 DEF ProcessAnswer
    <3>3. Head(txCh[d]) = "operator" => LeftOver(d)
      BY <2>1
    <3>4. ASSUME NEW e \in Dialogs
          PROVE  e \in operMode' =>
                   e \in stale' \/ (e \in connected' \cup departed' /\ disabling'[e] = "no")
      BY <1>3, <3>3 DEF ProcessAnswer
    <3>5. ASSUME NEW e \in Dialogs PROVE LeftOver(e)' => e \in connected' \cup departed' \cup stale'
      <4>1. connected' = connected /\ departed' = departed /\ stale \subseteq stale'
        BY <1>3 DEF ProcessAnswer
      <4> QED
        BY <3>1, <3>2, <4>1
    <3> QED
      BY <3>4, <3>5
  <2> QED
    BY <2>2, <2>3
<1>4. ASSUME NEW d \in Dialogs, ClearMode(d) \/ DisableFails(d) PROVE OperatorInv'
  BY <1>4 DEF ClearMode, LetDepartedGo, DisableFails
<1>5. ASSUME NEW d \in Dialogs, CloseOperatorSSE(d) PROVE OperatorInv'
  BY <1>5 DEF CloseOperatorSSE
<1>6. CASE RestartBot
  BY <1>6 DEF RestartBot
<1>7. CASE UNCHANGED operVars
  BY <1>7 DEF operVars
<1> QED
  BY <1>1, <1>1a, <1>2, <1>3, <1>4, <1>5, <1>6, <1>7 DEF OperatorNext

\* The operator mode keeps its strengthened invariant.
THEOREM OperatorInvariance == OperatorSpec => []OperatorInv
<1>1. OperatorInit => OperatorInv
  BY OperatorAssumption DEF OperatorInit, OperatorInv, OperatorTypeOK, NobodyLeft, LeftOver
<1> QED
  BY <1>1, OperatorStep, PTL DEF OperatorSpec

\* Types of the operator mode (telegram.go).
THEOREM OperatorTypeCorrect == OperatorSpec => []OperatorTypeOK
<1>1. OperatorInv => OperatorTypeOK
  BY DEF OperatorInv
<1> QED
  BY <1>1, OperatorInvariance, PTL

\* A dialogue is marked for an operator only while he is there, has left without being let
\* go, or left a message behind (SetOperatorMode, DisableOperatorMode, processAssistantMessage).
THEOREM ModeIsExplained == OperatorSpec => []ModeFollowsOperator
<1>1. OperatorInv => ModeFollowsOperator
  BY DEF OperatorInv, OperatorTypeOK, NobodyLeft, LeftOver, ModeFollowsOperator
<1> QED
  BY <1>1, OperatorInvariance, PTL

-----------------------------------------------------------------------------
(* The page of contacts.                                                   *)

\* How far each goroutine is.
Progress ==
  /\ \A g \in Sources :
       /\ appended[g] <= fetched[g]
       /\ fetcher[g] = "storing" => appended[g] < fetched[g]
       /\ fetcher[g] = "done" => appended[g] = fetched[g]
       /\ fetcher[g] \in {"idle", "fetching", "failed"} => fetched[g] = 0
  /\ page \in {"connected", "checked"} => \A g \in Sources : fetcher[g] = "idle"
  /\ page \in {"streaming", "complete"} => \A g \in Sources : fetcher[g] \in {"done", "failed"}

\* Without a race the slice holds exactly what has been appended.
SliceIsAppended ==
  ~raced => /\ IsInjective(allItems)
            /\ \A i \in DOMAIN allItems : /\ allItems[i] \in Sources \X Nat
                                          /\ allItems[i][2] \in 1 .. appended[allItems[i][1]]
            /\ \A g \in Sources : \A k \in 1 .. appended[g] :
                 \E i \in DOMAIN allItems : allItems[i] = <<g, k>>

\* What has been sent is a beginning of the slice.
StreamIsPrefix ==
  /\ Len(streamed) <= Len(allItems)
  /\ \A i \in 1 .. Len(streamed) : streamed[i] = allItems[i]
  /\ page \notin {"streaming", "complete"} => streamed = <<>>
  /\ page = "complete" => Len(streamed) = Len(allItems)

ContactsInv == ContactsTypeOK /\ Progress /\ SliceIsAppended /\ StreamIsPrefix

LEMMA ContactsInitEstablishes == ContactsInit => ContactsInv
<1> SUFFICES ASSUME ContactsInit PROVE ContactsInv
  OBVIOUS
<1>1. raced \in BOOLEAN
  BY DEF ContactsInit
<1>2. ContactsTypeOK
  BY <1>1, ContactsAssumption DEF ContactsInit, ContactsTypeOK
<1>3. Progress
  BY DEF ContactsInit, Progress
<1>4. SliceIsAppended
  BY DEF ContactsInit, SliceIsAppended, IsInjective
<1>5. StreamIsPrefix
  BY DEF ContactsInit, StreamIsPrefix
<1> QED
  BY <1>2, <1>3, <1>4, <1>5 DEF ContactsInv

\* The steps that leave the slice alone.
LEMMA ContactsOffSlice ==
  ASSUME ContactsInv,
         \/ BotStops \/ CheckBot \/ BeginLoading \/ BeginStreaming \/ StreamComplete
         \/ UNCHANGED contactsVars
         \/ \E g \in Sources : Fetch(g) \/ LoadItems(g) \/ FetchOver(g)
  PROVE  ContactsInv'
<1> USE DEF ContactsInv
<1>1. UNCHANGED <<allItems, appended, raced, streamed>>
  BY DEF BotStops, CheckBot, BeginLoading, BeginStreaming, StreamComplete, Fetch, LoadItems,
         FetchOver, contactsVars, results
<1>2. raced' \in BOOLEAN
  BY <1>1 DEF ContactsTypeOK
<1>3. ContactsTypeOK'
  <2>1. allItems' \in Seq(Item) /\ streamed' \in Seq(Item) /\ appended' \in [Sources -> 0 .. MaxItems]
    BY <1>1 DEF ContactsTypeOK
  <2>2. local' \in [Sources -> Seq(Item)] /\ fetched' \in [Sources -> 0 .. MaxItems]
    BY DEF ContactsTypeOK, BotStops, CheckBot, BeginLoading, BeginStreaming, StreamComplete, Fetch,
           LoadItems, FetchOver, contactsVars, results
  <2>3. /\ bot' \in {"running", "stopped", "gone"}
        /\ page' \in {"connected", "checked", "loading", "streaming", "complete", "failed"}
        /\ fetcher' \in [Sources -> {"idle", "fetching", "appending", "storing", "done", "failed"}]
    BY DEF ContactsTypeOK, BotStops, CheckBot, BeginLoading, BeginStreaming, StreamComplete, Fetch,
           LoadItems, FetchOver, contactsVars
  <2> QED
    BY <1>2, <2>1, <2>2, <2>3 DEF ContactsTypeOK
<1>4. Progress'
  <2>1. CASE BotStops \/ CheckBot \/ StreamComplete \/ UNCHANGED contactsVars
    BY <2>1 DEF Progress, BotStops, CheckBot, StreamComplete, contactsVars, results
  <2>2. CASE BeginLoading
    BY <2>2 DEF Progress, BeginLoading, results, ContactsTypeOK
  <2>3. CASE BeginStreaming
    BY <2>3 DEF Progress, BeginStreaming, AllOver, results
  <2>4. ASSUME NEW g \in Sources, Fetch(g) PROVE Progress'
    <3>1. /\ fetcher[g] = "fetching" /\ fetched[g] = 0 /\ appended[g] = 0
          /\ page \notin {"connected", "checked", "streaming", "complete"} /\ page' = page
      <4>1. fetcher[g] = "fetching" /\ page' = page
        BY <2>4 DEF Fetch
      <4>2. fetched[g] = 0
        BY <4>1 DEF Progress
      <4>3. appended[g] = 0
        BY <4>2, ContactsAssumption DEF Progress, ContactsTypeOK
      <4> QED
        BY <4>1, <4>2, <4>3 DEF Progress
    <3>2. /\ fetcher'[g] \in {"appending", "failed"}
          /\ fetched'[g] \in 0 .. MaxItems /\ (fetcher'[g] = "failed" => fetched'[g] = 0)
          /\ \A q \in Sources : q # g => fetcher'[q] = fetcher[q] /\ fetched'[q] = fetched[q]
      BY <2>4, <3>1, ContactsAssumption DEF Fetch, ContactsTypeOK
    <3>3. appended' = appended
      BY <2>4 DEF Fetch
    <3> QED
      BY <3>1, <3>2, <3>3, ContactsAssumption DEF Progress
  <2>5. ASSUME NEW g \in Sources, LoadItems(g) PROVE Progress'
    BY <2>5 DEF Progress, LoadItems, ContactsTypeOK
  <2>6. ASSUME NEW g \in Sources, FetchOver(g) PROVE Progress'
    BY <2>6 DEF Progress, FetchOver, ContactsTypeOK, results
  <2> QED
    BY <2>1, <2>2, <2>3, <2>4, <2>5, <2>6
<1>5. SliceIsAppended'
  BY <1>1 DEF SliceIsAppended, IsInjective
<1>6. StreamIsPrefix'
  BY <1>1 DEF StreamIsPrefix, BotStops, CheckBot, BeginLoading, BeginStreaming, StreamComplete,
              Fetch, LoadItems, FetchOver, contactsVars
<1> QED
  BY <1>3, <1>4, <1>5, <1>6

\* An append that nobody has interfered with adds the next item of its source.
LEMMA ContactsStores == ASSUME ContactsInv, NEW g \in Sources, StoreItems(g) PROVE ContactsInv'
<1> USE DEF ContactsInv
<1> DEFINE item == <<g, appended[g] + 1>>
           n == Len(allItems)
<1>1. /\ fetcher[g] = "storing" /\ appended[g] \in Nat /\ appended[g] < fetched[g]
      /\ fetched[g] \in 0 .. MaxItems /\ MaxItems \in Nat
  BY ContactsAssumption DEF StoreItems, ContactsTypeOK, Progress
<1>2. /\ fetcher' = [fetcher EXCEPT ![g] = "appending"]
      /\ appended' = [appended EXCEPT ![g] = @ + 1]
      /\ UNCHANGED <<bot, page, fetched, local, streamed>>
  BY DEF StoreItems
<1>3. item \in Sources \X Nat /\ item \in Item /\ NoItem \in Item
  BY <1>1 DEF Item
<1>4. allItems \in Seq(Item) /\ local[g] \in Seq(Item) /\ n \in Nat /\ DOMAIN allItems = 1 .. n
  BY DEF ContactsTypeOK
<1>5. page \notin {"connected", "checked", "streaming", "complete"} /\ streamed = <<>>
  BY <1>1 DEF Progress, StreamIsPrefix, ContactsTypeOK
<1>6. allItems' \in Seq(Item) /\ raced' \in BOOLEAN
  <2>1. CASE allItems' = Append(local[g], item) /\ UNCHANGED raced
    <3>1. raced' \in BOOLEAN
      BY <2>1 DEF ContactsTypeOK
    <3> QED
      BY <2>1, <1>3, <1>4, <3>1
  <2>2. CASE allItems' \in RaceOutcomes(local[g], item) /\ raced' = TRUE
    <3> DEFINE last == Len(local[g]) + 1
    <3>1. CASE allItems' = Append(local[g], item)
      BY <1>3, <1>4, <2>2, <3>1
    <3>2. ASSUME NEW i \in DOMAIN allItems, allItems' = [allItems EXCEPT ![i] = item]
          PROVE  allItems' \in Seq(Item)
      BY <1>3, <1>4, <3>2
    <3>3. CASE allItems' = [i \in 1 .. n |-> IF i < last THEN local[g][i]
                                             ELSE IF i = last THEN item ELSE NoItem]
      <4>1. \A i \in 1 .. n : (IF i < last THEN local[g][i]
                               ELSE IF i = last THEN item ELSE NoItem) \in Item
        BY <1>3, <1>4
      <4>2. allItems' \in [1 .. n -> Item]
        BY <3>3, <4>1
      <4>3. allItems' \in UNION {[1 .. k -> Item] : k \in Nat}
        BY <1>4, <4>2
      <4> QED
        BY <2>2, <4>3, SeqDef, Zenon
    <3> QED
      BY <2>2, <3>1, <3>2, <3>3 DEF RaceOutcomes
  <2> QED
    BY <2>1, <2>2 DEF StoreItems
<1>7. ContactsTypeOK'
  <2>1. appended' \in [Sources -> 0 .. MaxItems]
    BY <1>1, <1>2 DEF ContactsTypeOK
  <2>2. fetcher' \in [Sources -> {"idle", "fetching", "appending", "storing", "done", "failed"}]
    BY <1>2 DEF ContactsTypeOK
  <2> QED
    BY <1>2, <1>6, <2>1, <2>2 DEF ContactsTypeOK
<1>8. Progress'
  BY <1>1, <1>2, <1>5 DEF Progress, ContactsTypeOK
<1>9. StreamIsPrefix'
  <2>1. Len(streamed') = 0 /\ Len(allItems') \in Nat /\ streamed' = <<>>
    BY <1>2, <1>5, <1>6
  <2>2. page' = page
    BY <1>2
  <2> QED
    BY <1>5, <2>1, <2>2 DEF StreamIsPrefix
<1>10. SliceIsAppended'
  <2> SUFFICES ASSUME ~raced' PROVE SliceIsAppended'
    BY DEF SliceIsAppended
  <2>1. ~raced /\ allItems' = Append(allItems, item)
    BY DEF StoreItems
  <2>2. /\ DOMAIN allItems' = 1 .. n + 1
        /\ \A i \in 1 .. n : allItems'[i] = allItems[i]
        /\ allItems'[n + 1] = item
    BY <1>3, <1>4, <2>1
  <2>3. appended'[g] = appended[g] + 1 /\ \A q \in Sources : q # g => appended'[q] = appended[q]
    BY <1>2 DEF ContactsTypeOK
  <2>4. \A q \in Sources : appended[q] \in Nat
    BY ContactsAssumption DEF ContactsTypeOK
  <2>5. \A i \in 1 .. n : /\ allItems[i] \in Sources \X Nat
                         /\ allItems[i][2] \in 1 .. appended[allItems[i][1]]
                         /\ allItems[i] # item
    <3> SUFFICES ASSUME NEW i \in 1 .. n
                 PROVE  /\ allItems[i] \in Sources \X Nat
                        /\ allItems[i][2] \in 1 .. appended[allItems[i][1]]
                        /\ allItems[i] # item
      OBVIOUS
    <3>1. /\ allItems[i] \in Sources \X Nat
          /\ allItems[i][2] \in 1 .. appended[allItems[i][1]]
      BY <1>4, <2>1 DEF SliceIsAppended
    <3>2. allItems[i] = item => allItems[i][1] = g /\ allItems[i][2] = appended[g] + 1
      OBVIOUS
    <3> QED
      BY <1>1, <3>1, <3>2
  <2>6. IsInjective(allItems')
    <3>1. \A i, j \in 1 .. n : allItems[i] = allItems[j] => i = j
      BY <1>4, <2>1 DEF SliceIsAppended, IsInjective
    <3> QED
      BY <1>4, <2>2, <2>5, <3>1 DEF IsInjective
  <2>7. \A i \in DOMAIN allItems' : /\ allItems'[i] \in Sources \X Nat
                                   /\ allItems'[i][2] \in 1 .. appended'[allItems'[i][1]]
    <3> SUFFICES ASSUME NEW i \in DOMAIN allItems'
                 PROVE  /\ allItems'[i] \in Sources \X Nat
                        /\ allItems'[i][2] \in 1 .. appended'[allItems'[i][1]]
      OBVIOUS
    <3>1. CASE i \in 1 .. n
      <4>1. allItems[i][1] \in Sources /\ allItems[i][2] \in Nat
        BY <2>5, <3>1
      <4>2. appended[allItems[i][1]] <= appended'[allItems[i][1]] /\ appended'[allItems[i][1]] \in Nat
        BY <2>3, <2>4, <4>1
      <4> QED
        BY <2>2, <2>4, <2>5, <3>1, <4>1, <4>2
    <3>2. CASE i = n + 1
      <4>1. item[1] = g /\ item[2] = appended[g] + 1
        OBVIOUS
      <4> QED
        BY <1>1, <1>3, <2>2, <2>3, <3>2, <4>1
    <3> QED
      BY <1>4, <2>2, <3>1, <3>2
  <2>8. \A q \in Sources : \A k \in 1 .. appended'[q] :
          \E i \in DOMAIN allItems' : allItems'[i] = <<q, k>>
    <3> SUFFICES ASSUME NEW q \in Sources, NEW k \in 1 .. appended'[q]
                 PROVE  \E i \in DOMAIN allItems' : allItems'[i] = <<q, k>>
      OBVIOUS
    <3>1. CASE k \in 1 .. appended[q]
      <4>1. PICK i \in 1 .. n : allItems[i] = <<q, k>>
        BY <1>4, <2>1, <3>1 DEF SliceIsAppended
      <4> QED
        BY <1>4, <2>2, <4>1
    <3>2. CASE k \notin 1 .. appended[q]
      <4>1. q = g /\ k = appended[g] + 1
        BY <1>1, <2>3, <2>4, <3>2
      <4> QED
        BY <1>4, <2>2, <4>1
    <3> QED
      BY <3>1, <3>2
  <2> QED
    BY <2>6, <2>7, <2>8 DEF SliceIsAppended
<1> QED
  BY <1>7, <1>8, <1>9, <1>10

LEMMA ContactsStreams == ASSUME ContactsInv, StreamItem PROVE ContactsInv'
<1> USE DEF ContactsInv
<1>1. /\ page = "streaming" /\ Len(streamed) < Len(allItems)
      /\ streamed' = Append(streamed, allItems[Len(streamed) + 1])
      /\ UNCHANGED <<bot, page, fetcher, fetched, appended, local, allItems, raced>>
  BY DEF StreamItem, results
<1>2. /\ allItems \in Seq(Item) /\ streamed \in Seq(Item)
      /\ Len(streamed) \in Nat /\ Len(allItems) \in Nat
      /\ allItems[Len(streamed) + 1] \in Item
  BY <1>1 DEF ContactsTypeOK
<1>3. /\ streamed' \in Seq(Item) /\ Len(streamed') = Len(streamed) + 1
      /\ \A i \in 1 .. Len(streamed) : streamed'[i] = streamed[i]
      /\ streamed'[Len(streamed) + 1] = allItems[Len(streamed) + 1]
  BY <1>1, <1>2
<1>4. ContactsTypeOK'
  <2>1. raced' \in BOOLEAN
    BY <1>1 DEF ContactsTypeOK
  <2> QED
    BY <1>1, <1>3, <2>1 DEF ContactsTypeOK
<1>5. Progress' /\ SliceIsAppended'
  BY <1>1 DEF Progress, SliceIsAppended, IsInjective
<1>6. StreamIsPrefix'
  BY <1>1, <1>2, <1>3 DEF StreamIsPrefix
<1> QED
  BY <1>4, <1>5, <1>6

\* The page of contacts keeps its strengthened invariant.
THEOREM ContactsInvariance == ContactsSpec => []ContactsInv
<1>1. ContactsInv /\ [ContactsNext]_contactsVars => ContactsInv'
  BY ContactsOffSlice, ContactsStores, ContactsStreams DEF ContactsNext
<1> QED
  BY <1>1, ContactsInitEstablishes, PTL DEF ContactsSpec

\* Types of the page of contacts (contacts.go, web_handler.go).
THEOREM ContactsTypeCorrect == ContactsSpec => []ContactsTypeOK
<1>1. ContactsInv => ContactsTypeOK
  BY DEF ContactsInv
<1> QED
  BY <1>1, ContactsInvariance, PTL

\* For any number of contacts and chats, a complete page without a race has every item once
\* (GetUserContactsStreaming).
THEOREM PageIsComplete == ContactsSpec => []StreamedOnce
<1>1. ContactsInv => StreamedOnce
  <2> SUFFICES ASSUME ContactsInv, page = "complete", ~raced
               PROVE  Range(streamed) = Expected /\ IsInjective(streamed)
    BY DEF StreamedOnce
  <2> USE DEF ContactsInv
  <2>1. /\ DOMAIN streamed = DOMAIN allItems
        /\ \A i \in DOMAIN allItems : streamed[i] = allItems[i]
    BY DEF StreamIsPrefix, ContactsTypeOK
  <2>2. IsInjective(streamed)
    BY <2>1 DEF SliceIsAppended, IsInjective
  <2>3. /\ MaxItems \in Nat
        /\ \A g \in Sources : /\ appended[g] \in 0 .. MaxItems /\ fetched[g] \in 0 .. MaxItems
                             /\ appended[g] = fetched[g]
    BY ContactsAssumption DEF Progress, ContactsTypeOK
  <2>4. ASSUME NEW i \in DOMAIN streamed PROVE streamed[i] \in Expected
    <3>1. /\ streamed[i] \in Sources \X Nat
          /\ streamed[i][2] \in 1 .. appended[streamed[i][1]]
      BY <2>1, <2>4 DEF SliceIsAppended
    <3>2. PICK g \in Sources, k \in Nat : streamed[i] = <<g, k>>
      BY <3>1
    <3>3. k \in 1 .. MaxItems /\ k <= fetched[g]
      BY <2>3, <3>1, <3>2
    <3> QED
      BY <3>2, <3>3 DEF Expected, Fetched
  <2>5. ASSUME NEW item \in Expected PROVE \E i \in DOMAIN streamed : streamed[i] = item
    <3>1. PICK g \in Sources, k \in 1 .. MaxItems : item = <<g, k>> /\ k <= fetched[g]
      BY <2>5 DEF Expected, Fetched
    <3>2. k \in 1 .. appended[g]
      BY <2>3, <3>1
    <3> QED
      BY <2>1, <3>1, <3>2 DEF SliceIsAppended
  <2> QED
    BY <2>2, <2>4, <2>5 DEF Range
<1> QED
  BY <1>1, ContactsInvariance, PTL
=============================================================================
