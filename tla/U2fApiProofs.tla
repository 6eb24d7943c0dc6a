----------------------------- MODULE U2fApiProofs -----------------------------
(***************************************************************************)
(* What holds of the page's end of the conversation with a key for any     *)
(* number of calls: every call is in one place, the extension is sent only *)
(* what it understands, and every step is one that the promise of          *)
(* OneAnswer allows, or changes nothing the promise speaks of.             *)
(***************************************************************************)
EXTENDS U2fApi, FiniteSetTheorems, TLAPS

-------------------------------------------------------------------------------
\* The places of calls.  The operators take the queue, the callbacks and what
\* was given as parameters, because a task takes a call from one place and only
\* later puts it in another.

\* The calls of A are in one place each, and no other call is in any.
Placed(queue, map, answers, A) ==
    /\ \A i \in DOMAIN queue : queue[i].call \in A
    /\ \A i, j \in DOMAIN queue : queue[i].call = queue[j].call => i = j
    /\ \A id \in DOMAIN map : map[id].call \in A
    /\ \A i, j \in DOMAIN map : map[i].call = map[j].call => i = j
    /\ \A i \in DOMAIN queue, id \in DOMAIN map : queue[i].call # map[id].call
    /\ \A c \in Calls : answers[c] # <<>> =>
         /\ c \in A
         /\ Len(answers[c]) = 1
         /\ \A i \in DOMAIN queue : queue[i].call # c
         /\ \A id \in DOMAIN map : map[id].call # c
    /\ \A c \in A : \/ \E i \in DOMAIN queue : queue[i].call = c
                    \/ \E id \in DOMAIN map : map[id].call = c
                    \/ answers[c] # <<>>

\* The messages: ids are used once, an unanswered request has its callback, an
\* answer fits the callback that waits for it, and a call is sent for once.
Mail(map, answers) ==
    /\ \A m \in posted : m.id \in DOMAIN map
    /\ \A m \in posted \cup sent : m.id <= reqCounter_
    /\ \A m, n \in posted : m.id = n.id => m = n
    /\ \A m, n \in sent : m.id = n.id => m = n
    /\ \A m \in posted, n \in sent : m.id # n.id
    /\ \A m \in posted \cup sent : m.id \in DOMAIN map =>
         map[m.id].for = m.type /\ map[m.id].call = m.call
    /\ \A m \in posted \cup sent :
         m.type = "send" /\ m.id \notin DOMAIN map => answers[m.call] # <<>>
    /\ \A m, n \in posted \cup sent :
         m.type = "send" /\ n.type = "send" /\ m.call = n.call => m.id = n.id

\* What the answers say.
Said ==
    \A r \in sent :
        /\ r.type = "send" => r.data \in Decisions
        /\ r.type = "version" /\ r.data = "1.1" => speaks = "1.1"

\* The page takes the extension for a new one only when it is one.
VersionKnown ==
    ~Mobile /\ js_api_version = "1.1" => speaks = "1.1"

IInv ==
    /\ TypeOK
    /\ Placed(waitingForPort_, callbackMap_, given, asked)
    /\ Mail(callbackMap_, given)
    /\ Said
    /\ VersionKnown
    /\ FormatUnderstood
-------------------------------------------------------------------------------
\* Taking a call from a place and putting it in another.

\* The callback of a request that is answered is forgotten.
LEMMA PlacedForget ==
    ASSUME NEW queue, NEW map, NEW A, NEW id \in DOMAIN map, TypeOK,
           \A k \in DOMAIN map : map[k].call \in Calls,
           Placed(queue, map, given, A)
    PROVE  Placed(queue, Forget(map, id), given, A \ {map[id].call})
  <1> DEFINE rest == Forget(map, id)
  <1>1. /\ DOMAIN rest = DOMAIN map \ {id}
        /\ \A k \in DOMAIN rest : rest[k] = map[k]
    BY DEF Forget
  <1> HIDE DEF rest
  <1>2. QED
    BY <1>1 DEF Placed, rest

\* A callback is noted for a request.
LEMMA PlacedNote ==
    ASSUME NEW queue, NEW map, NEW A, NEW id, NEW cb \in Callbacks, TypeOK,
           id \notin DOMAIN map, cb.call \notin A,
           Placed(queue, map, given, A)
    PROVE  Placed(queue,
                  [k \in DOMAIN map \cup {id} |-> IF k = id THEN cb ELSE map[k]],
                  given, A \cup {cb.call})
  <1> DEFINE more == [k \in DOMAIN map \cup {id} |-> IF k = id THEN cb ELSE map[k]]
  <1>1. /\ DOMAIN more = DOMAIN map \cup {id}
        /\ more[id] = cb
        /\ \A k \in DOMAIN map : more[k] = map[k]
    OBVIOUS
  <1> HIDE DEF more
  <1>2. QED
    BY <1>1 DEF Placed, more

\* A callback waits for the port.
LEMMA PlacedAppend ==
    ASSUME NEW queue \in Seq(Callbacks), NEW map, NEW A, NEW cb \in Callbacks, TypeOK,
           cb.call \notin A,
           Placed(queue, map, given, A)
    PROVE  Placed(Append(queue, cb), map, given, A \cup {cb.call})
  <1> DEFINE longer == Append(queue, cb)
  <1>1. /\ DOMAIN longer = DOMAIN queue \cup {Len(queue) + 1}
        /\ Len(queue) + 1 \notin DOMAIN queue
        /\ longer[Len(queue) + 1] = cb
        /\ \A i \in DOMAIN queue : longer[i] = queue[i]
    OBVIOUS
  <1> HIDE DEF longer
  <1>2. QED
    BY <1>1 DEF Placed, longer

\* The first of the callbacks that wait is taken.
LEMMA PlacedTail ==
    ASSUME NEW queue \in Seq(Callbacks), NEW map, NEW A, TypeOK, queue # <<>>,
           Placed(queue, map, given, A)
    PROVE  Placed(Tail(queue), map, given, A \ {Head(queue).call})
  <1> DEFINE shorter == Tail(queue)
  <1>1. /\ 1 \in DOMAIN queue /\ Head(queue) = queue[1]
        /\ \A i \in DOMAIN shorter : /\ i + 1 \in DOMAIN queue
                                     /\ i + 1 # 1
                                     /\ shorter[i] = queue[i + 1]
        /\ \A i \in DOMAIN queue : i # 1 => /\ i - 1 \in DOMAIN shorter
                                            /\ shorter[i - 1] = queue[i]
        /\ \A i, j \in DOMAIN shorter : i + 1 = j + 1 => i = j
    OBVIOUS
  <1> HIDE DEF shorter
  <1> DEFINE c1 == Head(queue).call
  <1>2. \A i \in DOMAIN shorter : shorter[i].call \in A \ {c1}
    BY <1>1 DEF Placed
  <1>3. \A i, j \in DOMAIN shorter : shorter[i].call = shorter[j].call => i = j
    BY <1>1 DEF Placed
  <1>4. \A id \in DOMAIN map : map[id].call \in A \ {c1}
    BY <1>1 DEF Placed
  <1>5. \A i \in DOMAIN shorter, id \in DOMAIN map : shorter[i].call # map[id].call
    BY <1>1 DEF Placed
  <1>6. ASSUME NEW c \in Calls, given[c] # <<>>
        PROVE  /\ c \in A \ {c1}
               /\ Len(given[c]) = 1
               /\ \A i \in DOMAIN shorter : shorter[i].call # c
               /\ \A id \in DOMAIN map : map[id].call # c
    BY <1>1, <1>6 DEF Placed
  <1>7. ASSUME NEW c \in A \ {c1}
        PROVE  \/ \E i \in DOMAIN shorter : shorter[i].call = c
               \/ \E id \in DOMAIN map : map[id].call = c
               \/ given[c] # <<>>
    <2>1. ASSUME NEW i \in DOMAIN queue, queue[i].call = c
          PROVE  \E j \in DOMAIN shorter : shorter[j].call = c
      BY <1>1, <2>1
    <2>2. QED
      BY <2>1 DEF Placed
  <1>8. QED
    BY <1>2, <1>3, <1>4, <1>5, <1>6, <1>7 DEF Placed, shorter
-------------------------------------------------------------------------------
\* Posting a request.

\* What is left of the callbacks while a task runs.
MapTyped(map) ==
    /\ DOMAIN map \subseteq 1 .. reqCounter_
    /\ \A id \in DOMAIN map : map[id] \in Callbacks

\* The version a task has learned.
VersionFits(version) ==
    /\ version \in Versions \cup {None}
    /\ ~Mobile /\ version = "1.1" => speaks = "1.1"

\* What a task that hands a callback to the port leaves.
Handed ==
    /\ reqCounter_ \in Nat
    /\ posted \subseteq Requests
    /\ MapTyped(callbackMap_)
    /\ Mail(callbackMap_, given)
    /\ VersionFits(js_api_version)
    /\ FormatUnderstood

\* A request that is posted for a call that is nowhere.
LEMMA PostKeeps ==
    ASSUME NEW queue, NEW map, NEW A, NEW cb \in Callbacks, NEW version,
           TypeOK, MapTyped(map), Mail(map, given), FormatUnderstood,
           VersionFits(version),
           cb.call \notin A, Placed(queue, map, given, A),
           Post(map, cb, version), UNCHANGED <<environment, sent, given>>
    PROVE  Handed' /\ Placed(queue, callbackMap_', given, A \cup {cb.call})
  <1> DEFINE id == reqCounter_ + 1
             m0 == [id |-> id, type |-> cb.for, format |-> Format(version), call |-> cb.call]
  <1>1. /\ reqCounter_ \in Nat /\ id \in Nat /\ id \notin DOMAIN map
        /\ reqCounter_' = id /\ posted' = posted \cup {m0} /\ js_api_version' = version
        /\ callbackMap_' = [k \in DOMAIN map \cup {id} |-> IF k = id THEN cb ELSE map[k]]
        /\ sent' = sent /\ given' = given /\ platform' = platform /\ speaks' = speaks
    BY DEF TypeOK, MapTyped, Post, environment
  <1>2. Placed(queue, callbackMap_', given, A \cup {cb.call})
    <2>1. id \notin DOMAIN map /\ cb \in Callbacks
      BY <1>1
    <2> HIDE DEF id
    <2>2. Placed(queue,
                 [k \in DOMAIN map \cup {id} |-> IF k = id THEN cb ELSE map[k]],
                 given, A \cup {cb.call})
      BY <2>1, PlacedNote
    <2>3. QED
      BY <1>1, <2>2
  <1>3. /\ DOMAIN callbackMap_' = DOMAIN map \cup {id}
        /\ callbackMap_'[id] = cb
        /\ \A k \in DOMAIN map : callbackMap_'[k] = map[k]
    BY <1>1
  <1>4. /\ m0 \in Requests /\ m0.id = id /\ m0.type = cb.for /\ m0.call = cb.call
        /\ m0.format = Format(version)
    BY <1>1 DEF Callbacks, Requests, Format, Versions, Kinds
  <1> HIDE DEF m0, id
  <1>5. posted' \subseteq Requests /\ MapTyped(callbackMap_)'
    <2>1. posted' \subseteq Requests
      BY <1>1, <1>4 DEF TypeOK
    <2>2. DOMAIN callbackMap_' \subseteq 1 .. reqCounter_'
      BY <1>1, <1>3 DEF MapTyped, id
    <2>3. QED
      BY <2>1, <2>2, <1>3 DEF MapTyped
  <1>6. VersionFits(js_api_version)'
    BY <1>1 DEF VersionFits, Mobile
  <1>7. FormatUnderstood'
    <2> SUFFICES ASSUME ~Mobile, NEW m \in posted', m.format = "1.1"
                 PROVE  speaks = "1.1"
      BY <1>1 DEF FormatUnderstood, Mobile
    <2>1. CASE m \in posted
      BY <2>1 DEF FormatUnderstood
    <2>2. CASE m = m0
      BY <2>2, <1>4 DEF Format, VersionFits
    <2>3. QED
      BY <1>1, <2>1, <2>2
  <1>8. Mail(callbackMap_, given)'
    <2> DEFINE letters == posted \cup sent
    <2>1. /\ \A m \in posted' \cup sent' : m \in letters \/ m = m0
          /\ \A m \in posted' : m \in posted \/ m = m0
      BY <1>1
    <2>2. \A m \in letters : m.id \in Nat /\ m.id <= reqCounter_ /\ m.id < id /\ m.id # id
      BY <1>1 DEF Mail, TypeOK, Requests, Answers, id
    <2>3. \A m \in letters : m.type = "send" => m.call # cb.call
      <3> SUFFICES ASSUME NEW m \in letters, m.type = "send", m.call = cb.call
                   PROVE  FALSE
        OBVIOUS
      <3>1. cb.call \in Calls
        BY DEF Callbacks
      <3>2. CASE m.id \in DOMAIN map
        BY <3>2 DEF Mail, Placed
      <3>3. CASE m.id \notin DOMAIN map
        BY <3>1, <3>3 DEF Mail, Placed
      <3>4. QED
        BY <3>2, <3>3
    <2>4. \A m \in posted' : m.id \in DOMAIN callbackMap_'
      BY <2>1, <1>3, <1>4 DEF Mail
    <2>5. \A m \in posted' \cup sent' : m.id <= reqCounter_'
      BY <2>1, <2>2, <1>1, <1>4 DEF id
    <2>6. /\ \A m, n \in posted' : m.id = n.id => m = n
          /\ \A m, n \in sent' : m.id = n.id => m = n
          /\ \A m \in posted', n \in sent' : m.id # n.id
      BY <2>1, <2>2, <1>1, <1>4 DEF Mail
    <2>7. \A m \in posted' \cup sent' : m.id \in DOMAIN callbackMap_' =>
            callbackMap_'[m.id].for = m.type /\ callbackMap_'[m.id].call = m.call
      BY <2>1, <2>2, <1>3, <1>4 DEF Mail
    <2>8. \A m \in posted' \cup sent' :
            m.type = "send" /\ m.id \notin DOMAIN callbackMap_' => given'[m.call] # <<>>
      BY <2>1, <1>1, <1>3, <1>4 DEF Mail
    <2>9. \A m, n \in posted' \cup sent' :
            m.type = "send" /\ n.type = "send" /\ m.call = n.call => m.id = n.id
      BY <2>1, <2>3, <1>4 DEF Mail
    <2>10. QED
      BY <2>4, <2>5, <2>6, <2>7, <2>8, <2>9 DEF Mail
  <1>9. QED
    BY <1>1, <1>2, <1>5, <1>6, <1>7, <1>8 DEF Handed

\* A callback that is called with the port.
LEMMA WithPortKeeps ==
    ASSUME NEW queue, NEW map, NEW A, NEW cb \in Callbacks, NEW version,
           TypeOK, MapTyped(map), Mail(map, given), FormatUnderstood,
           VersionFits(version),
           cb.call \notin A, Placed(queue, map, given, A),
           WithPort(map, cb, version), UNCHANGED <<environment, sent, given>>
    PROVE  Handed' /\ Placed(queue, callbackMap_', given, A \cup {cb.call})
  <1>1. CASE cb.for = "version" /\ Mobile
    <2>1. /\ Sending(cb.call) \in Callbacks
          /\ Sending(cb.call).call = cb.call
      BY DEF Sending, Callbacks, Kinds
    <2>2. VersionFits("1.1")
      BY <1>1 DEF VersionFits, Versions
    <2>3. Post(map, Sending(cb.call), "1.1")
      BY <1>1 DEF WithPort
    <2>4. QED
      BY <2>1, <2>2, <2>3, PostKeeps
  <1>2. CASE ~(cb.for = "version" /\ Mobile)
    <2>1. Post(map, cb, version)
      BY <1>2 DEF WithPort
    <2>2. QED
      BY <2>1, PostKeeps
  <1>3. QED
    BY <1>1, <1>2

\* A callback that is handed to the port, or to the queue for it.
LEMMA PortKeeps ==
    ASSUME NEW map, NEW A, NEW cb \in Callbacks, NEW version,
           TypeOK, MapTyped(map), Mail(map, given), FormatUnderstood,
           VersionFits(version),
           cb.call \notin A, Placed(waitingForPort_, map, given, A),
           getPortSingleton_(map, cb, version), UNCHANGED <<environment, sent, given>>
    PROVE  /\ Handed'
           /\ stage' \in Stages /\ draining' = draining
           /\ waitingForPort_' \in Seq(Callbacks)
           /\ Placed(waitingForPort_', callbackMap_', given, A \cup {cb.call})
  <1>1. CASE port_
    <2>1. WithPort(map, cb, version) /\ UNCHANGED opening
      BY <1>1 DEF getPortSingleton_
    <2>2. Handed' /\ Placed(waitingForPort_, callbackMap_', given, A \cup {cb.call})
      BY <2>1, WithPortKeeps
    <2>3. QED
      BY <2>1, <2>2 DEF opening, TypeOK
  <1>2. CASE ~port_
    <2>1. /\ waitingForPort_' = Append(waitingForPort_, cb)
          /\ callbackMap_' = map /\ js_api_version' = version
          /\ UNCHANGED <<draining, reqCounter_, posted, sent, given, platform, speaks>>
          /\ stage' = IF waitingForPort_ = <<>> THEN getMessagePort ELSE stage
      BY <1>2 DEF getPortSingleton_, environment
    <2>2. Placed(waitingForPort_', callbackMap_', given, A \cup {cb.call})
      BY <2>1, PlacedAppend DEF TypeOK
    <2>3. stage' \in Stages /\ waitingForPort_' \in Seq(Callbacks)
      BY <2>1 DEF TypeOK, getMessagePort, Stages, Platforms
    <2>4. Mail(callbackMap_, given)' /\ MapTyped(callbackMap_)'
      BY <2>1 DEF Mail, MapTyped
    <2>5. VersionFits(js_api_version)' /\ FormatUnderstood'
      BY <2>1 DEF VersionFits, FormatUnderstood, Mobile
    <2>6. reqCounter_' \in Nat /\ posted' \subseteq Requests
      BY <2>1 DEF TypeOK
    <2>7. QED
      BY <2>1, <2>2, <2>3, <2>4, <2>5, <2>6 DEF Handed
  <1>3. QED
    BY <1>1, <1>2
-------------------------------------------------------------------------------
\* The steps.

LEMMA InitHolds == Init => IInv
  <1> SUFFICES ASSUME Init
               PROVE  IInv
    OBVIOUS
  <1>1. /\ callbackMap_ = [id \in {} |-> None] /\ DOMAIN callbackMap_ = {}
        /\ waitingForPort_ = <<>> /\ DOMAIN waitingForPort_ = {}
        /\ given = [c \in Calls |-> <<>>]
        /\ posted = {} /\ sent = {} /\ replies = {} /\ asked = {}
        /\ js_api_version = None
    BY DEF Init
  <1>2. TypeOK
    <2>1. given \in [Calls -> Seq(Decisions)] /\ waitingForPort_ \in Seq(Callbacks)
      BY <1>1
    <2>2. /\ platform \in Platforms /\ speaks \in Versions \cup {None}
          /\ stage \in Stages /\ draining \in BOOLEAN
          /\ reqCounter_ \in Nat /\ silent \subseteq Calls
      BY DEF Init, Stages
    <2>3. QED
      BY <1>1, <2>1, <2>2 DEF TypeOK
  <1>3. Placed(waitingForPort_, callbackMap_, given, asked)
    BY <1>1 DEF Placed
  <1>4. Mail(callbackMap_, given) /\ Said /\ FormatUnderstood
    BY <1>1 DEF Mail, Said, FormatUnderstood
  <1>5. VersionKnown
    BY <1>1, NoneAssumption DEF VersionKnown
  <1>6. QED
    BY <1>2, <1>3, <1>4, <1>5 DEF IInv

\* A call is made.
LEMMA CallKeeps ==
    ASSUME IInv, NEW c \in Calls, Call(c)
    PROVE  IInv'
  <1> DEFINE cb == FirstCallback(c)
  <1>1. cb \in Callbacks /\ cb.call = c
    BY DEF FirstCallback, Callbacks, Kinds
  <1>2. /\ c \notin asked /\ asked' = asked \cup {c}
        /\ getPortSingleton_(callbackMap_, cb, js_api_version)
        /\ UNCHANGED <<environment, answering, given>>
    BY DEF Call
  <1> HIDE DEF cb
  <1>3. MapTyped(callbackMap_) /\ VersionFits(js_api_version)
    BY DEF IInv, TypeOK, MapTyped, VersionFits, VersionKnown
  <1>4. /\ Handed'
        /\ stage' \in Stages /\ draining' = draining
        /\ waitingForPort_' \in Seq(Callbacks)
        /\ Placed(waitingForPort_', callbackMap_', given, asked \cup {cb.call})
    BY <1>1, <1>2, <1>3, PortKeeps DEF IInv, answering
  <1>5. Placed(waitingForPort_, callbackMap_, given, asked)'
    BY <1>1, <1>2, <1>4
  <1>6. TypeOK'
    BY <1>2, <1>4 DEF IInv, TypeOK, Handed, MapTyped, VersionFits, environment, answering
  <1>7. Said'
    BY <1>2 DEF IInv, Said, environment, answering
  <1>8. QED
    BY <1>4, <1>5, <1>6, <1>7 DEF IInv, Handed, VersionFits, VersionKnown

\* The port opens: nothing but its stage changes.
LEMMA StageKeeps ==
    ASSUME IInv, stage' \in Stages, draining' \in BOOLEAN,
           UNCHANGED <<environment, waitingForPort_, reqCounter_, callbackMap_,
                       js_api_version, posted, answering, asked, given>>
    PROVE  IInv'
  <1>1. TypeOK'
    BY DEF IInv, TypeOK, environment, answering
  <1>2. Placed(waitingForPort_, callbackMap_, given, asked)'
    BY DEF IInv, Placed
  <1>3. Mail(callbackMap_, given)'
    BY DEF IInv, Mail, answering
  <1>4. (Said /\ VersionKnown /\ FormatUnderstood)'
    BY DEF IInv, Said, VersionKnown, FormatUnderstood, Mobile, environment, answering
  <1>5. QED
    BY <1>1, <1>2, <1>3, <1>4 DEF IInv

LEMMA OpenedKeeps ==
    ASSUME IInv, Probed \/ PortTimeout \/ IframeReady
    PROVE  IInv'
  <1>1. CASE Probed
    <2>1. stage' \in Stages
      BY <1>1 DEF Probed, Stages
    <2>2. QED
      BY <1>1, <2>1, StageKeeps DEF Probed, IInv, TypeOK
  <1>2. CASE PortTimeout \/ IframeReady
    <2>1. stage' \in Stages
      BY <1>2 DEF PortTimeout, IframeReady, Opened, Stages
    <2>2. QED
      BY <1>2, <2>1, StageKeeps DEF PortTimeout, IframeReady, Opened
  <1>3. QED
    BY <1>1, <1>2

\* A turn of the loop that empties the queue.
LEMMA DrainKeeps ==
    ASSUME IInv, Drain
    PROVE  IInv'
  <1>1. UNCHANGED <<environment, stage, answering, asked, given>>
    BY DEF Drain
  <1>2. CASE waitingForPort_ = <<>>
    <2>1. /\ draining' = FALSE
          /\ UNCHANGED <<waitingForPort_, reqCounter_, callbackMap_, js_api_version, posted>>
      BY <1>2 DEF Drain
    <2>2. stage' \in Stages
      BY <1>1 DEF IInv, TypeOK
    <2>3. QED
      BY <1>1, <2>1, <2>2, StageKeeps
  <1>3. CASE waitingForPort_ # <<>>
    <2> DEFINE cb == Head(waitingForPort_)
               others == asked \ {cb.call}
    <2>1. /\ waitingForPort_ \in Seq(Callbacks)
          /\ waitingForPort_' = Tail(waitingForPort_)
          /\ draining' = draining
          /\ WithPort(callbackMap_, cb, js_api_version)
      BY <1>3 DEF Drain, IInv, TypeOK
    <2>2. cb \in Callbacks /\ waitingForPort_' \in Seq(Callbacks)
      BY <1>3, <2>1
    <2>3. Placed(waitingForPort_', callbackMap_, given, others)
      BY <1>3, <2>1, PlacedTail DEF IInv
    <2>4. cb.call \in asked
      <3>1. 1 \in DOMAIN waitingForPort_ /\ cb = waitingForPort_[1]
        BY <1>3, <2>1
      <3>2. QED
        BY <3>1 DEF IInv, Placed
    <2> HIDE DEF cb
    <2>5. MapTyped(callbackMap_) /\ VersionFits(js_api_version)
      BY DEF IInv, TypeOK, MapTyped, VersionFits, VersionKnown
    <2>6. Handed' /\ Placed(waitingForPort_', callbackMap_', given, others \cup {cb.call})
      BY <1>1, <2>1, <2>2, <2>3, <2>5, WithPortKeeps DEF IInv, answering
    <2>7. others \cup {cb.call} = asked
      BY <2>4
    <2>8. Placed(waitingForPort_, callbackMap_, given, asked)'
      BY <1>1, <2>6, <2>7
    <2>9. TypeOK'
      BY <1>1, <2>1, <2>2, <2>6 DEF IInv, TypeOK, Handed, MapTyped, VersionFits,
                                     environment, answering
    <2>10. Said'
      BY <1>1 DEF IInv, Said, environment, answering
    <2>11. QED
      BY <2>6, <2>8, <2>9, <2>10 DEF IInv, Handed, VersionFits, VersionKnown
  <1>4. QED
    BY <1>2, <1>3

\* What an answer says of the callback that waits for it.
LEMMA AnswerFits ==
    ASSUME IInv, NEW r \in replies, r.id \in DOMAIN callbackMap_
    PROVE  /\ r \in sent /\ r \in Answers
           /\ callbackMap_[r.id] \in Callbacks
           /\ callbackMap_[r.id].for = r.type
           /\ callbackMap_[r.id].call = r.call
           /\ r.call \in asked
           /\ given[r.call] = <<>>
  <1>1. r \in sent /\ r \in Answers /\ callbackMap_[r.id] \in Callbacks
    BY DEF IInv, TypeOK
  <1>2. callbackMap_[r.id].for = r.type /\ callbackMap_[r.id].call = r.call
    BY <1>1 DEF IInv, Mail
  <1>3. r.call \in asked /\ given[r.call] = <<>>
    BY <1>1, <1>2 DEF IInv, Placed, Answers
  <1>4. QED
    BY <1>1, <1>2, <1>3

\* An answer that no callback waits for is dropped.
LEMMA DroppedKeeps ==
    ASSUME IInv, NEW r \in replies, replies' = replies \ {r},
           UNCHANGED <<environment, opening, reqCounter_, callbackMap_, js_api_version,
                       posted, sent, silent, asked, given>>
    PROVE  IInv'
  <1>1. TypeOK'
    BY DEF IInv, TypeOK, environment, opening
  <1>2. Placed(waitingForPort_, callbackMap_, given, asked)'
    BY DEF IInv, Placed, opening
  <1>3. Mail(callbackMap_, given)'
    BY DEF IInv, Mail
  <1>4. (Said /\ VersionKnown /\ FormatUnderstood)'
    BY DEF IInv, Said, VersionKnown, FormatUnderstood, Mobile, environment
  <1>5. QED
    BY <1>1, <1>2, <1>3, <1>4 DEF IInv

\* The answer to the request for the version: the call's own request goes out.
LEMMA VersionAnswerKeeps ==
    ASSUME IInv, NEW r \in replies, responseHandler_(r),
           r.id \in DOMAIN callbackMap_, callbackMap_[r.id].for = "version"
    PROVE  IInv'
  <1> DEFINE map == Forget(callbackMap_, r.id)
             cb == Sending(r.call)
             others == asked \ {r.call}
  <1>1. /\ r \in sent /\ r \in Answers /\ r.type = "version"
        /\ callbackMap_[r.id].call = r.call /\ r.call \in asked
    BY AnswerFits
  <1>2. /\ getPortSingleton_(map, cb, Version(r.data))
        /\ replies' = replies \ {r}
        /\ UNCHANGED <<environment, sent, silent, asked, given>>
    BY <1>1 DEF responseHandler_
  <1>3. cb \in Callbacks /\ cb.call = r.call
    BY <1>1 DEF Sending, Callbacks, Kinds, Answers
  <1>4. /\ DOMAIN map = DOMAIN callbackMap_ \ {r.id}
        /\ \A id \in DOMAIN map : map[id] = callbackMap_[id]
    BY DEF Forget
  <1>5. Placed(waitingForPort_, map, given, others)
    <2>1. \A k \in DOMAIN callbackMap_ : callbackMap_[k].call \in Calls
      BY DEF IInv, TypeOK, Callbacks
    <2>2. QED
      BY <1>1, <2>1, PlacedForget DEF IInv
  <1> HIDE DEF map, cb
  <1>6. MapTyped(map)
    BY <1>4 DEF IInv, TypeOK, MapTyped
  <1>7. VersionFits(Version(r.data))
    BY <1>1 DEF VersionFits, Version, Versions, IInv, Said
  <1>8. Mail(map, given)
    <2>1. \A m \in posted : m.id \in DOMAIN map
      BY <1>1, <1>4 DEF IInv, Mail
    <2>2. \A m \in posted \cup sent : m.id = r.id => m.type = "version"
      BY <1>1 DEF IInv, Mail
    <2>3. \A m \in posted \cup sent :
            m.type = "send" /\ m.id \notin DOMAIN map => given[m.call] # <<>>
      BY <1>4, <2>2 DEF IInv, Mail
    <2>4. QED
      BY <1>4, <2>1, <2>3 DEF IInv, Mail
  <1>9. /\ Handed'
        /\ stage' \in Stages /\ draining' = draining
        /\ waitingForPort_' \in Seq(Callbacks)
        /\ Placed(waitingForPort_', callbackMap_', given, others \cup {cb.call})
    BY <1>2, <1>3, <1>5, <1>6, <1>7, <1>8, PortKeeps DEF IInv
  <1>10. Placed(waitingForPort_, callbackMap_, given, asked)'
    <2>1. others \cup {cb.call} = asked
      BY <1>1, <1>3
    <2>2. QED
      BY <1>2, <1>9, <2>1
  <1>11. TypeOK'
    BY <1>2, <1>9 DEF IInv, TypeOK, Handed, MapTyped, VersionFits, environment
  <1>12. Said'
    BY <1>2 DEF IInv, Said, environment
  <1>13. QED
    BY <1>9, <1>10, <1>11, <1>12 DEF IInv, Handed, VersionFits, VersionKnown

\* The answer to a call's own request: the call's callback is called with it.
LEMMA SendAnswerKeeps ==
    ASSUME IInv, NEW r \in replies, responseHandler_(r),
           r.id \in DOMAIN callbackMap_, callbackMap_[r.id].for = "send"
    PROVE  /\ IInv'
           /\ r.type = "send" /\ r.call \in Calls /\ r.data \in Decisions
           /\ given[r.call] = <<>>
           /\ given' = [given EXCEPT ![r.call] = <<r.data>>]
           /\ UNCHANGED <<environment, sent, asked>>
  <1> DEFINE map == Forget(callbackMap_, r.id)
  <1>1. /\ r \in sent /\ r \in Answers /\ r.type = "send"
        /\ callbackMap_[r.id].call = r.call /\ r.call \in asked /\ given[r.call] = <<>>
    BY AnswerFits
  <1>2. r.call \in Calls /\ r.data \in Decisions
    BY <1>1 DEF Answers, IInv, Said
  <1>3. /\ callbackMap_' = map
        /\ given' = [given EXCEPT ![r.call] = Append(given[r.call], r.data)]
        /\ replies' = replies \ {r}
        /\ UNCHANGED <<environment, opening, reqCounter_, js_api_version, posted,
                       sent, silent, asked>>
    BY <1>1 DEF responseHandler_
  <1>4. Append(given[r.call], r.data) = <<r.data>>
    BY <1>1
  <1>5. /\ given' = [given EXCEPT ![r.call] = <<r.data>>]
        /\ given' \in [Calls -> Seq(Decisions)]
        /\ given'[r.call] = <<r.data>>
        /\ given'[r.call] # <<>> /\ Len(given'[r.call]) = 1
        /\ \A c \in Calls : c # r.call => given'[c] = given[c]
    BY <1>2, <1>3, <1>4 DEF IInv, TypeOK
  <1>6. /\ DOMAIN map = DOMAIN callbackMap_ \ {r.id}
        /\ \A id \in DOMAIN map : map[id] = callbackMap_[id]
    BY DEF Forget
  <1> HIDE DEF map
  <1>7. TypeOK'
    BY <1>3, <1>5, <1>6 DEF IInv, TypeOK, environment, opening
  <1>8. Placed(waitingForPort_, callbackMap_, given, asked)'
    <2>1. Placed(waitingForPort_, callbackMap_, given, asked)
      BY DEF IInv
    <2>2. waitingForPort_' = waitingForPort_ /\ asked' = asked /\ asked \subseteq Calls
      BY <1>3 DEF opening, IInv, TypeOK
    <2>3. \A id \in DOMAIN callbackMap_ : id # r.id => callbackMap_[id].call # r.call
      BY <1>1, <2>1 DEF Placed
    <2>4. \A i \in DOMAIN waitingForPort_ : waitingForPort_[i].call # r.call
      BY <1>1, <2>1 DEF Placed
    <2>5. /\ \A i \in DOMAIN waitingForPort_ : waitingForPort_[i].call \in asked
          /\ \A i, j \in DOMAIN waitingForPort_ :
               waitingForPort_[i].call = waitingForPort_[j].call => i = j
          /\ \A id \in DOMAIN map : map[id].call \in asked
          /\ \A i, j \in DOMAIN map : map[i].call = map[j].call => i = j
          /\ \A i \in DOMAIN waitingForPort_, id \in DOMAIN map :
               waitingForPort_[i].call # map[id].call
      BY <1>6, <2>1 DEF Placed
    <2>6. ASSUME NEW c \in Calls, given'[c] # <<>>
          PROVE  /\ c \in asked
                 /\ Len(given'[c]) = 1
                 /\ \A i \in DOMAIN waitingForPort_ : waitingForPort_[i].call # c
                 /\ \A id \in DOMAIN map : map[id].call # c
      <3>1. CASE c = r.call
        BY <1>1, <1>5, <1>6, <2>3, <2>4, <3>1
      <3>2. CASE c # r.call
        BY <1>5, <1>6, <2>1, <2>6, <3>2 DEF Placed
      <3>3. QED
        BY <3>1, <3>2
    <2>7. ASSUME NEW c \in asked
          PROVE  \/ \E i \in DOMAIN waitingForPort_ : waitingForPort_[i].call = c
                 \/ \E id \in DOMAIN map : map[id].call = c
                 \/ given'[c] # <<>>
      <3>1. CASE c = r.call
        BY <1>5, <3>1
      <3>2. CASE c # r.call
        BY <1>1, <1>5, <1>6, <2>1, <2>2, <3>2 DEF Placed
      <3>3. QED
        BY <3>1, <3>2
    <2>8. QED
      BY <1>3, <2>2, <2>5, <2>6, <2>7 DEF Placed
  <1>9. Mail(callbackMap_, given)'
    <2>1. \A m \in posted : m.id \in DOMAIN map
      BY <1>1, <1>6 DEF IInv, Mail
    <2>2. \A m \in posted \cup sent : m.id = r.id => m.call = r.call
      BY <1>1 DEF IInv, Mail
    <2>3. \A m \in posted \cup sent : m.call \in Calls
      BY DEF IInv, TypeOK, Requests, Answers
    <2>4. ASSUME NEW m \in posted \cup sent, m.type = "send", m.id \notin DOMAIN map
          PROVE  given'[m.call] # <<>>
      <3>1. CASE m.call = r.call
        BY <1>5, <3>1
      <3>2. CASE m.call # r.call
        BY <1>5, <1>6, <2>2, <2>3, <2>4, <3>2 DEF IInv, Mail
      <3>3. QED
        BY <3>1, <3>2
    <2>5. QED
      BY <1>3, <1>6, <2>1, <2>4 DEF IInv, Mail
  <1>10. (Said /\ VersionKnown /\ FormatUnderstood)'
    BY <1>3 DEF IInv, Said, VersionKnown, FormatUnderstood, Mobile, environment
  <1>11. QED
    BY <1>1, <1>2, <1>3, <1>5, <1>7, <1>8, <1>9, <1>10 DEF IInv

\* An answer arrives.
LEMMA ResponseKeeps ==
    ASSUME IInv, NEW r \in replies, responseHandler_(r)
    PROVE  IInv'
  <1>1. CASE r.id \notin DOMAIN callbackMap_
    BY <1>1, DroppedKeeps DEF responseHandler_
  <1>2. CASE r.id \in DOMAIN callbackMap_
    <2>1. callbackMap_[r.id].for \in Kinds
      BY <1>2 DEF IInv, TypeOK, Callbacks
    <2>2. QED
      BY <1>2, <2>1, VersionAnswerKeeps, SendAnswerKeeps DEF Kinds
  <1>3. QED
    BY <1>1, <1>2

\* The extension answers a request.
LEMMA AnswerKeeps ==
    ASSUME IInv, NEW m \in posted, Answer(m)
    PROVE  /\ IInv'
           /\ UNCHANGED <<environment, asked, given>>
           /\ \E d \in Decisions \cup Versions :
                /\ m.type = "send" => d \in Decisions
                /\ sent' = sent \cup {[id |-> m.id, type |-> m.type, call |-> m.call, data |-> d]}
  <1>1. PICK d \in IF m.type = "send" THEN Decisions
                   ELSE {"error"} \cup ({speaks} \ {"1.0"}) :
          LET r == [id |-> m.id, type |-> m.type, call |-> m.call, data |-> d] IN
          /\ replies' = replies \cup {r}
          /\ sent' = sent \cup {r}
    BY DEF Answer
  <1> DEFINE r == [id |-> m.id, type |-> m.type, call |-> m.call, data |-> d]
  <1>2. /\ posted' = posted \ {m} /\ replies' = replies \cup {r} /\ sent' = sent \cup {r}
        /\ UNCHANGED <<environment, opening, reqCounter_, callbackMap_, js_api_version,
                       silent, asked, given>>
    BY <1>1 DEF Answer
  <1>3. /\ d \in Decisions \cup Versions
        /\ m.type = "send" => d \in Decisions
        /\ d = "1.1" => speaks = "1.1"
    <2>1. speaks \in Versions
      BY DEF Answer, IInv, TypeOK
    <2>2. QED
      BY <1>1, <2>1 DEF Decisions, Versions
  <1>4. m \in Requests
    BY DEF IInv, TypeOK
  <1>5. /\ r \in Answers
        /\ r.id = m.id /\ r.type = m.type /\ r.call = m.call /\ r.data = d
    BY <1>3, <1>4 DEF Requests, Answers
  <1> HIDE DEF r
  <1>6. TypeOK'
    BY <1>2, <1>5 DEF IInv, TypeOK, environment, opening
  <1>7. Placed(waitingForPort_, callbackMap_, given, asked)'
    BY <1>2 DEF IInv, Placed, opening
  <1>8. Mail(callbackMap_, given)'
    <2>1. /\ \A n \in posted' : n \in posted /\ n.id # m.id
          /\ \A n \in sent : n.id # m.id
      BY <1>2 DEF IInv, Mail
    <2>2. \A n \in sent' : n \in sent \/ n = r
      BY <1>2
    <2>3. \A n \in posted' : n.id \in DOMAIN callbackMap_
      BY <2>1 DEF IInv, Mail
    <2>4. /\ \A n \in posted' \cup sent' : n.id <= reqCounter_
          /\ \A n \in posted' \cup sent' : n.id \in DOMAIN callbackMap_ =>
               callbackMap_[n.id].for = n.type /\ callbackMap_[n.id].call = n.call
          /\ \A n \in posted' \cup sent' :
               n.type = "send" /\ n.id \notin DOMAIN callbackMap_ => given[n.call] # <<>>
      BY <1>5, <2>1, <2>2 DEF IInv, Mail
    <2>5. /\ \A n, o \in posted' : n.id = o.id => n = o
          /\ \A n, o \in sent' : n.id = o.id => n = o
          /\ \A n \in posted', o \in sent' : n.id # o.id
      BY <1>5, <2>1, <2>2 DEF IInv, Mail
    <2>6. \A n, o \in posted' \cup sent' :
            n.type = "send" /\ o.type = "send" /\ n.call = o.call => n.id = o.id
      BY <1>5, <2>1, <2>2 DEF IInv, Mail
    <2>7. QED
      BY <1>2, <2>3, <2>4, <2>5, <2>6 DEF Mail
  <1>9. Said'
    BY <1>2, <1>3, <1>5 DEF IInv, Said, environment
  <1>10. (VersionKnown /\ FormatUnderstood)'
    BY <1>2 DEF IInv, VersionKnown, FormatUnderstood, Mobile, environment
  <1>11. QED
    BY <1>2, <1>3, <1>6, <1>7, <1>8, <1>9, <1>10 DEF IInv, r

\* An answer is lost for want of data, or delivered once more.
LEMMA LostOrAgainKeeps ==
    ASSUME IInv, \/ \E m \in posted : AnswerWithoutData(m)
                 \/ \E r \in sent : AnswerAgain(r)
    PROVE  IInv' /\ UNCHANGED <<environment, sent, asked, given>>
  <1>1. /\ posted' \subseteq posted
        /\ replies' \subseteq sent
        /\ silent' \subseteq Calls
        /\ UNCHANGED <<environment, opening, reqCounter_, callbackMap_, js_api_version,
                       sent, asked, given>>
    BY DEF AnswerWithoutData, AnswerAgain, IInv, TypeOK, Requests
  <1>2. TypeOK'
    BY <1>1 DEF IInv, TypeOK, environment, opening
  <1>3. Placed(waitingForPort_, callbackMap_, given, asked)'
    BY <1>1 DEF IInv, Placed, opening
  <1>4. Mail(callbackMap_, given)'
    <2>1. posted' \cup sent' \subseteq posted \cup sent
      BY <1>1
    <2>2. QED
      BY <1>1, <2>1 DEF IInv, Mail
  <1>5. (Said /\ VersionKnown /\ FormatUnderstood)'
    BY <1>1 DEF IInv, Said, VersionKnown, FormatUnderstood, Mobile, environment
  <1>6. QED
    BY <1>1, <1>2, <1>3, <1>4, <1>5 DEF IInv
-------------------------------------------------------------------------------
LEMMA NextKeeps == IInv /\ [Next]_vars => IInv'
  <1> SUFFICES ASSUME IInv, [Next]_vars
               PROVE  IInv'
    OBVIOUS
  <1>1. CASE \E c \in Calls : Call(c)
    BY <1>1, CallKeeps
  <1>2. CASE Probed \/ PortTimeout \/ IframeReady
    BY <1>2, OpenedKeeps
  <1>3. CASE Drain
    BY <1>3, DrainKeeps
  <1>4. CASE \E r \in replies : responseHandler_(r)
    BY <1>4, ResponseKeeps
  <1>5. CASE \E m \in posted : Answer(m)
    BY <1>5, AnswerKeeps
  <1>6. CASE \/ \E m \in posted : AnswerWithoutData(m)
             \/ \E r \in sent : AnswerAgain(r)
    BY <1>6, LostOrAgainKeeps
  <1>7. CASE UNCHANGED vars
    <2>1. stage' \in Stages /\ draining' \in BOOLEAN
      BY <1>7 DEF vars, opening, IInv, TypeOK
    <2>2. QED
      BY <1>7, <2>1, StageKeeps DEF vars, opening
  <1>8. QED
    BY <1>1, <1>2, <1>3, <1>4, <1>5, <1>6, <1>7 DEF Next

LEMMA Invariant == Spec => []IInv
  BY InitHolds, NextKeeps, PTL DEF Spec

\* For any number of calls, the state of the page's end is of its type.
THEOREM TypeCorrect == Spec => []TypeOK
  BY Invariant, PTL DEF IInv

\* For any number of calls: however the answer about the version and the calls
\* that wait for it come to stand, no request goes out in a format that the
\* extension does not understand.
THEOREM FormatAlwaysUnderstood == Spec => []FormatUnderstood
  BY Invariant, PTL DEF IInv
-------------------------------------------------------------------------------
\* A set of places of which no two differ counts one, or none.
LEMMA AtMostOne ==
    ASSUME NEW S, \A x, y \in S : x = y
    PROVE  Cardinality(S) = IF S = {} THEN 0 ELSE 1
  <1>1. CASE S = {}
    BY <1>1, FS_EmptySet
  <1>2. CASE S # {}
    <2>1. PICK x \in S : TRUE
      BY <1>2
    <2>2. S = {x}
      BY <2>1
    <2>3. QED
      BY <1>2, <2>2, FS_Singleton
  <1>3. QED
    BY <1>1, <1>2

\* For any number of calls, a call that was made waits for the port, is noted
\* for an answer or has been answered, once, and is never in two of these places.
THEOREM AlwaysOnePlace == Spec => []OnePlace
  <1>1. IInv => OnePlace
    <2> SUFFICES ASSUME IInv, NEW c \in Calls
                 PROVE  Places(c) = IF c \in asked THEN 1 ELSE 0
      BY DEF OnePlace
    <2> DEFINE Waiting == {i \in DOMAIN waitingForPort_ : waitingForPort_[i].call = c}
               Noted == {id \in DOMAIN callbackMap_ : callbackMap_[id].call = c}
    <2>1. Placed(waitingForPort_, callbackMap_, given, asked)
      BY DEF IInv
    <2>2. Cardinality(Waiting) = IF Waiting = {} THEN 0 ELSE 1
      <3>1. \A i, j \in Waiting : i = j
        BY <2>1 DEF Placed
      <3>2. QED
        BY <3>1, AtMostOne
    <2>3. Cardinality(Noted) = IF Noted = {} THEN 0 ELSE 1
      <3>1. \A i, j \in Noted : i = j
        BY <2>1 DEF Placed
      <3>2. QED
        BY <3>1, AtMostOne
    <2>4. Len(given[c]) = IF given[c] = <<>> THEN 0 ELSE 1
      BY <2>1 DEF Placed, IInv, TypeOK
    <2>5. c \in asked <=> Waiting # {} \/ Noted # {} \/ given[c] # <<>>
      BY <2>1 DEF Placed
    <2>6. /\ ~(Waiting # {} /\ Noted # {})
          /\ given[c] # <<>> => Waiting = {} /\ Noted = {}
      BY <2>1 DEF Placed
    <2>7. Places(c) = Cardinality(Waiting) + Cardinality(Noted) + Len(given[c])
      BY DEF Places
    <2> HIDE DEF Waiting, Noted
    <2>8. QED
      BY <2>2, <2>3, <2>4, <2>5, <2>6, <2>7
  <1>2. QED
    BY <1>1, Invariant, PTL
-------------------------------------------------------------------------------
\* The promise.

\* The key's answers to a call.
Own(c) == {r \in sent : r.type = "send" /\ r.call = c}

\* What the one answer of a set says.
Says(answers) == (CHOOSE r \in answers : TRUE).data

\* `decided` by the answers to each call, before and after a step.
LEMMA DecidedByOwn ==
    /\ decided = [c \in Calls |-> IF ~Listens \/ Own(c) = {} THEN None ELSE Says(Own(c))]
    /\ decided' = [c \in Calls |->
          IF ~Listens' \/ Own(c)' = {} THEN None ELSE Says(Own(c)')]
  BY DEF decided, Own, Says

\* A call has one answer at most, so `decided` is what that answer says.
LEMMA DecidedOnce ==
    ASSUME IInv, Listens, NEW r \in sent, r.type = "send"
    PROVE  decided[r.call] = r.data
  <1>1. r.call \in Calls
    BY DEF IInv, TypeOK, Answers
  <1>2. Own(r.call) = {r}
    BY DEF Own, IInv, Mail
  <1>3. (CHOOSE x \in Own(r.call) : TRUE) = r
    BY <1>2
  <1>4. QED
    BY <1>1, <1>2, <1>3 DEF decided, Own

\* What the promise speaks of is left alone by a step that makes no call, gives
\* no answer and sends none.
LEMMA NothingPromised ==
    ASSUME UNCHANGED <<platform, sent, asked, given>>
    PROVE  UNCHANGED Promise!promised
  BY DEF Promise!promised, decided, Listens

\* For any number of calls, a step of the page, the extension or the network
\* is a step the promise allows (a call is made once, decided once after that,
\* and its callback given that decision once) or changes nothing it speaks of.
THEOREM StepsAsPromised ==
    Spec => Promise!PromiseInit /\ [][Promise!PromiseNext]_Promise!promised
  <1>1. Init => Promise!PromiseInit
    BY DEF Init, Promise!PromiseInit, decided
  <1>2. ASSUME IInv, [Next]_vars
        PROVE  [Promise!PromiseNext]_Promise!promised
    <2>1. ASSUME NEW c \in Calls, Call(c)
          PROVE  Promise!PromiseNext
      <3>1. decided' = decided
        BY <2>1 DEF Call, environment, answering, decided, Listens
      <3>2. Promise!Ask(c)
        BY <2>1, <3>1 DEF Call, Promise!Ask
      <3>3. QED
        BY <3>2 DEF Promise!PromiseNext
    <2>2. CASE Probed \/ PortTimeout \/ IframeReady \/ Drain
      BY <2>2, NothingPromised
         DEF Probed, PortTimeout, IframeReady, Opened, Drain, environment, answering
    <2>3. ASSUME NEW r \in replies, responseHandler_(r)
          PROVE  Promise!PromiseNext \/ UNCHANGED Promise!promised
      <3>1. CASE r.id \in DOMAIN callbackMap_ /\ callbackMap_[r.id].for = "send"
        <4>1. /\ r.type = "send" /\ r.call \in Calls /\ r.data \in Decisions
              /\ given[r.call] = <<>>
              /\ given' = [given EXCEPT ![r.call] = <<r.data>>]
              /\ UNCHANGED <<environment, sent, asked>>
          BY <1>2, <2>3, <3>1, SendAnswerKeeps
        <4>2. decided' = decided
          BY <4>1 DEF decided, Listens, environment
        <4>3. decided[r.call] = r.data /\ r.data # None
          <5>1. Listens /\ r \in sent
            BY <1>2, <2>3 DEF responseHandler_, IInv, TypeOK
          <5>2. QED
            BY <1>2, <4>1, <5>1, DecidedOnce, NoneAssumption DEF Decisions
        <4>4. Promise!Give(r.call)
          BY <4>1, <4>2, <4>3 DEF Promise!Give
        <4>5. QED
          BY <4>1, <4>4 DEF Promise!PromiseNext
      <3>2. CASE ~(r.id \in DOMAIN callbackMap_ /\ callbackMap_[r.id].for = "send")
        BY <2>3, <3>2, NothingPromised DEF responseHandler_, environment
      <3>3. QED
        BY <3>1, <3>2
    <2>4. ASSUME NEW m \in posted, Answer(m)
          PROVE  Promise!PromiseNext \/ UNCHANGED Promise!promised
      <3>1. PICK d \in Decisions \cup Versions :
              /\ m.type = "send" => d \in Decisions
              /\ sent' = sent \cup {[id |-> m.id, type |-> m.type, call |-> m.call, data |-> d]}
        BY <1>2, <2>4, AnswerKeeps
      <3> DEFINE r == [id |-> m.id, type |-> m.type, call |-> m.call, data |-> d]
      <3>2. /\ UNCHANGED <<environment, asked, given>>
            /\ IInv'
        BY <1>2, <2>4, AnswerKeeps
      <3>3. m \in Requests /\ r.id = m.id /\ r.type = m.type /\ r.call = m.call /\ r.data = d
        BY <1>2 DEF IInv, TypeOK
      <3>4. m.call \in Calls
        BY <3>3 DEF Requests
      <3> HIDE DEF r
      <3>5. sent' = sent \cup {r}
        BY <3>1 DEF r
      <3>6. CASE ~Listens \/ m.type # "send"
        <4>1. Listens' = Listens
          BY <3>2 DEF Listens, environment
        <4>2. decided' = decided
          <5>1. CASE ~Listens
            BY <4>1, <5>1 DEF decided
          <5>2. CASE m.type # "send"
            <6>1. \A c \in Calls : Own(c)' = Own(c)
              BY <3>3, <3>5, <5>2 DEF Own
            <6>2. QED
              BY <4>1, <6>1, DecidedByOwn
          <5>3. QED
            BY <3>6, <5>1, <5>2
        <4>3. QED
          BY <3>2, <4>2 DEF Promise!promised
      <3>7. CASE Listens /\ m.type = "send"
        <4>1. m.call \in asked
          BY <1>2, <3>4 DEF IInv, Mail, Placed
        <4>2. Own(m.call) = {}
          BY <1>2, <3>7 DEF Own, IInv, Mail
        <4>3. decided[m.call] = None
          BY <3>4, <4>2 DEF decided, Own
        <4>4. Own(m.call)' = {r}
          BY <3>3, <3>5, <3>7, <4>2 DEF Own
        <4>5. \A c \in Calls : c # m.call => Own(c)' = Own(c)
          BY <3>3, <3>5 DEF Own
        <4>6. (CHOOSE x \in Own(m.call)' : TRUE) = r
          BY <4>4
        <4>7. Listens'
          BY <3>2, <3>7 DEF Listens, environment
        <4>8. decided' = [decided EXCEPT ![m.call] = d]
          <5>1. \A c \in Calls : decided'[c] = IF c = m.call THEN d ELSE decided[c]
            <6>1. ASSUME NEW c \in Calls, c = m.call
                  PROVE  decided'[c] = d
              BY <3>3, <4>4, <4>6, <4>7, <6>1 DEF decided, Own
            <6>2. ASSUME NEW c \in Calls, c # m.call
                  PROVE  decided'[c] = decided[c]
              BY <3>7, <4>5, <4>7, <6>2, DecidedByOwn
            <6>3. QED
              BY <6>1, <6>2
          <5>2. decided' = [c \in Calls |-> decided'[c]] /\ decided = [c \in Calls |-> decided[c]]
            BY DEF decided
          <5>3. QED
            BY <5>1, <5>2
        <4>9. Promise!Decide(m.call, d) /\ d \in Decisions
          BY <3>1, <3>2, <3>7, <4>1, <4>3, <4>8 DEF Promise!Decide
        <4>10. QED
          BY <3>4, <4>9 DEF Promise!PromiseNext
      <3>8. QED
        BY <3>6, <3>7
    <2>5. CASE \/ \E m \in posted : AnswerWithoutData(m)
               \/ \E r \in sent : AnswerAgain(r)
      BY <1>2, <2>5, LostOrAgainKeeps, NothingPromised DEF environment
    <2>6. CASE UNCHANGED vars
      BY <2>6, NothingPromised DEF vars, environment, answering
    <2>7. QED
      BY <1>2, <2>1, <2>2, <2>3, <2>4, <2>5, <2>6 DEF Next
  <1>3. QED
    BY <1>1, <1>2, Invariant, PTL DEF Spec
===============================================================================
