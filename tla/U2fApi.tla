-------------------------------- MODULE U2fApi --------------------------------
(***************************************************************************)
(* The page's end of a conversation with a security key: u2f-api.js.      *)
(* Calls wait for a port, the first of them opens it; the extension is    *)
(* asked for its version before the first request; answers find their     *)
(* callback by request id.  JavaScript runs a task to its end, so every   *)
(* action is a task, but for the loop that empties the queue of waiting   *)
(* callbacks, of which every turn is one.  The extension (on a telephone, *)
(* the app) is not under src/: it answers what is posted, in any order,   *)
(* perhaps twice, and learns of its deadline from the request.            *)
(***************************************************************************)
EXTENDS Naturals, Sequences, FiniteSets

CONSTANTS Calls, \* calls of u2f.sign and u2f.register, by what they ask
          None   \* no version, no extension, no decision

ASSUME NoneAssumption == None \notin {"ok", "error", "1.0", "1.1"}

Decisions == {"ok", "error"}
Versions == {"1.0", "1.1"} \* the code's 0 is a 1.0 extension
Platforms == {"runtime", "extensionless", "android", "ios"}
Stages == {"none", "probing", "direct", "iframe", "android", "ios", "open"}

VARIABLES
    platform,        \* how the browser lets a page reach a key
    speaks,          \* what the extension understands, None if there is none
    stage,           \* how far getMessagePort has come
    draining,        \* the loop over waitingForPort_ is running
    waitingForPort_,
    reqCounter_,
    callbackMap_,
    js_api_version,
    posted,          \* requests on the port that are not answered
    replies,         \* answers on their way to the page
    sent,            \* every answer the extension has sent
    silent,          \* calls whose answer had no data
    asked,           \* calls made
    given            \* what each call's callback was called with

environment == <<platform, speaks>>
opening == <<stage, draining, waitingForPort_>>
answering == <<replies, sent, silent>>
vars == <<environment, opening, reqCounter_, callbackMap_, js_api_version,
          posted, answering, asked, given>>

Kinds == {"version", "send"}
Callbacks == [for : Kinds, call : Calls]
Requests == [id : Nat, type : Kinds, format : Versions, call : Calls]
Answers == [id : Nat, type : Kinds, call : Calls, data : Decisions \cup Versions]

TypeOK ==
    /\ platform \in Platforms
    /\ speaks \in Versions \cup {None}
    /\ stage \in Stages
    /\ draining \in BOOLEAN
    /\ waitingForPort_ \in Seq(Callbacks)
    /\ reqCounter_ \in Nat
    /\ DOMAIN callbackMap_ \subseteq 1 .. reqCounter_
    /\ \A id \in DOMAIN callbackMap_ : callbackMap_[id] \in Callbacks
    /\ js_api_version \in Versions \cup {None}
    /\ posted \subseteq Requests
    /\ sent \subseteq Answers
    /\ replies \subseteq sent
    /\ silent \subseteq Calls
    /\ asked \subseteq Calls
    /\ given \in [Calls -> Seq(Decisions)]

Init ==
    /\ platform \in Platforms
    /\ speaks \in Versions \cup {None}
    /\ stage = "none"
    /\ draining = FALSE
    /\ waitingForPort_ = <<>>
    /\ reqCounter_ = 0
    /\ callbackMap_ = [id \in {} |-> None]
    /\ js_api_version = None
    /\ posted = {}
    /\ replies = {}
    /\ sent = {}
    /\ silent = {}
    /\ asked = {}
    /\ given = [c \in Calls |-> <<>>]
-------------------------------------------------------------------------------
\* The port.

port_ == stage = "open"
Mobile == platform \in {"android", "ios"}

\* What getMessagePort starts with on this browser.
getMessagePort ==
    CASE platform = "runtime"       -> "probing"
      [] platform = "extensionless" -> "iframe"
      [] OTHER                      -> platform

\* formatSignRequest_ and formatRegisterRequest_ choose by version alone.
Format(version) == IF version = "1.1" THEN "1.1" ELSE "1.0"

\* Mutant: the callback is called and kept.
Forget_Not(map, id) == map
Forget(map, id) == [i \in DOMAIN map \ {id} |-> map[i]]

\* Mutant: the id is taken without counting it.
Post_Uncounted(map, cb, version) ==
    LET id == reqCounter_ + 1 IN
    /\ reqCounter_' = reqCounter_
    /\ callbackMap_' = [i \in DOMAIN map \cup {id} |-> IF i = id THEN cb ELSE map[i]]
    /\ js_api_version' = version
    /\ posted' = posted \cup
         {[id |-> id, type |-> cb.for, format |-> Format(version), call |-> cb.call]}

\* A request is numbered, its callback noted and the request posted; the
\* version known by then is `version`, the callbacks noted before, `map`.
Post(map, cb, version) ==
    LET id == reqCounter_ + 1 IN
    /\ reqCounter_' = id
    /\ callbackMap_' = [i \in DOMAIN map \cup {id} |-> IF i = id THEN cb ELSE map[i]]
    /\ js_api_version' = version
    /\ posted' = posted \cup
         {[id |-> id, type |-> cb.for, format |-> Format(version), call |-> cb.call]}

Sending(c) == [for |-> "send", call |-> c]

\* A callback that waited for the port is called with it.  A telephone's
\* version is known without asking, so the request itself goes out.
WithPort(map, cb, version) ==
    IF cb.for = "version" /\ Mobile
    THEN Post(map, Sending(cb.call), "1.1")
    ELSE Post(map, cb, version)

\* Mutant: only the callback that opens the port waits for it.
getPortSingleton_Lone(map, cb, version) ==
    \/ /\ port_
       /\ WithPort(map, cb, version)
       /\ UNCHANGED opening
    \/ /\ ~port_
       /\ stage' = IF waitingForPort_ = <<>> THEN getMessagePort ELSE stage
       /\ waitingForPort_' = IF waitingForPort_ = <<>> THEN <<cb>> ELSE waitingForPort_
       /\ callbackMap_' = map
       /\ js_api_version' = version
       /\ UNCHANGED <<draining, reqCounter_, posted>>

getPortSingleton_(map, cb, version) ==
    \/ /\ port_
       /\ WithPort(map, cb, version)
       /\ UNCHANGED opening
    \/ /\ ~port_
       /\ stage' = IF waitingForPort_ = <<>> THEN getMessagePort ELSE stage
       /\ waitingForPort_' = Append(waitingForPort_, cb)
       /\ callbackMap_' = map
       /\ js_api_version' = version
       /\ UNCHANGED <<draining, reqCounter_, posted>>

\* chrome.runtime.sendMessage came back, without an error or with one.
Probed ==
    /\ stage = "probing"
    /\ ~draining
    /\ stage' \in IF speaks = None THEN {"iframe"} ELSE {"direct", "iframe"}
    /\ UNCHANGED <<environment, draining, waitingForPort_, reqCounter_, callbackMap_,
                   js_api_version, posted, answering, asked, given>>

\* getMessagePort calls back: the port is set and the queue is emptied.
Opened ==
    /\ stage' = "open"
    /\ draining' = TRUE
    /\ UNCHANGED <<environment, waitingForPort_, reqCounter_, callbackMap_,
                   js_api_version, posted, answering, asked, given>>

\* The timeouts that make the other ports asynchronous.
PortTimeout == stage \in {"direct", "android", "ios"} /\ Opened

\* The extension's iframe says "ready".
IframeReady == stage = "iframe" /\ speaks # None /\ Opened

\* Mutant: `if` for `while`.
Drain_Once ==
    /\ draining
    /\ draining' = FALSE
    /\ waitingForPort_ # <<>>
    /\ waitingForPort_' = Tail(waitingForPort_)
    /\ WithPort(callbackMap_, Head(waitingForPort_), js_api_version)
    /\ UNCHANGED <<environment, stage, answering, asked, given>>

\* while (u2f.waitingForPort_.length) u2f.waitingForPort_.shift()(u2f.port_)
Drain ==
    /\ draining
    /\ \/ /\ waitingForPort_ = <<>>
          /\ draining' = FALSE
          /\ UNCHANGED <<waitingForPort_, reqCounter_, callbackMap_, js_api_version, posted>>
       \/ /\ waitingForPort_ # <<>>
          /\ waitingForPort_' = Tail(waitingForPort_)
          /\ WithPort(callbackMap_, Head(waitingForPort_), js_api_version)
          /\ UNCHANGED draining
    /\ UNCHANGED <<environment, stage, answering, asked, given>>
-------------------------------------------------------------------------------
\* What a call does once it has the port: u2f.sign and u2f.register alike ask
\* for the version before their first request.
FirstCallback(c) == [for |-> IF js_api_version = None THEN "version" ELSE "send", call |-> c]

\* u2f.sign and u2f.register.
Call(c) ==
    /\ ~draining
    /\ c \notin asked
    /\ asked' = asked \cup {c}
    /\ getPortSingleton_(callbackMap_, FirstCallback(c), js_api_version)
    /\ UNCHANGED <<environment, answering, given>>

\* Mutant: an extension that does not say is taken for a new one.
Version_Newest(data) == IF data \in Versions THEN data ELSE "1.1"

\* The version in an answer, 0 when the answer is an error.
Version(data) == IF data \in Versions THEN data ELSE "1.0"

\* WrappedIosPort_ registers no listener.
Listens == platform # "ios"

\* An answer arrives.
responseHandler_(r) ==
    /\ ~draining
    /\ Listens
    /\ r \in replies
    /\ replies' = replies \ {r}
    /\ \/ /\ r.id \notin DOMAIN callbackMap_
          /\ UNCHANGED <<opening, reqCounter_, callbackMap_, js_api_version, posted, given>>
       \/ /\ r.id \in DOMAIN callbackMap_
          /\ LET cb == callbackMap_[r.id]
                 map == Forget(callbackMap_, r.id)
             IN \/ /\ cb.for = "version"
                   /\ getPortSingleton_(map, Sending(cb.call), Version(r.data))
                   /\ UNCHANGED given
                \/ /\ cb.for = "send"
                   /\ callbackMap_' = map
                   /\ given' = [given EXCEPT ![cb.call] = Append(@, r.data)]
                   /\ UNCHANGED <<opening, reqCounter_, js_api_version, posted>>
    /\ UNCHANGED <<environment, sent, silent, asked>>
-------------------------------------------------------------------------------
\* The extension answers a request.  An old one does not know the version
\* request and says so.
Answer(m) ==
    /\ m \in posted
    /\ speaks # None
    /\ posted' = posted \ {m}
    /\ \E data \in IF m.type = "send" THEN Decisions
                   ELSE {"error"} \cup ({speaks} \ {"1.0"}) :
         LET r == [id |-> m.id, type |-> m.type, call |-> m.call, data |-> data] IN
         /\ replies' = replies \cup {r}
         /\ sent' = sent \cup {r}
    /\ UNCHANGED <<environment, opening, reqCounter_, callbackMap_, js_api_version,
                   silent, asked, given>>

\* An error that Android reports without data: onRequestUpdate_ passes on a
\* null that responseHandler_ cannot read a request id from.
AnswerWithoutData(m) ==
    /\ m \in posted
    /\ platform = "android"
    /\ speaks # None
    /\ posted' = posted \ {m}
    /\ silent' = silent \cup {m.call}
    /\ UNCHANGED <<environment, opening, reqCounter_, callbackMap_, js_api_version,
                   replies, sent, asked, given>>

\* An answer is delivered a second time.
AnswerAgain(r) ==
    /\ r \in sent \ replies
    /\ replies' = replies \cup {r}
    /\ UNCHANGED <<environment, opening, reqCounter_, callbackMap_, js_api_version,
                   posted, sent, silent, asked, given>>

Next ==
    \/ \E c \in Calls : Call(c)
    \/ Probed \/ PortTimeout \/ IframeReady \/ Drain
    \/ \E r \in replies : responseHandler_(r)
    \/ \E m \in posted : Answer(m) \/ AnswerWithoutData(m)
    \/ \E r \in sent : AnswerAgain(r)

Spec == Init /\ [][Next]_vars

\* A call uses two request ids at most.
Ids == 1 .. 2 * Cardinality(Calls)

\* The browser runs the tasks that are due, and the extension answers every
\* request by the deadline posted with it.
Fairness ==
    /\ WF_vars(Probed)
    /\ WF_vars(PortTimeout)
    /\ WF_vars(IframeReady)
    /\ WF_vars(Drain)
    /\ \A id \in Ids :
         /\ WF_vars(\E r \in replies : r.id = id /\ responseHandler_(r))
         /\ WF_vars(\E m \in posted : m.id = id /\ (Answer(m) \/ AnswerWithoutData(m)))

FairSpec == Spec /\ Fairness
-------------------------------------------------------------------------------
\* A request goes out in the 1.1 format only to an extension that speaks it.
FormatUnderstood ==
    ~Mobile =>
        \A m \in posted : m.format = "1.1" => speaks = "1.1"

\* A call that was made is somewhere: waiting for the port, noted for an
\* answer, or answered, and in one of these places only.
Places(c) ==
    Cardinality({i \in DOMAIN waitingForPort_ : waitingForPort_[i].call = c})
    + Cardinality({id \in DOMAIN callbackMap_ : callbackMap_[id].call = c})
    + Len(given[c])
OnePlace == \A c \in Calls : Places(c) = IF c \in asked THEN 1 ELSE 0

\* Every call is answered, where there is something to answer it and the
\* answer can be read.
EveryCallAnswered ==
    \A c \in Calls :
        c \in asked ~> \/ given[c] # <<>>
                       \/ c \in silent
                       \/ speaks = None
                       \/ ~Listens

\* The key's decision on each call, once there is one that the page listens to.
decided ==
    [c \in Calls |->
        LET own == {r \in sent : r.type = "send" /\ r.call = c} IN
        IF ~Listens \/ own = {} THEN None ELSE (CHOOSE r \in own : TRUE).data]

Promise == INSTANCE OneAnswer
KeepsPromise == Promise!PromiseSpec
===============================================================================
