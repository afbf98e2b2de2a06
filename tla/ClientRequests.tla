--------------------------- MODULE ClientRequests ---------------------------
(***************************************************************************)
(* Requests of a client over a connection that works until it is lost.     *)
(* Both clients number their attempts and keep a route and a callback for  *)
(* each.  The UDP client also starts a timer for every attempt, which is   *)
(* never cleared: it deletes the callback of the latest attempt, whatever  *)
(* request that belongs to, and tries again even if an answer came.  On    *)
(* UDP a frame under way may never arrive.                                 *)
(*                                                                         *)
(* The frontend's router passes a message through its filter to the        *)
(* controller, which it runs itself or asks a backend server for.          *)
(* Controllers run concurrently, and calls to a backend may fail.          *)
(***************************************************************************)
EXTENDS WireProtocol, FiniteSets

CONSTANTS
    MaxCalls,        \* bound on the calls of request(), which are 1, 2, ...
    MaxReqAttempts,  \* the option maxRequestAttempts of the UDP client
    FirstIds         \* values of reqId at which the model starts

ASSUME BoundsAssumption == MaxCalls \in Nat \ {0} /\ MaxReqAttempts \in Nat \ {0}

Calls == 1 .. MaxCalls
MaxAttempts == MaxReqAttempts * MaxCalls + 1   \* bound, one above what can be needed

ASSUME FirstIdsAssumption == FirstIds \subseteq Nat /\ \A id \in FirstIds : id + MaxAttempts <= MaxId

ROUTE == <<97, 46, 233, 8364>>   \* "a.", and a character of two and of three bytes

VARIABLES
    transport,   \* "ws" or "udp"
    first,       \* the member of FirstIds the client starts at
    place,       \* where the route leads: to a controller at the "frontend" or a
                 \* "backend", "nowhere", or it is "untyped", naming no server type
    nexts,       \* how often the filter calls next(), of which it returns the last
    open,        \* the client's socket is open and the server's works
    tries,       \* the attempts in the order of their ids: call, and attempts left
    routeMap, callbacks, timers,
    result, answer,     \* of each call: its outcome, and the call whose value it got
    asks, running, answers,    \* frames to the server, handleMessage(), frames to the client
    jobs,        \* calls of the router: "asked" of a backend, "running", "ok", "error"
    ran          \* history: how often the controller ran for a call

client == <<tries, routeMap, callbacks, timers, result, answer>>
server == <<running, jobs, ran>>
options == <<transport, first, place, nexts>>
rvars == <<options, open, client, server, asks, answers>>

RInit ==
    /\ transport \in {"ws", "udp"} /\ first \in FirstIds
    /\ place \in {"frontend", "backend", "nowhere", "untyped"} /\ nexts \in {1, 2}
    /\ transport = "udp" => place = "frontend" /\ nexts = 1   \* bound
    /\ open = TRUE
    /\ tries = <<>> /\ routeMap = {} /\ callbacks = {} /\ timers = {}
    /\ result = [c \in Calls |-> "none"] /\ answer = [c \in Calls |-> 0]
    /\ asks = {} /\ running = {} /\ answers = {}
    /\ jobs = {} /\ ran = [c \in Calls |-> 0]

reqId == first + Len(tries)
Try(id) == tries[id - first]

Frame(type, id, route, body) ==
    EncodePackage(DATA, EncodeMessage([type |-> type, id |-> id, route |-> route, body |-> body]))

\* The messages of a frame.
Messages(f) ==
    LET packages == DecodePackages(f) IN {DecodeMessage(packages[k].body) : k \in DOMAIN packages}

Settle(c, value, outcome) ==
    IF result[c] = "pending"
    THEN /\ result' = [result EXCEPT ![c] = outcome]
         /\ answer' = [answer EXCEPT ![c] = value]
    ELSE UNCHANGED <<result, answer>>

\* The part of request() that both clients have.
Attempt(c, n) ==
    /\ Len(tries) < MaxAttempts
    /\ tries' = Append(tries, [call |-> c, left |-> n])
    /\ routeMap' = routeMap \union {reqId + 1}
    /\ asks' = IF open THEN asks \union {Frame(REQUEST, reqId + 1, ROUTE, <<c>>)} ELSE asks
    /\ UNCHANGED <<options, open, server, answers>>

Called(c) ==
    /\ result[c] = "none"
    /\ result' = [result EXCEPT ![c] = "pending"]
    /\ callbacks' = callbacks \union {reqId + 1}
    /\ UNCHANGED answer

RequestOverWS(c) ==
    /\ transport = "ws"
    /\ Called(c) /\ Attempt(c, 0)
    /\ UNCHANGED timers

\* notify(): without an id, a callback or an answer.
Notify(c) ==
    /\ transport = "ws" /\ open          \* bound
    /\ result[c] = "none"
    /\ result' = [result EXCEPT ![c] = "told"]
    /\ asks' = asks \union {Frame(NOTIFY, 0, ROUTE, <<c>>)}
    /\ UNCHANGED <<options, open, tries, routeMap, callbacks, timers, answer, server, answers>>

\* Mutant: the first attempt is not counted.
RequestOverUDPOneMore(c) ==
    /\ transport = "udp"
    /\ Called(c) /\ Attempt(c, MaxReqAttempts)
    /\ timers' = timers \union {reqId + 1}

RequestOverUDP(c) ==
    /\ transport = "udp"
    /\ Called(c) /\ Attempt(c, MaxReqAttempts - 1)
    /\ timers' = timers \union {reqId + 1}

\* Mutant: every attempt has all the others before it.
RequestTimeoutAnew(id) ==
    /\ id \in timers
    /\ Attempt(Try(id).call, MaxReqAttempts - 1)
    /\ timers' = (timers \ {id}) \union {reqId + 1}
    /\ callbacks' = (callbacks \ {reqId}) \union {reqId + 1}
    /\ UNCHANGED <<result, answer>>

\* Mutant: an attempt without a callback is taken for an answered one.
RequestTimeoutIfCalled(id) ==
    /\ id \in timers
    /\ timers' = timers \ {id}
    /\ callbacks' = callbacks \ {reqId}
    /\ IF id \in callbacks THEN Settle(Try(id).call, 0, "timeout") ELSE UNCHANGED <<result, answer>>
    /\ UNCHANGED <<options, open, tries, routeMap, server, asks, answers>>

\* The timer of an attempt.
RequestTimeout(id) ==
    /\ id \in timers
    /\ \/ /\ Try(id).left = 0
          /\ timers' = timers \ {id}
          /\ callbacks' = callbacks \ {reqId}
          /\ Settle(Try(id).call, 0, "timeout")
          /\ UNCHANGED <<options, open, tries, routeMap, server, asks, answers>>
       \/ /\ Try(id).left > 0
          /\ Attempt(Try(id).call, Try(id).left - 1)
          /\ timers' = (timers \ {id}) \union {reqId + 1}
          /\ callbacks' = (callbacks \ {reqId}) \union {reqId + 1}
          /\ UNCHANGED <<result, answer>>

\* Mutant: as in the timer, the latest id is used for the one at hand.
ReceiveLatest(f) ==
    LET m == CHOOSE m \in Messages(f) : TRUE
        value == m.body[2]
    IN
    /\ open /\ f \in answers
    /\ answers' = answers \ {f}
    /\ routeMap' = routeMap \ {m.id}
    /\ Settle(Try(reqId).call, value, "ok")
    /\ UNCHANGED <<callbacks, options, open, tries, timers, server, asks>>

\* Mutant: an answer that reports an error is dropped.
ReceiveOk(f) ==
    LET m == CHOOSE m \in Messages(f) : TRUE IN
    /\ open /\ f \in answers
    /\ answers' = answers \ {f}
    /\ routeMap' = routeMap \ {m.id}
    /\ callbacks' = callbacks \ {m.id}
    /\ IF m.body[1] = 0 THEN Settle(Try(m.id).call, m.body[2], "ok") ELSE UNCHANGED <<result, answer>>
    /\ UNCHANGED <<options, open, tries, timers, server, asks>>

\* decode() and onMessage(): an answer without a route or a callback is dropped.
Receive(f) ==
    LET m == CHOOSE m \in Messages(f) : TRUE
        outcome == IF m.body[1] = 0 THEN "ok" ELSE "error"
    IN
    /\ open /\ f \in answers
    /\ answers' = answers \ {f}
    /\ routeMap' = routeMap \ {m.id}
    /\ \/ /\ m.id \in routeMap \intersect callbacks
          /\ callbacks' = callbacks \ {m.id}
          /\ Settle(Try(m.id).call, m.body[2], outcome)
       \/ /\ m.id \notin routeMap \intersect callbacks
          /\ UNCHANGED <<callbacks, result, answer>>
    /\ UNCHANGED <<options, open, tries, timers, server, asks>>

-----------------------------------------------------------------------------
\* Mutant: a notification is answered like a request.
AnswerAlways(m, code) ==
    answers' = answers \union {Frame(RESPONSE, m.id, <<>>, <<code, m.body[1]>>)}

\* The end of handleMessage(): a notification is not answered.
Answer(m, code) ==
    answers' = IF m.id = 0
               THEN answers
               ELSE answers \union {Frame(RESPONSE, m.id, <<>>, <<code, m.body[1]>>)}

\* The calls of dispatch() in compose(), by the index of what they run: the
\* filter, and the router each time the filter calls next().
Dispatches == <<0>> \o [k \in 1 .. nexts |-> 1]

\* Mutant: next() may be called again.
PassesAlways(k) == TRUE

\* dispatch() rejects an index that is not above all before it.
Passes(k) == \A j \in 1 .. k - 1 : Dispatches[j] < Dispatches[k]

\* The calls of the router that a message leads to.
Jobs(m) ==
    {[msg |-> m, number |-> k, at |-> IF place = "frontend" THEN "running" ELSE "asked"] :
        k \in {k \in DOMAIN Dispatches : Dispatches[k] = 1 /\ Passes(k)}}

Ran(m, times) == ran' = [ran EXCEPT ![m.body[1]] = @ + times]

\* RouterComponent.invoke().
Invoke(m) ==
    \/ /\ place = "nowhere"         \* no such route, or no server for it
       /\ Answer(m, 1)
       /\ UNCHANGED server
    \/ /\ place \in {"frontend", "backend"}
       /\ jobs' = jobs \union Jobs(m)
       /\ Ran(m, IF place = "frontend" THEN Cardinality(Jobs(m)) ELSE 0)
       /\ IF Passes(Len(Dispatches))
          THEN running' = running \union {m} /\ UNCHANGED answers
          ELSE Answer(m, 1) /\ UNCHANGED running

\* Connector.handleMessage(): a message whose route names no server type is
\* logged and dropped, a request without an answer.
Handle(f) ==
    LET m == CHOOSE m \in Messages(f) : TRUE IN
    /\ open /\ f \in asks
    /\ asks' = asks \ {f}
    /\ \/ place = "untyped" /\ UNCHANGED <<server, answers>>
       \/ place # "untyped" /\ Invoke(m)
    /\ UNCHANGED <<options, open, client>>

\* RouteRemote.routeInvoke(): a backend gets the call and runs the controller.
RouteInvoke(j) ==
    /\ j \in jobs /\ j.at = "asked"
    /\ jobs' = (jobs \ {j}) \union {[j EXCEPT !.at = "running"]}
    /\ Ran(j.msg, 1)
    /\ UNCHANGED <<options, open, client, running, asks, answers>>

\* The call of the router returns, and with it handleMessage() unless it has
\* ended before.
Respond(j, code) ==
    /\ jobs' = jobs \ {j}
    /\ running' = running \ {j.msg}
    /\ IF j.msg \in running THEN Answer(j.msg, code) ELSE UNCHANGED answers
    /\ UNCHANGED <<options, open, client, asks, ran>>

\* The controller ends, with a value or an error.
ControllerEnds(j) ==
    /\ j \in jobs /\ j.at = "running"
    /\ \/ place = "frontend" /\ \E code \in {0, 1} : Respond(j, code)
       \/ /\ place = "backend"
          /\ \E end \in {"ok", "error"} : jobs' = (jobs \ {j}) \union {[j EXCEPT !.at = end]}
          /\ UNCHANGED <<options, open, client, running, asks, answers, ran>>

\* The backend's answer arrives.
RPCReturns(j) ==
    /\ j \in jobs /\ j.at \in {"ok", "error"}
    /\ Respond(j, IF j.at = "ok" THEN 0 ELSE 1)

\* The call to the backend fails, wherever it is; the controller runs on.
RPCFails(m) ==
    /\ place = "backend" /\ m \in running
    /\ running' = running \ {m}
    /\ Answer(m, 1)
    /\ UNCHANGED <<options, open, client, jobs, asks, ran>>

\* The connection is lost, with all that is under way.
Lose ==
    /\ open
    /\ open' = FALSE
    /\ asks' = {} /\ running' = {} /\ answers' = {} /\ jobs' = {}
    /\ UNCHANGED <<options, client, ran>>

RNext ==
    \/ \E c \in Calls : RequestOverWS(c) \/ RequestOverUDP(c) \/ Notify(c)
    \/ \E id \in timers : RequestTimeout(id)
    \/ \E f \in answers : Receive(f)
    \/ \E f \in asks : Handle(f)
    \/ \E j \in jobs : RouteInvoke(j) \/ ControllerEnds(j) \/ RPCReturns(j)
    \/ \E m \in running : RPCFails(m)
    \/ Lose

RSpec == RInit /\ [][RNext]_rvars

\* The timers of the attempts fire; nothing else is assumed.
RFairSpec ==
    /\ RSpec
    /\ \A k \in 1 .. MaxAttempts : WF_rvars(first + k \in timers /\ RequestTimeout(first + k))

-----------------------------------------------------------------------------
RTypeOK ==
    LET ids == first + 1 .. reqId IN
    /\ transport \in {"ws", "udp"} /\ first \in FirstIds /\ open \in BOOLEAN
    /\ tries \in Seq([call : Calls, left : 0 .. MaxReqAttempts - 1])
    /\ routeMap \subseteq ids /\ callbacks \subseteq ids /\ timers \subseteq ids
    /\ result \in [Calls -> {"none", "told", "pending", "ok", "error", "timeout"}]
    /\ answer \in [Calls -> Calls \union {0}]
    /\ jobs \subseteq [msg : running \union {j.msg : j \in jobs}, number : {2, 3},
                       at : {"asked", "running", "ok", "error"}]
    /\ ran \in [Calls -> Nat]

\* Every frame under way is read as what was written, whatever the length of
\* its id: one of the attempts, with the body of its call, or a notification,
\* which is never answered.  (protocol.ts, connector.ts handleMessage)
FramesReadable ==
    LET requests == {[type |-> REQUEST, id |-> id, route |-> ROUTE, body |-> <<Try(id).call>>] :
                        id \in first + 1 .. reqId}
        notes == [type : {NOTIFY}, id : {0}, route : {ROUTE}, body : {<<c>> : c \in Calls}]
    IN
    /\ \A f \in asks : Messages(f) \in {{m} : m \in requests \union notes}
    /\ \A f \in answers : \A m \in Messages(f) :
          m.type = RESPONSE /\ m.id \in first + 1 .. reqId /\ m.body[2] = Try(m.id).call

\* A call gets the value of its own controller, whichever of its attempts is
\* answered, and however late.  (client.ts request, onMessage)
OwnAnswer ==
    \A c \in Calls :
        /\ result[c] \in {"ok", "error"} => answer[c] = c
        /\ result[c] = "ok" => ran[c] > 0

Attempts(c) == Cardinality({k \in DOMAIN tries : tries[k].call = c})

\* A call is sent at most maxRequestAttempts times, and each time its
\* controller runs at most once, however often a filter calls next().
\* (client.ts request, compose.ts)
AttemptsBounded ==
    \A c \in Calls :
        /\ Attempts(c) <= MaxReqAttempts
        /\ ran[c] <= IF result[c] = "told" THEN 1 ELSE Attempts(c)

\* Over a WebSocket, which has no timers, a call that is waiting is on its way
\* or being handled as long as the connection lives, and what is being handled
\* is at a controller; unless its route names no server type, when the
\* connector drops it.  (client.ts onMessage, connector.ts handleMessage,
\* router.ts invoke)
NothingForgotten ==
    /\ \A m \in running : \E j \in jobs : j.msg = m
    /\ \A c \in Calls : transport = "ws" /\ open /\ place # "untyped" /\ result[c] = "pending" =>
        \/ \E f \in asks : \E m \in Messages(f) : m.body[1] = c
        \/ \E m \in running : m.body[1] = c
        \/ \E f \in answers : \E m \in Messages(f) : m.body[2] = c

\* The tables of the client hold what its calls need, no call is repeated
\* beyond its limit, and none with a route of a server type is forgotten.
\* (client.ts request, onMessage)
RequestsSound == RTypeOK /\ AttemptsBounded /\ NothingForgotten

\* Over UDP every call ends, although timers delete the callbacks of others:
\* each attempt settles its own call.  (client.ts request)
RequestSettles ==
    \A c \in Calls : transport = "udp" /\ result[c] = "pending" ~> result[c] # "pending"
=============================================================================
