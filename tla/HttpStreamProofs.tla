-------------------------- MODULE HttpStreamProofs --------------------------
(***************************************************************************)
(* What keeps the pool, the event loop and libcurl apart, for any number   *)
(* of requests, threads, chunks and sockets.                               *)
(***************************************************************************)
EXTENDS HttpStream, TLAPS

USE StreamAssumption

Types ==
    /\ conn \in [Requests -> Conn]
    /\ pc \in [Requests -> Places]
    /\ res \in [Requests -> Response]
    /\ state \in [Requests -> [buf : Nat, last : BOOLEAN]]
    /\ msgs \in [Requests -> Nat]
    /\ timer \in [Requests -> BOOLEAN]
    /\ step \in [Requests -> Nat]
    /\ socket \in [Requests -> {"none", "open", "closed"}]

(* h2o has the request and has not given it up.                            *)
Held == {"upload", "open", "between", "sending", "last", "sent", "denied"}

(* Where a request is without its handler having been called.              *)
Unhandled(r) ==
    /\ conn[r] \in {"none", "upload", "denied"} => pc[r] = "none"
    /\ pc[r] = "none" => conn[r] \in {"none", "upload", "denied", "gone"}
    /\ pc[r] = "none" => msgs[r] = 0 /\ ~timer[r] /\ socket[r] = "none"

(* The turn: exactly one of the handler, the message, h2o and the timer    *)
(* may act on the response of a live request.  A plain response needs no   *)
(* flag for it, having one chunk only; the handler of a proxied stream     *)
(* runs on beside it, and is held back by the flag alone.                  *)
Turn(r) ==
    /\ msgs[r] <= 1
    /\ msgs[r] = 1 \/ pc[r] = "post" => conn[r] \in {"open", "between"}
    /\ InFlight(r) => pc[r] # "post"
    /\ InFlight(r) \/ conn[r] = "sent" \/ pc[r] = "post" => Kind[r] = "plain" \/ ~res[r].ready
    /\ timer[r] => ~InFlight(r) /\ conn[r] = "between"
    /\ Kind[r] # "sse" /\ pc[r] \notin {"none", "idle"} =>
           msgs[r] = 0 /\ conn[r] \in {"open", "between"}

(* A plain response is final, and its handler never waits.                 *)
Plain(r) ==
    /\ pc[r] \notin {"check", "wait"}
    /\ res[r].final
    /\ msgs[r] > 0 /\ res[r].alive => state[r].last
    /\ conn[r] \notin {"between", "sending"}

Ctl(r) ==
    /\ res[r].alive <=> conn[r] \in Held
    /\ Unhandled(r)
    /\ timer[r] => pc[r] = "idle" /\ Kind[r] # "sse"
    /\ socket[r] = "open" => Kind[r] = "sse"
    /\ res[r].alive => Turn(r)
    /\ Kind[r] = "plain" => Plain(r)

(* A request is in the queue of the pool once, and only when it is queued. *)
Pooled ==
    /\ pool \in Seq(Requests)
    /\ \A i \in 1..Len(pool) : pc[pool[i]] = "queued"
    /\ \A i, j \in 1..Len(pool) : pool[i] = pool[j] => i = j
    /\ \A r \in Requests : pc[r] = "queued" => \E i \in 1..Len(pool) : pool[i] = r

CtlInv == Types /\ (\A r \in Requests : Ctl(r)) /\ Pooled

(* The numbers of messages that occur.                                     *)
LEMMA Counts ==
    /\ ~(0 > 0)
    /\ \A n \in Nat : n <= 1 /\ n # 1 => n = 0
    /\ \A n \in Nat : n + 1 # 0
OBVIOUS
-----------------------------------------------------------------------------
(* Each kind of step keeps the types and the control state of every        *)
(* request.  The request that moves is r, an arbitrary one is q.           *)

LEMMA TypesInit == Init => Types /\ \A q \in Requests : Ctl(q)
BY DEF Init, Types, Ctl, Unhandled, Turn, InFlight, Plain, Conn, Places, Response, Held

(* What replaces a response is one.                                        *)
LEMMA ResponseTypes ==
    ASSUME NEW r \in Requests, Types, NEW c \in Nat, NEW b \in BOOLEAN
    PROVE  /\ WithBody(r, c, b) \in [Requests -> Response]
           /\ WithReady(r, b) \in [Requests -> Response]
           /\ Dead(r, b) \in [Requests -> Response]
<1>1. WithBody(r, c, b) \in [Requests -> Response]
  BY Zenon DEF WithBody, Types, Response
<1>2. WithReady(r, b) \in [Requests -> Response]
  BY Zenon DEF WithReady, Types, Response
<1>3. Dead(r, b) \in [Requests -> Response]
  BY Zenon DEF Dead, Types, Response
<1> QED BY <1>1, <1>2, <1>3, Zenon

LEMMA StepCatchAllHandler ==
    ASSUME NEW r \in Requests, NEW whole \in BOOLEAN, Types,
           \A q \in Requests : Ctl(q), catch_all_handler(r, whole)
    PROVE  Types' /\ \A q \in Requests : Ctl(q)'
<1>1. Types'
  BY Zenon DEF catch_all_handler, Enqueue, Types, Conn, Places, Response
<1>2. ASSUME NEW q \in Requests PROVE Ctl(q)'
  BY DEF catch_all_handler, Enqueue, Types, Ctl, Unhandled, Turn, InFlight, Plain, Conn, Places, Response, Held
<1> QED BY <1>1, <1>2, Zenon

LEMMA StepAsyncReqCb ==
    ASSUME NEW r \in Requests, Types, \A q \in Requests : Ctl(q), async_req_cb(r)
    PROVE  Types' /\ \A q \in Requests : Ctl(q)'
<1>1. Types'
  BY Zenon DEF async_req_cb, Enqueue, Types, Conn, Places, Response
<1>2. ASSUME NEW q \in Requests PROVE Ctl(q)'
  BY DEF async_req_cb, Enqueue, Types, Ctl, Unhandled, Turn, InFlight, Plain, Conn, Places, Response, Held
<1> QED BY <1>1, <1>2, Zenon

LEMMA StepDeny ==
    ASSUME NEW r \in Requests, Types, \A q \in Requests : Ctl(q), Deny(r)
    PROVE  Types' /\ \A q \in Requests : Ctl(q)'
<1>1. Types'
  BY Zenon DEF Deny, Types, Conn, Places, Response
<1>2. ASSUME NEW q \in Requests PROVE Ctl(q)'
  BY DEF Deny, Types, Ctl, Unhandled, Turn, InFlight, Plain, Conn, Places, Response, Held
<1> QED BY <1>1, <1>2, Zenon

LEMMA StepTakeTask ==
    ASSUME Types, \A q \in Requests : Ctl(q), Pooled, TakeTask
    PROVE  Types' /\ \A q \in Requests : Ctl(q)'
<1> DEFINE r == Head(pool)
<1>1. r \in Requests /\ pc[r] = "queued"
  BY DEF TakeTask, Pooled
<1>2. pc' = [pc EXCEPT ![r] = "handle"]
  BY Zenon DEF TakeTask
<1> HIDE DEF r
<1>3. Types'
  <2>1. pc' \in [Requests -> Places]
    BY <1>1, <1>2, Zenon DEF Types, Places
  <2>2. UNCHANGED <<conn, res, state, msgs, timer, step, socket>>
    BY Zenon DEF TakeTask
  <2> QED BY <2>1, <2>2, Zenon DEF Types
<1>4. ASSUME NEW q \in Requests PROVE Ctl(q)'
  <2>1. CASE q = r
    BY <1>1, <1>2, <2>1 DEF TakeTask, Types, Ctl, Unhandled, Turn, InFlight, Plain, Conn, Places, Response, Held
  <2>2. CASE q # r
    BY <1>1, <1>2, <2>2 DEF TakeTask, Types, Ctl, Unhandled, Turn, InFlight, Plain, Conn, Places, Response, Held
  <2> QED BY <2>1, <2>2, Zenon
<1> QED BY <1>3, <1>4, Zenon

LEMMA StepPlainHandler ==
    ASSUME NEW r \in Requests, Types, \A q \in Requests : Ctl(q), PlainHandler(r)
    PROVE  Types' /\ \A q \in Requests : Ctl(q)'
<1>1. Types'
  BY Zenon DEF PlainHandler, WithBody, Types, Conn, Places, Response
<1>2. ASSUME NEW q \in Requests PROVE Ctl(q)'
  BY DEF PlainHandler, WithBody, Types, Ctl, Unhandled, Turn, InFlight, Plain, Conn, Places, Response, Held
<1> QED BY <1>1, <1>2, Zenon

LEMMA StepGetExportDocuments ==
    ASSUME NEW r \in Requests, Types, \A q \in Requests : Ctl(q), get_export_documents(r)
    PROVE  Types' /\ \A q \in Requests : Ctl(q)'
<1>1. CASE step[r] < Chunks[r]
  <2>1. Types'
    <3>1. res' \in [Requests -> Response]
      <4>1. PICK c \in {0, step[r] + 1, ErrorChunk(r)} :
              res' = WithBody(r, c, step[r] + 1 = Chunks[r] \/ c = ErrorChunk(r))
        BY <1>1, Zenon DEF get_export_documents
      <4>2. c \in Nat
        BY DEF Types, ErrorChunk
      <4>3. (step[r] + 1 = Chunks[r] \/ c = ErrorChunk(r)) \in BOOLEAN
        BY Zenon
      <4> QED BY <4>1, <4>2, <4>3, ResponseTypes, Zenon
    <3>2. conn' \in [Requests -> Conn]
      BY <1>1, Zenon DEF get_export_documents, Types, Conn, Places
    <3>3. pc' \in [Requests -> Places]
      BY <1>1, Zenon DEF get_export_documents, Types, Conn, Places
    <3>4. state' \in [Requests -> [buf : Nat, last : BOOLEAN]]
      BY <1>1, Zenon DEF get_export_documents, Types, Conn, Places
    <3>5. msgs' \in [Requests -> Nat]
      BY <1>1, Zenon DEF get_export_documents, Types, Conn, Places
    <3>6. timer' \in [Requests -> BOOLEAN]
      BY <1>1, Zenon DEF get_export_documents, Types, Conn, Places
    <3>7. step' \in [Requests -> Nat]
      BY <1>1 DEF get_export_documents, Types, Conn, Places
    <3>8. socket' \in [Requests -> {"none", "open", "closed"}]
      BY <1>1, Zenon DEF get_export_documents, Types, Conn, Places
    <3> QED BY <3>1, <3>2, <3>3, <3>4, <3>5, <3>6, <3>7, <3>8, Zenon DEF Types
  <2>2. ASSUME NEW q \in Requests PROVE Ctl(q)'
    <3>1. CASE q = r
      <4>1. res'[r].alive = res[r].alive /\ res'[r].ready = res[r].ready
        BY <1>1 DEF get_export_documents, WithBody, Types
      <4>2. /\ pc[r] = "handle" /\ pc'[r] = "check" /\ Kind[r] = "stream"
            /\ UNCHANGED <<conn, state, msgs, timer, socket>>
        BY <1>1, Zenon DEF get_export_documents, Types
      <4>3. Ctl(r)
        BY Zenon
      <4> QED BY <3>1, <4>1, <4>2, <4>3, Zenon DEF Ctl, Unhandled, Turn, InFlight, Plain, Held
    <3>2. CASE q # r
      <4>1. res'[q] = res[q]
        BY <1>1, <3>2, Zenon DEF get_export_documents, WithBody, Types
      <4>2. pc'[q] = pc[q] /\ UNCHANGED <<conn, state, msgs, timer, socket>>
        BY <1>1, <3>2, Zenon DEF get_export_documents, Types
      <4>3. Ctl(q)
        BY Zenon
      <4> QED BY <4>1, <4>2, <4>3, Zenon DEF Ctl, Unhandled, Turn, InFlight, Plain
    <3> QED BY <3>1, <3>2, Zenon
  <2> QED BY <2>1, <2>2, Zenon
<1>2. CASE ~(step[r] < Chunks[r])
  <2>1. Types'
    <3>1. res' \in [Requests -> Response]
      <4>1. res' = WithBody(r, 0, res[r].final) /\ res[r].final \in BOOLEAN
        BY <1>2, Zenon DEF get_export_documents, Types, Response
      <4> QED BY <4>1, ResponseTypes, Zenon
    <3> QED BY <1>2, <3>1, Zenon DEF get_export_documents, Types, Conn, Places
  <2>2. ASSUME NEW q \in Requests PROVE Ctl(q)'
    <3>1. CASE q = r
      BY <1>2, <3>1, <2>1 DEF get_export_documents, ErrorChunk, WithBody, Types, Ctl, Unhandled, Turn, InFlight, Plain, Conn, Places, Response, Held
    <3>2. CASE q # r
      BY <1>2, <3>2, <2>1 DEF get_export_documents, ErrorChunk, WithBody, Types, Ctl, Unhandled, Turn, InFlight, Plain, Conn, Places, Response, Held
    <3> QED BY <3>1, <3>2, Zenon
  <2> QED BY <2>1, <2>2, Zenon
<1> QED BY <1>1, <1>2, Zenon

LEMMA StepStreamResponse ==
    ASSUME NEW r \in Requests, Types, \A q \in Requests : Ctl(q), stream_response(r)
    PROVE  Types' /\ \A q \in Requests : Ctl(q)'
<1>1. Types'
  BY Zenon DEF stream_response, Types, Conn, Places, Response
<1>2. ASSUME NEW q \in Requests PROVE Ctl(q)'
  BY DEF stream_response, Types, Ctl, Unhandled, Turn, InFlight, Plain, Conn, Places, Response, Held
<1> QED BY <1>1, <1>2, Zenon

LEMMA StepWait ==
    ASSUME NEW r \in Requests, Types, \A q \in Requests : Ctl(q), wait(r)
    PROVE  Types' /\ \A q \in Requests : Ctl(q)'
<1>1. Types'
  BY Zenon DEF wait, WithReady, Types, Conn, Places, Response
<1>2. ASSUME NEW q \in Requests PROVE Ctl(q)'
  BY DEF wait, WithReady, Types, Ctl, Unhandled, Turn, InFlight, Plain, Conn, Places, Response, Held
<1> QED BY <1>1, <1>2, Zenon

LEMMA StepAsyncReqResT ==
    ASSUME NEW r \in Requests, Types, \A q \in Requests : Ctl(q), async_req_res_t(r)
    PROVE  Types' /\ \A q \in Requests : Ctl(q)'
<1>1. CASE res[r].alive
  <2>1. Types'
    <3>1. res' \in [Requests -> Response]
      <4>1. res' = WithBody(r, 0, res[r].final) /\ res[r].final \in BOOLEAN
        BY <1>1, Zenon DEF async_req_res_t, Types, Response
      <4> QED BY <4>1, ResponseTypes, Zenon
    <3>2. state' \in [Requests -> [buf : Nat, last : BOOLEAN]]
      BY <1>1 DEF async_req_res_t, Types, Response
    <3> QED BY <1>1, <3>1, <3>2 DEF async_req_res_t, Types, Conn, Places
  <2>2. ASSUME NEW q \in Requests PROVE Ctl(q)'
    <3>1. CASE q = r
      BY <1>1, <3>1, <2>1 DEF async_req_res_t, WithBody, Types, Ctl, Unhandled, Turn, InFlight, Plain, Conn, Places, Response, Held
    <3>2. CASE q # r
      BY <1>1, <3>2, <2>1 DEF async_req_res_t, WithBody, Types, Ctl, Unhandled, Turn, InFlight, Plain, Conn, Places, Response, Held
    <3> QED BY <3>1, <3>2, Zenon
  <2> QED BY <2>1, <2>2, Zenon
<1>2. CASE ~res[r].alive
  <2>1. Types'
    BY <1>2 DEF async_req_res_t, WithBody, Types, Conn, Places, Response
  <2>2. ASSUME NEW q \in Requests PROVE Ctl(q)'
    <3>1. CASE q = r
      BY <1>2, <3>1, <2>1 DEF async_req_res_t, WithBody, Types, Ctl, Unhandled, Turn, InFlight, Plain, Conn, Places, Response, Held
    <3>2. CASE q # r
      BY <1>2, <3>2, <2>1 DEF async_req_res_t, WithBody, Types, Ctl, Unhandled, Turn, InFlight, Plain, Conn, Places, Response, Held
    <3> QED BY <3>1, <3>2, Zenon
  <2> QED BY <2>1, <2>2, Zenon
<1> QED BY <1>1, <1>2, Zenon

LEMMA StepConnect ==
    ASSUME NEW r \in Requests, Types, \A q \in Requests : Ctl(q), Connect(r)
    PROVE  Types' /\ \A q \in Requests : Ctl(q)'
<1>1. Types'
  BY Zenon DEF Connect, Types, Conn, Places, Response
<1>2. ASSUME NEW q \in Requests PROVE Ctl(q)'
  BY DEF Connect, Types, Ctl, Unhandled, Turn, InFlight, Plain, Conn, Places, Response, Held
<1> QED BY <1>1, <1>2, Zenon

LEMMA StepCurlWriteAsync ==
    ASSUME NEW r \in Requests, Types, \A q \in Requests : Ctl(q), curl_write_async(r)
    PROVE  Types' /\ \A q \in Requests : Ctl(q)'
<1>1. CASE res[r].alive
  <2>1. Types'
    <3>1. res' \in [Requests -> Response]
      <4>1. res' = WithBody(r, step[r] + 1, FALSE) /\ step[r] + 1 \in Nat
        BY <1>1 DEF curl_write_async, Types
      <4> QED BY <4>1, ResponseTypes, Zenon
    <3>2. conn' \in [Requests -> Conn]
      BY <1>1, Zenon DEF curl_write_async, Types, Conn, Places
    <3>3. pc' \in [Requests -> Places]
      <4>1. pc' = [pc EXCEPT ![r] = "wait"]
        BY <1>1, Zenon DEF curl_write_async
      <4> QED BY <4>1, Zenon DEF Types, Places
    <3>4. state' \in [Requests -> [buf : Nat, last : BOOLEAN]]
      BY <1>1, Zenon DEF curl_write_async, Types, Conn, Places
    <3>5. msgs' \in [Requests -> Nat]
      BY <1>1, Zenon DEF curl_write_async, Types, Conn, Places
    <3>6. timer' \in [Requests -> BOOLEAN]
      BY <1>1, Zenon DEF curl_write_async, Types, Conn, Places
    <3>7. step' \in [Requests -> Nat]
      BY <1>1 DEF curl_write_async, Types, Conn, Places
    <3>8. socket' \in [Requests -> {"none", "open", "closed"}]
      BY <1>1, Zenon DEF curl_write_async, Types, Conn, Places
    <3> QED BY <3>1, <3>2, <3>3, <3>4, <3>5, <3>6, <3>7, <3>8, Zenon DEF Types
  <2>2. ASSUME NEW q \in Requests PROVE Ctl(q)'
    <3>1. CASE q = r
      BY <1>1, <3>1, <2>1 DEF curl_write_async, WithBody, Types, Ctl, Unhandled, Turn, InFlight, Plain, Conn, Places, Response, Held
    <3>2. CASE q # r
      BY <1>1, <3>2, <2>1 DEF curl_write_async, WithBody, Types, Ctl, Unhandled, Turn, InFlight, Plain, Conn, Places, Response, Held
    <3> QED BY <3>1, <3>2, Zenon
  <2> QED BY <2>1, <2>2, Zenon
<1>2. CASE ~res[r].alive
  <2>1. Types'
    <3>1. res' \in [Requests -> Response]
      BY <1>2, Zenon DEF curl_write_async, Types
    <3> QED BY <1>2, <3>1 DEF curl_write_async, Types, Conn, Places
  <2>2. ASSUME NEW q \in Requests PROVE Ctl(q)'
    <3>1. CASE q = r
      BY <1>2, <3>1, <2>1, Zenon DEF curl_write_async, WithBody, Types, Ctl, Unhandled, Turn, InFlight, Plain, Conn, Places, Response, Held
    <3>2. CASE q # r
      BY <1>2, <3>2, <2>1 DEF curl_write_async, WithBody, Types, Ctl, Unhandled, Turn, InFlight, Plain, Conn, Places, Response, Held
    <3> QED BY <3>1, <3>2, Zenon
  <2> QED BY <2>1, <2>2, Zenon
<1> QED BY <1>1, <1>2, Zenon

LEMMA StepCurlWriteAsyncDone ==
    ASSUME NEW r \in Requests, Types, \A q \in Requests : Ctl(q), curl_write_async_done(r)
    PROVE  Types' /\ \A q \in Requests : Ctl(q)'
<1>1. CASE res[r].alive
  <2>1. Types'
    <3>1. res' \in [Requests -> Response]
      <4>1. res' = WithBody(r, 0, TRUE)
        BY <1>1, Zenon DEF curl_write_async_done
      <4> QED BY <4>1, ResponseTypes, Zenon
    <3> QED BY <1>1, <3>1, Zenon DEF curl_write_async_done, Types, Conn, Places
  <2>2. ASSUME NEW q \in Requests PROVE Ctl(q)'
    <3>1. CASE q = r
      BY <1>1, <3>1, <2>1 DEF curl_write_async_done, WithBody, Types, Ctl, Unhandled, Turn, InFlight, Plain, Conn, Places, Response, Held
    <3>2. CASE q # r
      BY <1>1, <3>2, <2>1 DEF curl_write_async_done, WithBody, Types, Ctl, Unhandled, Turn, InFlight, Plain, Conn, Places, Response, Held
    <3> QED BY <3>1, <3>2, Zenon
  <2> QED BY <2>1, <2>2, Zenon
<1>2. CASE ~res[r].alive
  <2>1. Types'
    BY <1>2, Zenon DEF curl_write_async_done, WithBody, Types, Conn, Places, Response
  <2>2. ASSUME NEW q \in Requests PROVE Ctl(q)'
    <3>1. CASE q = r
      BY <1>2, <3>1, <2>1, Zenon DEF curl_write_async_done, WithBody, Types, Ctl, Unhandled, Turn, InFlight, Plain, Conn, Places, Response, Held
    <3>2. CASE q # r
      BY <1>2, <3>2, <2>1 DEF curl_write_async_done, WithBody, Types, Ctl, Unhandled, Turn, InFlight, Plain, Conn, Places, Response, Held
    <3> QED BY <3>1, <3>2, Zenon
  <2> QED BY <2>1, <2>2, Zenon
<1> QED BY <1>1, <1>2, Zenon

LEMMA StepCallSseReturns ==
    ASSUME NEW r \in Requests, Types, \A q \in Requests : Ctl(q), call_sse_returns(r)
    PROVE  Types' /\ \A q \in Requests : Ctl(q)'
<1>1. Types'
  BY Zenon DEF call_sse_returns, Types, Conn, Places, Response
<1>2. ASSUME NEW q \in Requests PROVE Ctl(q)'
  BY DEF call_sse_returns, Types, Ctl, Unhandled, Turn, InFlight, Plain, Conn, Places, Response, Held
<1> QED BY <1>1, <1>2, Zenon

LEMMA StepOnStreamResponseMessage ==
    ASSUME NEW r \in Requests, Types, \A q \in Requests : Ctl(q), on_stream_response_message(r)
    PROVE  Types' /\ \A q \in Requests : Ctl(q)'
<1>1. CASE ~res[r].alive
  <2>1. Types'
    <3>1. res' \in [Requests -> Response]
      <4>1. res' = WithReady(r, TRUE)
        BY <1>1, Zenon DEF on_stream_response_message, response_proceed
      <4> QED BY <4>1, ResponseTypes, Zenon
    <3>2. conn' \in [Requests -> Conn]
      BY <1>1, Zenon DEF on_stream_response_message, Types, Conn, Places
    <3>3. pc' \in [Requests -> Places]
      BY <1>1, Zenon DEF on_stream_response_message, Types, Conn, Places
    <3>4. state' \in [Requests -> [buf : Nat, last : BOOLEAN]]
      BY <1>1, Zenon DEF on_stream_response_message, Types, Conn, Places
    <3>5. msgs' \in [Requests -> Nat]
      BY <1>1 DEF on_stream_response_message, Types, Conn, Places
    <3>6. timer' \in [Requests -> BOOLEAN]
      BY <1>1, Zenon DEF on_stream_response_message, Types, Conn, Places
    <3>7. step' \in [Requests -> Nat]
      BY <1>1, Zenon DEF on_stream_response_message, Types, Conn, Places
    <3>8. socket' \in [Requests -> {"none", "open", "closed"}]
      BY <1>1, Zenon DEF on_stream_response_message, Types, Conn, Places
    <3> QED BY <3>1, <3>2, <3>3, <3>4, <3>5, <3>6, <3>7, <3>8, Zenon DEF Types
  <2>2. ASSUME NEW q \in Requests PROVE Ctl(q)'
    <3>1. CASE q = r
      BY <1>1, <3>1, <2>1 DEF on_stream_response_message, response_proceed, WithReady, Types, Ctl, Unhandled, Turn, InFlight, Plain, Conn, Places, Response, Held
    <3>2. CASE q # r
      BY <1>1, <3>2, <2>1 DEF on_stream_response_message, response_proceed, WithReady, Types, Ctl, Unhandled, Turn, InFlight, Plain, Conn, Places, Response, Held
    <3> QED BY <3>1, <3>2, Zenon
  <2> QED BY <2>1, <2>2, Zenon
<1>2. CASE res[r].alive /\ state[r].buf = 0 /\ ~state[r].last
  <2>1. Types'
    <3>1. res' \in [Requests -> Response]
      <4>1. res' = WithReady(r, TRUE)
        BY <1>2, Zenon DEF on_stream_response_message, http_server_stream_response, response_proceed
      <4> QED BY <4>1, ResponseTypes, Zenon
    <3>2. conn' \in [Requests -> Conn]
      BY <1>2 DEF on_stream_response_message, http_server_stream_response, response_proceed, Types, Conn, Places
    <3>3. pc' \in [Requests -> Places]
      BY <1>2, Zenon DEF on_stream_response_message, http_server_stream_response, response_proceed, Types, Conn, Places
    <3>4. state' \in [Requests -> [buf : Nat, last : BOOLEAN]]
      BY <1>2, Zenon DEF on_stream_response_message, http_server_stream_response, response_proceed, Types, Conn, Places
    <3>5. msgs' \in [Requests -> Nat]
      BY <1>2 DEF on_stream_response_message, http_server_stream_response, response_proceed, Types, Conn, Places
    <3>6. timer' \in [Requests -> BOOLEAN]
      BY <1>2, Zenon DEF on_stream_response_message, http_server_stream_response, response_proceed, Types, Conn, Places
    <3>7. step' \in [Requests -> Nat]
      BY <1>2, Zenon DEF on_stream_response_message, http_server_stream_response, response_proceed, Types, Conn, Places
    <3>8. socket' \in [Requests -> {"none", "open", "closed"}]
      BY <1>2, Zenon DEF on_stream_response_message, http_server_stream_response, response_proceed, Types, Conn, Places
    <3> QED BY <3>1, <3>2, <3>3, <3>4, <3>5, <3>6, <3>7, <3>8, Zenon DEF Types
  <2>2. ASSUME NEW q \in Requests PROVE Ctl(q)'
    <3>1. CASE q = r
      <4>1. /\ res'[r].alive = res[r].alive
            /\ res'[r].final = res[r].final
            /\ res'[r].ready = TRUE
        <5>1. res' = WithReady(r, TRUE)
          BY <1>2, Zenon DEF on_stream_response_message, http_server_stream_response, response_proceed
        <5> QED BY <5>1, Zenon DEF WithReady, Types
      <4>2. /\ msgs'[r] = msgs[r] - 1 /\ msgs[r] > 0 /\ msgs[r] \in Nat
            /\ conn'[r] = "between"
            /\ timer'[r] <=> (timer[r] \/ Kind[r] # "sse")
            /\ pc' = pc /\ state' = state /\ socket' = socket
        BY <1>2, Zenon DEF on_stream_response_message, http_server_stream_response, response_proceed, Types
      <4>3. Ctl(r) /\ pc[r] \in Places
        BY Zenon DEF Types
      <4>4. Kind[r] # "plain" /\ ~timer[r] /\ msgs'[r] = 0 /\ conn[r] \in {"open", "between"}
        BY <1>2, <4>2, <4>3 DEF Ctl, Turn, InFlight, Plain
      <4>5. Kind[r] # "sse" => pc[r] \in {"none", "idle"}
        BY <1>2, <4>2, <4>3 DEF Ctl, Turn
      <4>6. Unhandled(r)' /\ pc[r] # "none" /\ pc[r] # "post"
        BY <1>2, <4>2, <4>3, <4>4, Zenon DEF Ctl, Unhandled, Turn, InFlight
      <4>7. Turn(r)'
        BY <1>2, <4>1, <4>2, <4>3, <4>4, <4>5, <4>6 DEF Ctl, Turn, InFlight
      <4> QED BY <1>2, <3>1, <4>1, <4>2, <4>3, <4>4, <4>5, <4>6, <4>7, Zenon DEF Ctl, Held
    <3>2. CASE q # r
      BY <1>2, <3>2, <2>1 DEF on_stream_response_message, http_server_stream_response, response_proceed, WithReady, Types, Ctl, Unhandled, Turn, InFlight, Plain, Conn, Places, Response, Held
    <3> QED BY <3>1, <3>2, Zenon
  <2> QED BY <2>1, <2>2, Zenon
<1>3. CASE res[r].alive /\ ~(state[r].buf = 0 /\ ~state[r].last)
  <2>1. Types'
    <3>1. res' \in [Requests -> Response]
      BY <1>3, Zenon DEF on_stream_response_message, http_server_stream_response, Types
    <3>2. conn' \in [Requests -> Conn]
      BY <1>3, Zenon DEF on_stream_response_message, http_server_stream_response, Types, Conn, Places
    <3>3. pc' \in [Requests -> Places]
      BY <1>3, Zenon DEF on_stream_response_message, http_server_stream_response, Types, Conn, Places
    <3>4. state' \in [Requests -> [buf : Nat, last : BOOLEAN]]
      BY <1>3, Zenon DEF on_stream_response_message, http_server_stream_response, Types, Conn, Places
    <3>5. msgs' \in [Requests -> Nat]
      BY <1>3 DEF on_stream_response_message, http_server_stream_response, Types, Conn, Places
    <3>6. timer' \in [Requests -> BOOLEAN]
      BY <1>3, Zenon DEF on_stream_response_message, http_server_stream_response, Types, Conn, Places
    <3>7. step' \in [Requests -> Nat]
      BY <1>3, Zenon DEF on_stream_response_message, http_server_stream_response, Types, Conn, Places
    <3>8. socket' \in [Requests -> {"none", "open", "closed"}]
      BY <1>3, Zenon DEF on_stream_response_message, http_server_stream_response, Types, Conn, Places
    <3> QED BY <3>1, <3>2, <3>3, <3>4, <3>5, <3>6, <3>7, <3>8, Zenon DEF Types
  <2>2. ASSUME NEW q \in Requests PROVE Ctl(q)'
    <3>1. CASE q = r
      BY <1>3, <3>1, <2>1 DEF on_stream_response_message, http_server_stream_response, response_proceed, WithReady, Types, Ctl, Unhandled, Turn, InFlight, Plain, Conn, Places, Response, Held
    <3>2. CASE q # r
      BY <1>3, <3>2, <2>1 DEF on_stream_response_message, http_server_stream_response, response_proceed, WithReady, Types, Ctl, Unhandled, Turn, InFlight, Plain, Conn, Places, Response, Held
    <3> QED BY <3>1, <3>2, Zenon
  <2> QED BY <2>1, <2>2, Zenon
<1> QED BY <1>1, <1>2, <1>3, Zenon

LEMMA StepChunkTaken ==
    ASSUME NEW r \in Requests, Types, \A q \in Requests : Ctl(q), ChunkTaken(r)
    PROVE  Types' /\ \A q \in Requests : Ctl(q)'
<1>1. Types'
  BY Zenon DEF ChunkTaken, response_proceed, WithReady, Types, Conn, Places, Response
<1>2. ASSUME NEW q \in Requests PROVE Ctl(q)'
  BY DEF ChunkTaken, response_proceed, WithReady, Types, Ctl, Unhandled, Turn, InFlight, Plain, Conn, Places, Response, Held
<1> QED BY <1>1, <1>2, Zenon

LEMMA StepLastTaken ==
    ASSUME NEW r \in Requests, Types, \A q \in Requests : Ctl(q), LastTaken(r)
    PROVE  Types' /\ \A q \in Requests : Ctl(q)'
<1>1. Types'
  BY Zenon DEF LastTaken, Types, Conn, Places, Response
<1>2. ASSUME NEW q \in Requests PROVE Ctl(q)'
  BY DEF LastTaken, Types, Ctl, Unhandled, Turn, InFlight, Plain, Conn, Places, Response, Held
<1> QED BY <1>1, <1>2, Zenon

LEMMA StepOnDeferredProcessRequest ==
    ASSUME NEW r \in Requests, Types, \A q \in Requests : Ctl(q), on_deferred_process_request(r)
    PROVE  Types' /\ \A q \in Requests : Ctl(q)'
<1>1. Types'
  BY Zenon DEF on_deferred_process_request, Enqueue, Types, Conn, Places, Response
<1>2. ASSUME NEW q \in Requests PROVE Ctl(q)'
  BY DEF on_deferred_process_request, Enqueue, Types, Ctl, Unhandled, Turn, InFlight, Plain, Conn, Places, Response, Held
<1> QED BY <1>1, <1>2, Zenon

LEMMA StepResponseAbort ==
    ASSUME NEW r \in Requests, Types, \A q \in Requests : Ctl(q), response_abort(r)
    PROVE  Types' /\ \A q \in Requests : Ctl(q)'
<1>1. Types'
  BY Zenon DEF response_abort, Dead, Types, Conn, Places, Response
<1>2. ASSUME NEW q \in Requests PROVE Ctl(q)'
  BY DEF response_abort, Dead, Types, Ctl, Unhandled, Turn, InFlight, Plain, Conn, Places, Response, Held
<1> QED BY <1>1, <1>2, Zenon

LEMMA StepOnResGeneratorDispose ==
    ASSUME NEW r \in Requests, Types, \A q \in Requests : Ctl(q), on_res_generator_dispose(r)
    PROVE  Types' /\ \A q \in Requests : Ctl(q)'
<1>1. Types'
  BY Zenon DEF on_res_generator_dispose, Dead, Types, Conn, Places, Response
<1>2. ASSUME NEW q \in Requests PROVE Ctl(q)'
  BY DEF on_res_generator_dispose, Dead, Types, Ctl, Unhandled, Turn, InFlight, Plain, Conn, Places, Response, Held
<1> QED BY <1>1, <1>2, Zenon

-----------------------------------------------------------------------------
(* The queue of the pool.                                                  *)

LEMMA PooledKept ==
    ASSUME Pooled, pool' = pool,
           \A q \in Requests : pc'[q] = "queued" <=> pc[q] = "queued"
    PROVE  Pooled'
<1>1. \A i \in 1..Len(pool) : pool[i] \in Requests
  BY DEF Pooled
<1> QED BY <1>1, Zenon DEF Pooled

LEMMA PooledEnqueue ==
    ASSUME NEW r \in Requests, Types, Pooled, pc[r] # "queued", Enqueue(r)
    PROVE  Pooled'
<1> DEFINE n == Len(pool)
<1>1. /\ pool' \in Seq(Requests) /\ n \in Nat /\ Len(pool') = n + 1
      /\ pool'[n + 1] = r
      /\ \A i \in 1..n : pool'[i] = pool[i] /\ pool[i] \in Requests
  BY DEF Pooled, Enqueue
<1>2. /\ pc'[r] = "queued"
      /\ \A q \in Requests : q # r => pc'[q] = pc[q]
  BY Zenon DEF Types, Enqueue
<1>3. \A i \in 1..n : pool[i] # r
  BY Zenon DEF Pooled
<1> HIDE DEF n
<1>4. \A i \in 1..(n + 1) : i \in 1..n \/ i = n + 1
  BY <1>1
<1>5. \A i \in 1..n : pc[pool[i]] = "queued"
  BY Zenon DEF Pooled, n
<1>6. \A i, j \in 1..n : pool[i] = pool[j] => i = j
  BY Zenon DEF Pooled, n
<1>7. \A q \in Requests : pc[q] = "queued" => \E i \in 1..n : pool[i] = q
  BY Zenon DEF Pooled, n
<1>8. ASSUME NEW i \in 1..Len(pool') PROVE pc'[pool'[i]] = "queued"
  <2>1. CASE i \in 1..n
    <3>1. pool'[i] = pool[i] /\ pool[i] \in Requests /\ pool[i] # r
      BY <2>1, <1>1, <1>3, Zenon
    <3> QED BY <2>1, <3>1, <1>2, <1>5, Zenon
  <2>2. CASE i = n + 1
    BY <2>2, <1>1, <1>2, Zenon
  <2> QED BY <2>1, <2>2, <1>1, <1>4, Zenon
<1>9. ASSUME NEW i \in 1..Len(pool'), NEW j \in 1..Len(pool'), pool'[i] = pool'[j]
      PROVE  i = j
  <2>1. /\ i \in 1..n \/ i = n + 1
        /\ j \in 1..n \/ j = n + 1
    BY <1>1, <1>4, Zenon
  <2>2. CASE i \in 1..n /\ j \in 1..n
    BY <2>2, <1>1, <1>6, <1>9, Zenon
  <2>3. CASE i \in 1..n /\ j = n + 1
    BY <2>3, <1>1, <1>3, <1>9, Zenon
  <2>4. CASE i = n + 1 /\ j \in 1..n
    BY <2>4, <1>1, <1>3, <1>9, Zenon
  <2> QED BY <2>1, <2>2, <2>3, <2>4, Zenon
<1>10. ASSUME NEW q \in Requests, pc'[q] = "queued"
       PROVE  \E i \in 1..Len(pool') : pool'[i] = q
  <2>1. CASE q = r
    BY <2>1, <1>1
  <2>2. CASE q # r
    <3>1. PICK i \in 1..n : pool[i] = q
      BY <2>2, <1>2, <1>7, <1>10, Zenon
    <3> QED BY <3>1, <1>1
  <2> QED BY <2>1, <2>2, Zenon
<1> QED BY <1>1, <1>8, <1>9, <1>10, Zenon DEF Pooled

LEMMA PooledTakeTask ==
    ASSUME Types, Pooled, TakeTask
    PROVE  Pooled'
<1> DEFINE n == Len(pool)
           r == Head(pool)
<1>1. /\ pool' \in Seq(Requests) /\ n \in Nat \ {0} /\ Len(pool') = n - 1
      /\ r = pool[1] /\ r \in Requests
      /\ \A i \in 1..(n - 1) : pool'[i] = pool[i + 1] /\ i + 1 \in 1..n
      /\ \A i \in 1..n : pool[i] \in Requests
  BY DEF Pooled, TakeTask
<1>2. pc' = [pc EXCEPT ![r] = "handle"]
  BY Zenon DEF TakeTask
<1>3. /\ \A i \in 1..n : pc[pool[i]] = "queued"
      /\ \A i, j \in 1..n : pool[i] = pool[j] => i = j
      /\ \A q \in Requests : pc[q] = "queued" => \E i \in 1..n : pool[i] = q
  BY Zenon DEF Pooled
<1> HIDE DEF n, r
<1>4. \A q \in Requests : pc'[q] = "queued" <=> q # r /\ pc[q] = "queued"
  BY <1>1, <1>2, Zenon DEF Types
<1>5. \A i \in 1..(n - 1) : pool'[i] # r
  BY <1>1, <1>3
<1>6. \A i \in 1..Len(pool') : pc'[pool'[i]] = "queued"
  <2> SUFFICES ASSUME NEW i \in 1..(n - 1) PROVE pc'[pool'[i]] = "queued"
    BY <1>1, Zenon
  <2>1. pool'[i] = pool[i + 1] /\ i + 1 \in 1..n
    BY <1>1, Zenon
  <2>2. pool[i + 1] \in Requests /\ pc[pool[i + 1]] = "queued"
    BY <2>1, <1>1, <1>3, Zenon
  <2> QED BY <2>1, <2>2, <1>4, <1>5, Zenon
<1>7. \A i, j \in 1..Len(pool') : pool'[i] = pool'[j] => i = j
  <2> SUFFICES ASSUME NEW i \in 1..(n - 1), NEW j \in 1..(n - 1), pool'[i] = pool'[j]
               PROVE  i = j
    BY <1>1, Zenon
  <2>1. pool[i + 1] = pool[j + 1] /\ i + 1 \in 1..n /\ j + 1 \in 1..n
    BY <1>1, Zenon
  <2>2. i + 1 = j + 1
    BY <2>1, <1>3
  <2> QED BY <2>2
<1>8. ASSUME NEW q \in Requests, pc'[q] = "queued"
      PROVE  \E i \in 1..Len(pool') : pool'[i] = q
  <2>1. PICK i \in 1..n : pool[i] = q
    BY <1>3, <1>4, <1>8, Zenon
  <2>2. i - 1 \in 1..(n - 1)
    <3>1. i # 1
      BY <2>1, <1>1, <1>4, <1>8, Zenon
    <3>2. n \in Nat
      BY <1>1
    <3> QED BY <3>1, <3>2
  <2>3. pool'[i - 1] = pool[(i - 1) + 1] /\ (i - 1) + 1 = i
    BY <2>2, <1>1
  <2> QED BY <2>1, <2>2, <2>3, <1>1, Zenon
<1> QED BY <1>1, <1>6, <1>7, <1>8, Zenon DEF Pooled

LEMMA StepPooled ==
    ASSUME CtlInv, Next
    PROVE  Pooled'
<1> USE DEF CtlInv
<1>1. CASE TakeTask
  BY <1>1, PooledTakeTask, Zenon
<1>2. ASSUME NEW r \in Requests, NEW whole \in BOOLEAN, catch_all_handler(r, whole)
      PROVE  Pooled'
  <2>1. pc[r] # "queued"
    BY <1>2, Zenon DEF catch_all_handler, Ctl, Unhandled
  <2>2. CASE whole
    BY <1>2, <2>1, <2>2, PooledEnqueue, Zenon DEF catch_all_handler
  <2>3. CASE ~whole
    BY <1>2, <2>3, PooledKept, Zenon DEF catch_all_handler
  <2> QED BY <2>2, <2>3, Zenon
<1>3. ASSUME NEW r \in Requests, async_req_cb(r) PROVE Pooled'
  <2>1. pc[r] # "queued"
    BY <1>3, Zenon DEF async_req_cb, Ctl, Unhandled
  <2> QED BY <1>3, <2>1, PooledEnqueue, Zenon DEF async_req_cb
<1>4. ASSUME NEW r \in Requests, on_deferred_process_request(r) PROVE Pooled'
  <2>1. pc[r] # "queued"
    BY <1>4, Zenon DEF on_deferred_process_request, Ctl
  <2> QED BY <1>4, <2>1, PooledEnqueue, Zenon DEF on_deferred_process_request
<1>5. ASSUME NEW r \in Requests, Handling(r) PROVE Pooled'
  <2>1. pool' = pool
    BY <1>5, Zenon DEF Handling, PlainHandler, get_export_documents, stream_response, wait,
                async_req_res_t, Connect, curl_write_async, curl_write_async_done, call_sse_returns
  <2>2. \/ pc' = pc
        \/ /\ pc[r] # "queued"
           /\ \E p \in Places \ {"queued"} : pc' = [pc EXCEPT ![r] = p]
    BY <1>5, Zenon DEF Handling, PlainHandler, get_export_documents, stream_response, wait, Places,
                async_req_res_t, Connect, curl_write_async, curl_write_async_done, call_sse_returns
  <2>3. \A q \in Requests : pc'[q] = "queued" <=> pc[q] = "queued"
    BY <2>2, Zenon DEF Types
  <2> QED BY <2>1, <2>3, PooledKept, Zenon
<1>6. ASSUME NEW r \in Requests,
             \/ Deny(r) \/ on_stream_response_message(r) \/ Sending(r)
             \/ response_abort(r) \/ on_res_generator_dispose(r)
      PROVE  Pooled'
  BY <1>6, PooledKept, Zenon DEF Deny, on_stream_response_message, Sending, ChunkTaken, LastTaken,
                          response_abort, on_res_generator_dispose
<1> QED BY <1>1, <1>2, <1>3, <1>4, <1>5, <1>6, Zenon DEF Next, Arriving, Looping
-----------------------------------------------------------------------------
LEMMA CtlStart == Init => CtlInv
<1>1. Init => Pooled
  BY DEF Init, Pooled
<1> QED BY <1>1, TypesInit, Zenon DEF CtlInv

LEMMA CtlStep == CtlInv /\ [Next]_vars => CtlInv'
<1> SUFFICES ASSUME CtlInv, [Next]_vars PROVE CtlInv'
  BY Zenon
<1>1. CASE Next
  <2>1. Pooled'
    BY <1>1, StepPooled, Zenon
  <2>2. Types' /\ \A q \in Requests : Ctl(q)'
    <3> USE DEF CtlInv
    <3>1. CASE TakeTask
      BY <3>1, StepTakeTask, Zenon
    <3>2. ASSUME NEW r \in Requests, Arriving(r)
          PROVE  Types' /\ \A q \in Requests : Ctl(q)'
      BY <3>2, StepCatchAllHandler, StepAsyncReqCb, StepDeny, Zenon DEF Arriving
    <3>3. ASSUME NEW r \in Requests, Handling(r)
          PROVE  Types' /\ \A q \in Requests : Ctl(q)'
      BY <3>3, StepPlainHandler, StepGetExportDocuments, StepStreamResponse, StepWait,
         StepAsyncReqResT, StepConnect, StepCurlWriteAsync, StepCurlWriteAsyncDone,
         StepCallSseReturns, Zenon DEF Handling
    <3>4. ASSUME NEW r \in Requests, Looping(r) \/ Sending(r)
          PROVE  Types' /\ \A q \in Requests : Ctl(q)'
      BY <3>4, StepOnStreamResponseMessage, StepOnDeferredProcessRequest, StepChunkTaken,
         StepLastTaken, Zenon DEF Looping, Sending
    <3>5. ASSUME NEW r \in Requests, response_abort(r) \/ on_res_generator_dispose(r)
          PROVE  Types' /\ \A q \in Requests : Ctl(q)'
      BY <3>5, StepResponseAbort, StepOnResGeneratorDispose, Zenon
    <3> QED BY <1>1, <3>1, <3>2, <3>3, <3>4, <3>5, Zenon DEF Next
  <2> QED BY <2>1, <2>2, Zenon DEF CtlInv
<1>2. CASE UNCHANGED vars
  BY <1>2 DEF vars, CtlInv, Types, Pooled, Ctl, Unhandled, Turn, InFlight, Plain
<1> QED BY <1>1, <1>2, Zenon

LEMMA CtlAlways == Spec => []CtlInv
BY CtlStart, CtlStep, PTL DEF Spec

(* A live request never has a second chunk under way: the flag of          *)
(* http_res::wait and notify keeps the thread that fills res_state and the *)
(* loop that reads it apart, however many threads and requests there are.  *)
THEOREM OneChunk == Spec => []OneChunkInFlight
<1>1. CtlInv => OneChunkInFlight
  <2> SUFFICES ASSUME CtlInv, NEW r \in Requests, res[r].alive
               PROVE  /\ msgs[r] <= 1
                      /\ conn[r] \in {"sending", "last"} => msgs[r] = 0
                      /\ InFlight(r) => pc[r] # "post" /\ ~(pc[r] = "wait" /\ res[r].ready)
    BY Zenon DEF OneChunkInFlight
  <2>1. Turn(r) /\ msgs[r] \in Nat /\ (Kind[r] = "plain" => pc[r] # "wait")
    BY Zenon DEF CtlInv, Types, Ctl, Plain
  <2> QED BY <2>1 DEF Turn, InFlight
<1> QED BY <1>1, CtlAlways, PTL

(* The timer, the queue of the pool and the running calls never hold a     *)
(* request twice, whoever calls defer_processing and whenever.             *)
THEOREM OneHandlerCall == Spec => []OneHandler
<1>1. CtlInv => OneHandler
  <2> SUFFICES ASSUME CtlInv, NEW r \in Requests
               PROVE  /\ timer[r] => /\ pc[r] = "idle"
                                     /\ res[r].alive => ~InFlight(r)
                      /\ \A i, j \in 1..Len(pool) : pool[i] = r /\ pool[j] = r => i = j
                      /\ (\E i \in 1..Len(pool) : pool[i] = r) <=> pc[r] = "queued"
    BY Zenon DEF OneHandler
  <2>1. timer[r] => pc[r] = "idle" /\ (res[r].alive => ~InFlight(r))
    BY Zenon DEF CtlInv, Ctl, Turn
  <2> QED BY <2>1 DEF CtlInv, Pooled
<1> QED BY <1>1, CtlAlways, PTL

(* The buffer that h2o holds a pointer to is not replaced under it.        *)
THEOREM HeldBufferStable == Spec => BufferStable
<1>1. CtlInv /\ [Next]_vars =>
        [\A r \in Requests : conn[r] \in {"sending", "last"} => state'[r] = state[r]]_vars
  <2> SUFFICES ASSUME CtlInv, Next, NEW r \in Requests, conn[r] \in {"sending", "last"}
               PROVE  state'[r] = state[r]
    BY Zenon
  <2>1. state' = state \/ \E q \in Requests : async_req_res_t(q)
    BY ZenonT(40) DEF Next, TakeTask, Arriving, Handling, Looping, Sending, catch_all_handler, async_req_cb,
           Deny, PlainHandler, get_export_documents, stream_response, wait, Connect,
           curl_write_async, curl_write_async_done, call_sse_returns,
           on_stream_response_message, http_server_stream_response, on_deferred_process_request, ChunkTaken, LastTaken,
           response_abort, on_res_generator_dispose
  <2>2. pc[r] # "post"
    BY Zenon DEF CtlInv, Ctl, Turn, InFlight, Held
  <2>3. ASSUME NEW q \in Requests, async_req_res_t(q) PROVE state'[r] = state[r]
    BY <2>2, <2>3, Zenon DEF async_req_res_t, CtlInv, Types
  <2> QED BY <2>1, <2>3, Zenon
<1> QED BY <1>1, CtlAlways, PTL DEF Spec, BufferStable
-----------------------------------------------------------------------------
(* What the client is sent.                                                *)

(* A sequence and a chunk that follows it, if it is not empty.             *)
With(s, c) == IF c = 0 THEN s ELSE Append(s, c)

(* The chunk in res_state that h2o has not written, and the one in the     *)
(* body of http_res that has not been moved to res_state.                  *)
InBuffer(r) == IF InFlight(r) THEN state[r].buf ELSE 0

Filled(r) == pc[r] \in {"check", "wait", "post"}

InBody(r) == IF Filled(r) THEN res[r].body ELSE 0

(* The chunk that h2o has or will get is the final one.                    *)
Ending(r) == conn[r] = "last" \/ (msgs[r] > 0 /\ state[r].last)

(* The handler of an export has nothing to add.                            *)
Exported(r) ==
    \/ step[r] = Chunks[r]
    \/ made[r] # <<>> /\ made[r][Len(made[r])] = ErrorChunk(r)

DataTypes ==
    /\ made \in [Requests -> Seq(Nat)]
    /\ wire \in [Requests -> Seq(Nat)]
    /\ sockets \in [Requests -> Nat]

(* What was made is what was sent, then the buffer, then the body; for a   *)
(* request that was given up, what was sent is the beginning of it.        *)
Order(r) ==
    /\ pc[r] = "none" => made[r] = <<>> /\ wire[r] = <<>>
    /\ res[r].alive => made[r] = With(With(wire[r], InBuffer(r)), InBody(r))
    /\ Len(wire[r]) <= Len(made[r])
    /\ \A k \in 1..Len(wire[r]) : wire[r][k] = made[r][k]

(* The handler of a plain response is called once.                         *)
PlainData(r) ==
    /\ made[r] = IF pc[r] \in {"none", "queued", "handle"} THEN <<>> ELSE <<1>>
    /\ ~timer[r]

ExportData(r) ==
    /\ step[r] <= Chunks[r]
    /\ res[r].alive /\ ((Filled(r) /\ res[r].final) \/ Ending(r)) => Exported(r)

(* With one socket, the final chunk of a proxied stream is the empty one   *)
(* that the close of the socket makes, and nothing follows it.             *)
ProxyData(r) ==
    /\ pc[r] # "check"
    /\ sockets[r] = 0 => socket[r] = "none"
    /\ res[r].alive /\ sockets[r] <= 1 =>
           /\ Filled(r) /\ res[r].final => res[r].body = 0 /\ socket[r] = "closed"
           /\ Ending(r) => ~Filled(r) /\ socket[r] = "closed"

(* The final chunk was taken.                                              *)
EndData(r) == conn[r] \in {"sent", "done"} =>
    /\ Kind[r] # "sse" => pc[r] = "idle" /\ ~timer[r] /\ wire[r] = made[r]
    /\ Kind[r] = "stream" => Exported(r)
    /\ Kind[r] = "sse" /\ sockets[r] <= 1 =>
           ~Filled(r) /\ socket[r] = "closed" /\ wire[r] = made[r]

Data(r) ==
    /\ Order(r)
    /\ Kind[r] = "plain" => PlainData(r)
    /\ Kind[r] = "stream" => ExportData(r)
    /\ Kind[r] = "sse" => ProxyData(r)
    /\ EndData(r)

DataInv == DataTypes /\ \A r \in Requests : Data(r)
-----------------------------------------------------------------------------
(* A step is of one request: nothing of the others changes.                *)
Same(q) ==
    /\ conn'[q] = conn[q] /\ pc'[q] = pc[q] /\ res'[q] = res[q] /\ state'[q] = state[q]
    /\ msgs'[q] = msgs[q] /\ timer'[q] = timer[q] /\ step'[q] = step[q]
    /\ made'[q] = made[q] /\ wire'[q] = wire[q]
    /\ socket'[q] = socket[q] /\ sockets'[q] = sockets[q]

(* What does not move keeps its part of the invariant.                     *)
LEMMA DataSame == ASSUME NEW q \in Requests, Data(q), Same(q) PROVE Data(q)'
BY ZenonT(40) DEF Same, Data, Order, PlainData, ExportData, ProxyData, EndData, InBuffer, InBody, Filled,
       Ending, Exported, InFlight

(* It is enough to look at the request that moves.                         *)
LEMMA OneMoves ==
    ASSUME DataInv, DataTypes', NEW r \in Requests,
           \A q \in Requests : q # r => Same(q), Data(r)'
    PROVE  DataInv'
BY DataSame, Zenon DEF DataInv

(* Arrival makes nothing.                                                  *)
LEMMA DataCatchAllHandler ==
    ASSUME NEW r \in Requests, NEW whole \in BOOLEAN, CtlInv, DataInv, catch_all_handler(r, whole)
    PROVE  DataInv'
<1> USE DEF CtlInv, DataInv
<1>1. DataTypes'
  BY Zenon DEF catch_all_handler, Enqueue, DataTypes
<1>2. ASSUME NEW q \in Requests, q # r PROVE Same(q)
  <2>1. conn'[q] = conn[q]
    BY <1>2, Zenon DEF catch_all_handler, Types
  <2>2. pc'[q] = pc[q]
    BY <1>2, Zenon DEF catch_all_handler, Enqueue, Types
  <2>3. res'[q] = res[q]
    BY <1>2, Zenon DEF catch_all_handler, Types
  <2> QED BY <2>1, <2>2, <2>3, Zenon DEF catch_all_handler, Same
<1>3. Ctl(r) /\ Data(r)
  BY Zenon
<1>4. Order(r)'
  BY <1>3 DEF catch_all_handler, Enqueue, Types, DataTypes, Ctl, Unhandled, Turn, Plain, Held, InFlight, Data, Order, PlainData, EndData, With, InBuffer, InBody, Filled
<1>5. Kind[r] = "plain" => PlainData(r)'
  BY <1>3 DEF catch_all_handler, Enqueue, Types, DataTypes, Ctl, Unhandled, Plain, Data, PlainData
<1>6. Kind[r] = "stream" => ExportData(r)'
  BY <1>3 DEF catch_all_handler, Enqueue, Types, DataTypes, Ctl, Unhandled, Turn, Held, InFlight, Data, ExportData, Filled, Ending, Exported
<1>7. Kind[r] = "sse" => ProxyData(r)'
  BY <1>3 DEF catch_all_handler, Enqueue, Types, DataTypes, Ctl, Unhandled, Turn, Held, InFlight, Data, ProxyData, Filled, Ending
<1>8. EndData(r)'
  BY <1>3 DEF catch_all_handler, Enqueue, Types, DataTypes, Ctl, Unhandled, Turn, Plain, Held, InFlight, Data, EndData, Filled, Exported
<1>9. Data(r)'
  BY <1>4, <1>5, <1>6, <1>7, <1>8, Zenon DEF Data
<1> QED BY <1>1, <1>2, <1>9, OneMoves, Zenon

(* The end of the body makes nothing.                                      *)
LEMMA DataAsyncReqCb ==
    ASSUME NEW r \in Requests, CtlInv, DataInv, async_req_cb(r)
    PROVE  DataInv'
<1> USE DEF CtlInv, DataInv
<1>1. DataTypes'
  BY Zenon DEF async_req_cb, Enqueue, DataTypes
<1>2. \A q \in Requests : q # r => Same(q)
  BY Zenon DEF async_req_cb, Enqueue, Types, DataTypes, Same
<1>3. Ctl(r) /\ Data(r)
  BY Zenon
<1>4. Order(r)'
  BY <1>3 DEF async_req_cb, Enqueue, Types, DataTypes, Ctl, Unhandled, Turn, Plain, Held, InFlight, Data, Order, PlainData, EndData, With, InBuffer, InBody, Filled
<1>5. Kind[r] = "plain" => PlainData(r)'
  BY <1>3 DEF async_req_cb, Enqueue, Types, DataTypes, Ctl, Unhandled, Plain, Data, PlainData
<1>6. Kind[r] = "stream" => ExportData(r)'
  BY <1>3 DEF async_req_cb, Enqueue, Types, DataTypes, Ctl, Unhandled, Turn, Held, InFlight, Data, ExportData, Filled, Ending, Exported
<1>7. Kind[r] = "sse" => ProxyData(r)'
  BY <1>3 DEF async_req_cb, Enqueue, Types, DataTypes, Ctl, Unhandled, Turn, Held, InFlight, Data, ProxyData, Filled, Ending
<1>8. EndData(r)'
  BY <1>3 DEF async_req_cb, Enqueue, Types, DataTypes, Ctl, Unhandled, Turn, Plain, Held, InFlight, Data, EndData, Filled, Exported
<1>9. Data(r)'
  BY <1>4, <1>5, <1>6, <1>7, <1>8, Zenon DEF Data
<1> QED BY <1>1, <1>2, <1>9, OneMoves, Zenon

(* A refusal makes nothing.                                                *)
LEMMA DataDeny ==
    ASSUME NEW r \in Requests, CtlInv, DataInv, Deny(r)
    PROVE  DataInv'
<1> USE DEF CtlInv, DataInv
<1>1. DataTypes'
  BY Zenon DEF Deny, DataTypes
<1>2. \A q \in Requests : q # r => Same(q)
  BY Zenon DEF Deny, Types, DataTypes, Same
<1>3. Ctl(r) /\ Data(r)
  BY Zenon
<1>4. Order(r)'
  BY <1>3 DEF Deny, Types, DataTypes, Ctl, Unhandled, Turn, Plain, Held, InFlight, Data, Order, PlainData, EndData, With, InBuffer, InBody, Filled
<1>5. Kind[r] = "plain" => PlainData(r)'
  BY <1>3, Zenon DEF Deny, Types, DataTypes, Ctl, Unhandled, Plain, Data, PlainData
<1>6. Kind[r] = "stream" => ExportData(r)'
  BY <1>3 DEF Deny, Types, DataTypes, Ctl, Unhandled, Turn, Held, InFlight, Data, ExportData, Filled, Ending, Exported
<1>7. Kind[r] = "sse" => ProxyData(r)'
  BY <1>3 DEF Deny, Types, DataTypes, Ctl, Unhandled, Turn, Held, InFlight, Data, ProxyData, Filled, Ending
<1>8. EndData(r)'
  BY <1>3 DEF Deny, Types, DataTypes, Ctl, Unhandled, Turn, Plain, Held, InFlight, Data, EndData, Filled, Exported
<1>9. Data(r)'
  BY <1>4, <1>5, <1>6, <1>7, <1>8, Zenon DEF Data
<1> QED BY <1>1, <1>2, <1>9, OneMoves, Zenon

(* The one chunk of a plain response is in the body.                       *)
LEMMA DataPlainHandler ==
    ASSUME NEW r \in Requests, CtlInv, DataInv, PlainHandler(r)
    PROVE  DataInv'
<1> USE DEF CtlInv, DataInv
<1>1. DataTypes'
  BY DEF PlainHandler, WithBody, DataTypes
<1>2. \A q \in Requests : q # r => Same(q)
  BY Zenon DEF PlainHandler, WithBody, Types, DataTypes, Same
<1>3. Ctl(r) /\ Data(r)
  BY Zenon
<1>4. Order(r)'
  BY <1>3 DEF PlainHandler, WithBody, Types, DataTypes, Ctl, Unhandled, Turn, Plain, Held, InFlight, Data, Order, PlainData, EndData, With, InBuffer, InBody, Filled
<1>5. Kind[r] = "plain" => PlainData(r)'
  BY <1>3 DEF PlainHandler, WithBody, Types, DataTypes, Ctl, Unhandled, Plain, Data, PlainData
<1>6. Kind[r] = "stream" => ExportData(r)'
  BY <1>3, Zenon DEF PlainHandler, WithBody, Types, DataTypes, Ctl, Unhandled, Turn, Held, InFlight, Data, ExportData, Filled, Ending, Exported
<1>7. Kind[r] = "sse" => ProxyData(r)'
  BY <1>3, Zenon DEF PlainHandler, WithBody, Types, DataTypes, Ctl, Unhandled, Turn, Held, InFlight, Data, ProxyData, Filled, Ending
<1>8. EndData(r)'
  BY <1>3, Zenon DEF PlainHandler, WithBody, Types, DataTypes, Ctl, Unhandled, Turn, Plain, Held, InFlight, Data, EndData, Filled, Exported
<1>9. Data(r)'
  BY <1>4, <1>5, <1>6, <1>7, <1>8, Zenon DEF Data
<1> QED BY <1>1, <1>2, <1>9, OneMoves, Zenon

(* The body is kept while the handler checks the request.                  *)
LEMMA DataStreamResponse ==
    ASSUME NEW r \in Requests, CtlInv, DataInv, stream_response(r)
    PROVE  DataInv'
<1> USE DEF CtlInv, DataInv
<1>1. DataTypes'
  BY Zenon DEF stream_response, DataTypes
<1>2. \A q \in Requests : q # r => Same(q)
  BY Zenon DEF stream_response, Types, DataTypes, Same
<1>3. Ctl(r) /\ Data(r)
  BY Zenon
<1>4. Order(r)'
  <2>1. /\ pc[r] = "check" /\ pc'[r] = (IF res[r].alive THEN "wait" ELSE "idle")
        /\ UNCHANGED <<conn, res, state, msgs, made, wire>>
    BY Zenon DEF stream_response, Types
  <2>2. InBuffer(r)' = InBuffer(r)
    BY <2>1, Zenon DEF InBuffer, InFlight
  <2>3. res[r].alive => InBody(r)' = InBody(r)
    BY <2>1, Zenon DEF InBody, Filled
  <2>4. pc'[r] # "none"
    BY <2>1, Zenon
  <2>5. Order(r)
    BY <1>3, Zenon DEF Data
  <2> QED BY <2>1, <2>2, <2>3, <2>4, <2>5, Zenon DEF Order
<1>5. Kind[r] = "plain" => PlainData(r)'
  BY <1>3, Zenon DEF stream_response, Types, DataTypes, Ctl, Unhandled, Plain, Data, PlainData
<1>6. Kind[r] = "stream" => ExportData(r)'
  BY <1>3, Zenon DEF stream_response, Types, DataTypes, Ctl, Unhandled, Turn, Held, InFlight, Data, ExportData, Filled, Ending, Exported
<1>7. Kind[r] = "sse" => ProxyData(r)'
  BY <1>3, Zenon DEF stream_response, Types, DataTypes, Ctl, Unhandled, Turn, Held, InFlight, Data, ProxyData, Filled, Ending
<1>8. EndData(r)'
  BY <1>3, Zenon DEF stream_response, Types, DataTypes, Ctl, Unhandled, Turn, Plain, Held, InFlight, Data, EndData, Filled, Exported
<1>9. Data(r)'
  BY <1>4, <1>5, <1>6, <1>7, <1>8, Zenon DEF Data
<1> QED BY <1>1, <1>2, <1>9, OneMoves, Zenon

(* The body is kept while the thread waits.                                *)
LEMMA DataWait ==
    ASSUME NEW r \in Requests, CtlInv, DataInv, wait(r)
    PROVE  DataInv'
<1> USE DEF CtlInv, DataInv
<1>1. DataTypes'
  BY Zenon DEF wait, WithReady, DataTypes
<1>2. \A q \in Requests : q # r => Same(q)
  BY Zenon DEF wait, WithReady, Types, DataTypes, Same
<1>3. Ctl(r) /\ Data(r)
  BY Zenon
<1>4. Order(r)'
  BY <1>3 DEF wait, WithReady, Types, DataTypes, Ctl, Unhandled, Turn, Plain, Held, InFlight, Data, Order, PlainData, EndData, With, InBuffer, InBody, Filled
<1>5. Kind[r] = "plain" => PlainData(r)'
  BY <1>3, Zenon DEF wait, WithReady, Types, DataTypes, Ctl, Unhandled, Plain, Data, PlainData
<1>6. Kind[r] = "stream" => ExportData(r)'
  BY <1>3 DEF wait, WithReady, Types, DataTypes, Ctl, Unhandled, Turn, Held, InFlight, Data, ExportData, Filled, Ending, Exported
<1>7. Kind[r] = "sse" => ProxyData(r)'
  BY <1>3 DEF wait, WithReady, Types, DataTypes, Ctl, Unhandled, Turn, Held, InFlight, Data, ProxyData, Filled, Ending
<1>8. EndData(r)'
  BY <1>3, Zenon DEF wait, WithReady, Types, DataTypes, Ctl, Unhandled, Turn, Plain, Held, InFlight, Data, EndData, Filled, Exported
<1>9. Data(r)'
  BY <1>4, <1>5, <1>6, <1>7, <1>8, Zenon DEF Data
<1> QED BY <1>1, <1>2, <1>9, OneMoves, Zenon

(* A second socket ends what is promised of the end.                       *)
LEMMA DataConnect ==
    ASSUME NEW r \in Requests, CtlInv, DataInv, Connect(r)
    PROVE  DataInv'
<1> USE DEF CtlInv, DataInv
<1>1. DataTypes'
  BY DEF Connect, DataTypes
<1>2. \A q \in Requests : q # r => Same(q)
  BY Zenon DEF Connect, Types, DataTypes, Same
<1>3. Ctl(r) /\ Data(r)
  BY Zenon
<1>4. Order(r)'
  BY <1>3 DEF Connect, Types, DataTypes, Ctl, Unhandled, Turn, Plain, Held, InFlight, Data, Order, PlainData, EndData, With, InBuffer, InBody, Filled
<1>5. Kind[r] = "plain" => PlainData(r)'
  BY <1>3, Zenon DEF Connect, Types, DataTypes, Ctl, Unhandled, Plain, Data, PlainData
<1>6. Kind[r] = "stream" => ExportData(r)'
  BY <1>3, Zenon DEF Connect, Types, DataTypes, Ctl, Unhandled, Turn, Held, InFlight, Data, ExportData, Filled, Ending, Exported
<1>7. Kind[r] = "sse" => ProxyData(r)'
  BY <1>3 DEF Connect, Types, DataTypes, Ctl, Unhandled, Turn, Held, InFlight, Data, ProxyData, Filled, Ending
<1>8. EndData(r)'
  BY <1>3 DEF Connect, Types, DataTypes, Ctl, Unhandled, Turn, Plain, Held, InFlight, Data, EndData, ProxyData, Filled, Exported
<1>9. Data(r)'
  BY <1>4, <1>5, <1>6, <1>7, <1>8, Zenon DEF Data
<1> QED BY <1>1, <1>2, <1>9, OneMoves, Zenon

(* The close of the socket makes the empty final chunk.                    *)
LEMMA DataCurlWriteAsyncDone ==
    ASSUME NEW r \in Requests, CtlInv, DataInv, curl_write_async_done(r)
    PROVE  DataInv'
<1> USE DEF CtlInv, DataInv
<1>1. DataTypes'
  BY Zenon DEF curl_write_async_done, WithBody, DataTypes
<1>2. ASSUME NEW q \in Requests, q # r PROVE Same(q)
  <2>1. res'[q] = res[q] /\ pc'[q] = pc[q]
    BY <1>2, Zenon DEF curl_write_async_done, WithBody, Types
  <2>2. socket'[q] = socket[q]
    BY <1>2, Zenon DEF curl_write_async_done, Types
  <2> QED BY <2>1, <2>2, Zenon DEF curl_write_async_done, Same
<1>3. Ctl(r) /\ Data(r)
  BY Zenon
<1>4. Order(r)'
  <2>1. made' = made /\ wire' = wire /\ conn' = conn /\ state' = state /\ msgs' = msgs
    BY Zenon DEF curl_write_async_done
  <2>2. CASE res[r].alive
    <3>1. /\ res'[r].alive /\ res'[r].body = 0
          /\ pc[r] = "handle" /\ pc'[r] = "wait"
      BY <2>2 DEF curl_write_async_done, WithBody, Types
    <3>2. InBuffer(r)' = InBuffer(r) /\ InBody(r)' = 0 /\ InBody(r) = 0
      BY <2>1, <3>1, Zenon DEF InBuffer, InFlight, InBody, Filled
    <3> QED BY <1>3, <2>1, <2>2, <3>1, <3>2, Zenon DEF Data, Order
  <2>3. CASE ~res[r].alive
    BY <1>3, <2>1, <2>3, Zenon DEF curl_write_async_done, Data, Order
  <2> QED BY <2>2, <2>3, Zenon
<1>5. Kind[r] = "plain" => PlainData(r)'
  BY <1>3, Zenon DEF curl_write_async_done, WithBody, Types, DataTypes, Ctl, Unhandled, Plain, Data, PlainData
<1>6. Kind[r] = "stream" => ExportData(r)'
  BY <1>3, Zenon DEF curl_write_async_done, WithBody, Types, DataTypes, Ctl, Unhandled, Turn, Held, InFlight, Data, ExportData, Filled, Ending, Exported
<1>7. Kind[r] = "sse" => ProxyData(r)'
  BY <1>3 DEF curl_write_async_done, WithBody, Types, DataTypes, Ctl, Unhandled, Turn, Held, InFlight, Data, ProxyData, Filled, Ending
<1>8. EndData(r)'
  BY <1>3, Zenon DEF curl_write_async_done, WithBody, Types, DataTypes, Ctl, Unhandled, Turn, Plain, Held, InFlight, Data, EndData, Filled, Exported
<1>9. Data(r)'
  BY <1>4, <1>5, <1>6, <1>7, <1>8, Zenon DEF Data
<1> QED BY <1>1, <1>2, <1>9, OneMoves, Zenon

(* The return of the transfer makes nothing.                               *)
LEMMA DataCallSseReturns ==
    ASSUME NEW r \in Requests, CtlInv, DataInv, call_sse_returns(r)
    PROVE  DataInv'
<1> USE DEF CtlInv, DataInv
<1>1. DataTypes'
  BY Zenon DEF call_sse_returns, DataTypes
<1>2. \A q \in Requests : q # r => Same(q)
  BY Zenon DEF call_sse_returns, Types, DataTypes, Same
<1>3. Ctl(r) /\ Data(r)
  BY Zenon
<1>4. Order(r)'
  BY <1>3 DEF call_sse_returns, Types, DataTypes, Ctl, Unhandled, Turn, Plain, Held, InFlight, Data, Order, PlainData, EndData, With, InBuffer, InBody, Filled
<1>5. Kind[r] = "plain" => PlainData(r)'
  BY <1>3, Zenon DEF call_sse_returns, Types, DataTypes, Ctl, Unhandled, Plain, Data, PlainData
<1>6. Kind[r] = "stream" => ExportData(r)'
  BY <1>3, Zenon DEF call_sse_returns, Types, DataTypes, Ctl, Unhandled, Turn, Held, InFlight, Data, ExportData, Filled, Ending, Exported
<1>7. Kind[r] = "sse" => ProxyData(r)'
  BY <1>3 DEF call_sse_returns, Types, DataTypes, Ctl, Unhandled, Turn, Held, InFlight, Data, ProxyData, Filled, Ending
<1>8. EndData(r)'
  BY <1>3 DEF call_sse_returns, Types, DataTypes, Ctl, Unhandled, Turn, Plain, Held, InFlight, Data, EndData, Filled, Exported
<1>9. Data(r)'
  BY <1>4, <1>5, <1>6, <1>7, <1>8, Zenon DEF Data
<1> QED BY <1>1, <1>2, <1>9, OneMoves, Zenon

(* A timer is only set between two chunks.                                 *)
LEMMA DataOnDeferredProcessRequest ==
    ASSUME NEW r \in Requests, CtlInv, DataInv, on_deferred_process_request(r)
    PROVE  DataInv'
<1> USE DEF CtlInv, DataInv
<1>1. DataTypes'
  BY Zenon DEF on_deferred_process_request, Enqueue, DataTypes
<1>2. \A q \in Requests : q # r => Same(q)
  BY Zenon DEF on_deferred_process_request, Enqueue, Types, DataTypes, Same
<1>3. Ctl(r) /\ Data(r)
  BY Zenon
<1>4. Order(r)'
  BY <1>3 DEF on_deferred_process_request, Enqueue, Types, DataTypes, Ctl, Unhandled, Turn, Plain, Held, InFlight, Data, Order, PlainData, EndData, With, InBuffer, InBody, Filled
<1>5. Kind[r] = "plain" => PlainData(r)'
  BY <1>3, Zenon DEF on_deferred_process_request, Enqueue, Types, DataTypes, Ctl, Unhandled, Plain, Data, PlainData
<1>6. Kind[r] = "stream" => ExportData(r)'
  BY <1>3 DEF on_deferred_process_request, Enqueue, Types, DataTypes, Ctl, Unhandled, Turn, Held, InFlight, Data, ExportData, Filled, Ending, Exported
<1>7. Kind[r] = "sse" => ProxyData(r)'
  BY <1>3, Zenon DEF on_deferred_process_request, Enqueue, Types, DataTypes, Ctl, Unhandled, Turn, Held, InFlight, Data, ProxyData, Filled, Ending
<1>8. EndData(r)'
  BY <1>3, Zenon DEF on_deferred_process_request, Enqueue, Types, DataTypes, Ctl, Unhandled, Turn, Plain, Held, InFlight, Data, EndData, Filled, Exported
<1>9. Data(r)'
  BY <1>4, <1>5, <1>6, <1>7, <1>8, Zenon DEF Data
<1> QED BY <1>1, <1>2, <1>9, OneMoves, Zenon

(* Of a request that was given up only the beginning was sent.             *)
LEMMA DataResponseAbort ==
    ASSUME NEW r \in Requests, CtlInv, DataInv, response_abort(r)
    PROVE  DataInv'
<1> USE DEF CtlInv, DataInv
<1>1. DataTypes'
  BY Zenon DEF response_abort, Dead, DataTypes
<1>2. \A q \in Requests : q # r => Same(q)
  BY Zenon DEF response_abort, Dead, Types, DataTypes, Same
<1>3. Ctl(r) /\ Data(r)
  BY Zenon
<1>4. Order(r)'
  <2>1. made' = made /\ wire' = wire /\ pc' = pc
    BY Zenon DEF response_abort
  <2>2. ~res'[r].alive
    BY Zenon DEF response_abort, Dead, Types
  <2> QED BY <1>3, <2>1, <2>2, Zenon DEF Data, Order
<1>5. Kind[r] = "plain" => PlainData(r)'
  BY <1>3, Zenon DEF response_abort, Dead, Types, DataTypes, Ctl, Unhandled, Plain, Data, PlainData
<1>6. Kind[r] = "stream" => ExportData(r)'
  BY <1>3 DEF response_abort, Dead, Types, DataTypes, Ctl, Unhandled, Turn, Held, InFlight, Data, ExportData, Filled, Ending, Exported
<1>7. Kind[r] = "sse" => ProxyData(r)'
  BY <1>3 DEF response_abort, Dead, Types, DataTypes, Ctl, Unhandled, Turn, Held, InFlight, Data, ProxyData, Filled, Ending
<1>8. EndData(r)'
  BY <1>3 DEF response_abort, Dead, Types, DataTypes, Ctl, Unhandled, Turn, Plain, Held, InFlight, Data, EndData, Filled, Exported
<1>9. Data(r)'
  BY <1>4, <1>5, <1>6, <1>7, <1>8, Zenon DEF Data
<1> QED BY <1>1, <1>2, <1>9, OneMoves, Zenon

(* A disposed request was sent whole or is given up.                       *)
LEMMA DataDispose ==
    ASSUME NEW r \in Requests, CtlInv, DataInv, on_res_generator_dispose(r)
    PROVE  DataInv'
<1> USE DEF CtlInv, DataInv
<1>1. DataTypes'
  BY Zenon DEF on_res_generator_dispose, Dead, DataTypes
<1>2. \A q \in Requests : q # r => Same(q)
  BY Zenon DEF on_res_generator_dispose, Dead, Types, DataTypes, Same
<1>3. Ctl(r) /\ Data(r)
  BY Zenon
<1>4. Order(r)'
  BY <1>3 DEF on_res_generator_dispose, Dead, Types, DataTypes, Ctl, Unhandled, Turn, Plain, Held, InFlight, Data, Order, PlainData, EndData, With, InBuffer, InBody, Filled
<1>5. Kind[r] = "plain" => PlainData(r)'
  BY <1>3, Zenon DEF on_res_generator_dispose, Dead, Types, DataTypes, Ctl, Unhandled, Plain, Data, PlainData
<1>6. Kind[r] = "stream" => ExportData(r)'
  BY <1>3 DEF on_res_generator_dispose, Dead, Types, DataTypes, Ctl, Unhandled, Turn, Held, InFlight, Data, ExportData, Filled, Ending, Exported
<1>7. Kind[r] = "sse" => ProxyData(r)'
  BY <1>3 DEF on_res_generator_dispose, Dead, Types, DataTypes, Ctl, Unhandled, Turn, Held, InFlight, Data, ProxyData, Filled, Ending
<1>8. EndData(r)'
  BY <1>3 DEF on_res_generator_dispose, Dead, Types, DataTypes, Ctl, Unhandled, Turn, Plain, Held, InFlight, Data, EndData, Filled, Exported
<1>9. Data(r)'
  BY <1>4, <1>5, <1>6, <1>7, <1>8, Zenon DEF Data
<1> QED BY <1>1, <1>2, <1>9, OneMoves, Zenon

(* What With adds comes after what was there.                              *)
LEMMA WithAfter ==
    ASSUME NEW s \in Seq(Nat), NEW c \in Nat
    PROVE  /\ With(s, c) \in Seq(Nat)
           /\ Len(s) <= Len(With(s, c))
           /\ \A k \in 1..Len(s) : With(s, c)[k] = s[k]
           /\ c # 0 => With(s, c) # <<>> /\ With(s, c)[Len(With(s, c))] = c
<1>1. CASE c = 0
  BY <1>1 DEF With
<1>2. CASE c # 0
  <2>1. With(s, c) = Append(s, c)
    BY <1>2, Zenon DEF With
  <2>2. /\ Append(s, c) \in Seq(Nat) /\ Len(Append(s, c)) = Len(s) + 1
        /\ \A k \in 1..Len(s) : Append(s, c)[k] = s[k]
        /\ Append(s, c)[Len(s) + 1] = c /\ Len(s) \in Nat
    OBVIOUS
  <2>3. Append(s, c) # <<>> /\ Len(s) <= Len(Append(s, c))
    BY <2>2
  <2> QED BY <2>1, <2>2, <2>3, Zenon
<1> QED BY <1>1, <1>2, Zenon

(* The task that a thread takes is the handler of a request without a      *)
(* chunk in its body.                                                      *)
LEMMA DataTakeTask ==
    ASSUME CtlInv, DataInv, TakeTask
    PROVE  DataInv'
<1> USE DEF CtlInv, DataInv
<1>1. PICK r \in Requests : r = Head(pool) /\ pc[r] = "queued"
  BY DEF TakeTask, Pooled
<1>2. /\ pc' = [pc EXCEPT ![r] = "handle"]
      /\ UNCHANGED <<conn, res, state, msgs, timer, step, made, wire, socket, sockets>>
  BY <1>1, Zenon DEF TakeTask
<1>3. DataTypes' /\ \A q \in Requests : q # r => Same(q)
  BY <1>1, <1>2, Zenon DEF Types, DataTypes, Same
<1>4. Ctl(r) /\ Data(r) /\ pc'[r] = "handle"
  BY <1>1, <1>2, Zenon DEF Types
<1>5. Order(r)'
  BY <1>1, <1>2, <1>4, Zenon DEF Data, Order, InBuffer, InFlight, InBody, Filled
<1>6. Kind[r] = "plain" => PlainData(r)'
  BY <1>1, <1>2, <1>4, Zenon DEF Data, PlainData
<1>7. Kind[r] = "stream" => ExportData(r)'
  BY <1>1, <1>2, <1>4, Zenon DEF Data, ExportData, Filled, Ending, Exported
<1>8. Kind[r] = "sse" => ProxyData(r)'
  BY <1>1, <1>2, <1>4, Zenon DEF Data, ProxyData, Filled, Ending
<1>9. EndData(r)'
  BY <1>1, <1>2, <1>4, Zenon DEF Data, EndData, Filled, Exported
<1>10. Data(r)'
  BY <1>5, <1>6, <1>7, <1>8, <1>9, Zenon DEF Data
<1> QED BY <1>1, <1>3, <1>10, OneMoves, Zenon

(* A chunk that goes to an empty body comes after everything made before.  *)
LEMMA OrderMade ==
    ASSUME NEW r \in Requests, NEW c \in Nat, DataTypes, Order(r), pc[r] = "handle",
           made'[r] = With(made[r], c), InBody(r)' = c, wire' = wire,
           InBuffer(r)' = InBuffer(r), res'[r].alive <=> res[r].alive, pc'[r] # "none"
    PROVE  Order(r)'
<1>1. made[r] \in Seq(Nat) /\ wire[r] \in Seq(Nat) /\ InBody(r) = 0
  BY Zenon DEF DataTypes, InBody, Filled
<1>2. res[r].alive => made[r] = With(wire[r], InBuffer(r))
  BY <1>1, Zenon DEF Order, With
<1>3. /\ Len(made[r]) <= Len(made'[r])
      /\ \A k \in 1..Len(made[r]) : made'[r][k] = made[r][k]
      /\ made'[r] \in Seq(Nat)
  <2>1. made'[r] = With(made[r], c)
    BY Zenon
  <2>2. /\ Len(made[r]) <= Len(With(made[r], c))
        /\ \A k \in 1..Len(made[r]) : With(made[r], c)[k] = made[r][k]
        /\ With(made[r], c) \in Seq(Nat)
    BY <1>1, WithAfter, Zenon
  <2> QED BY <2>1, <2>2, Zenon
<1>4. Len(wire[r]) <= Len(made[r]) /\ \A k \in 1..Len(wire[r]) : wire[r][k] = made[r][k]
  BY Zenon DEF Order
<1>5. /\ Len(wire[r]) <= Len(made'[r])
      /\ \A k \in 1..Len(wire[r]) : wire[r][k] = made'[r][k]
  <2>1. Len(wire[r]) \in Nat /\ Len(made[r]) \in Nat /\ Len(made'[r]) \in Nat
    BY <1>1, <1>3
  <2>2. Len(wire[r]) <= Len(made'[r]) /\ \A k \in 1..Len(wire[r]) : k \in 1..Len(made[r])
    BY <1>3, <1>4, <2>1
  <2> QED BY <1>3, <1>4, <2>2, Zenon
<1> QED BY <1>2, <1>5, Zenon DEF Order

(* The next batch of an export, whose previous one was taken.              *)
LEMMA DataGetExportDocuments ==
    ASSUME NEW r \in Requests, CtlInv, DataInv, get_export_documents(r)
    PROVE  DataInv'
<1> USE DEF CtlInv, DataInv
<1>1. /\ pc[r] = "handle" /\ Kind[r] = "stream" /\ pc'[r] = "check"
      /\ UNCHANGED <<conn, state, msgs, timer, wire, socket, sockets>>
      /\ Ctl(r) /\ Data(r) /\ step[r] \in Nat /\ Chunks[r] \in Nat /\ made[r] \in Seq(Nat)
  BY Zenon DEF get_export_documents, Types, DataTypes
<1>2. \E c \in Nat :
         /\ res'[r].body = c
         /\ res'[r].alive = res[r].alive
         /\ made'[r] = With(made[r], c)
         /\ step'[r] <= Chunks[r]
         /\ res'[r].final => step'[r] = Chunks[r] \/ c = Chunks[r] + 1
  <2>1. CASE step[r] < Chunks[r]
    <3>1. PICK c \in {0, step[r] + 1, ErrorChunk(r)} :
            /\ step' = [step EXCEPT ![r] = @ + 1]
            /\ res' = WithBody(r, c, step[r] + 1 = Chunks[r] \/ c = ErrorChunk(r))
            /\ made' = [made EXCEPT ![r] = IF c = 0 THEN @ ELSE Append(@, c)]
      BY <2>1, Zenon DEF get_export_documents
    <3>2. c \in Nat
      BY <1>1 DEF ErrorChunk
    <3>3. /\ res'[r].body = c /\ res'[r].alive = res[r].alive
          /\ res'[r].final => step[r] + 1 = Chunks[r] \/ c = Chunks[r] + 1
      BY <3>1, Zenon DEF WithBody, Types, ErrorChunk
    <3>4. made'[r] = With(made[r], c) /\ step'[r] = step[r] + 1
      BY <3>1, Zenon DEF With, Types, DataTypes
    <3>5. step[r] + 1 <= Chunks[r]
      BY <1>1, <2>1
    <3> QED BY <3>2, <3>3, <3>4, <3>5, Zenon
  <2>2. CASE ~(step[r] < Chunks[r])
    <3>1. res' = WithBody(r, 0, res[r].final) /\ step' = step /\ made' = made
      BY <2>2, Zenon DEF get_export_documents
    <3>2. step[r] = Chunks[r]
      BY <1>1, <2>2 DEF Data, ExportData
    <3> QED BY <1>1, <3>1, <3>2 DEF WithBody, With, Types
  <2> QED BY <2>1, <2>2, Zenon
<1>3. PICK c \in Nat :
         /\ res'[r].body = c
         /\ res'[r].alive = res[r].alive
         /\ made'[r] = With(made[r], c)
         /\ step'[r] <= Chunks[r]
         /\ res'[r].final => step'[r] = Chunks[r] \/ c = Chunks[r] + 1
  BY <1>2, Zenon
<1>4. DataTypes'
  <2>1. made' \in [Requests -> Seq(Nat)]
    <3>1. made'[r] \in Seq(Nat)
      BY <1>1, <1>3, WithAfter
    <3>2. made' = made \/ \E s : made' = [made EXCEPT ![r] = s]
      BY Zenon DEF get_export_documents
    <3> QED BY <3>1, <3>2, Zenon DEF DataTypes
  <2> QED BY <1>1, <2>1, Zenon DEF DataTypes
<1>5. \A q \in Requests : q # r => Same(q)
  BY ZenonT(40) DEF get_export_documents, WithBody, Types, DataTypes, Same
<1>6. Order(r)'
  BY <1>1, <1>3, OrderMade, Zenon DEF Data, InBuffer, InFlight, InBody, Filled
<1>7. ExportData(r)'
  <2>1. res[r].alive => ~Ending(r)'
    <3>1. ASSUME res[r].alive PROVE msgs[r] = 0 /\ conn[r] # "last"
      BY <1>1, <3>1, Zenon DEF Ctl, Turn
    <3> QED BY <1>1, <3>1, Counts, Zenon DEF Ending
  <2>2. ASSUME c = Chunks[r] + 1
        PROVE  made'[r] # <<>> /\ made'[r][Len(made'[r])] = ErrorChunk(r)
    <3>1. c # 0 /\ made[r] \in Seq(Nat)
      BY <1>1, <2>2, Counts, Zenon
    <3>2. With(made[r], c) # <<>> /\ With(made[r], c)[Len(With(made[r], c))] = c
      BY <3>1, WithAfter, Zenon
    <3>3. made'[r] = With(made[r], c)
      BY <1>3, Zenon
    <3> QED BY <2>2, <3>2, <3>3, Zenon DEF ErrorChunk
  <2> QED BY <1>1, <1>3, <2>1, <2>2, Zenon DEF ExportData, Exported
<1>8. EndData(r)'
  BY <1>1, Zenon DEF Data, EndData
<1>9. Data(r)'
  BY <1>1, <1>6, <1>7, <1>8, Zenon DEF Data
<1> QED BY <1>4, <1>5, <1>9, OneMoves, Zenon

(* A chunk from the remote server; the previous one may still be in the    *)
(* buffer.                                                                 *)
LEMMA DataCurlWriteAsync ==
    ASSUME NEW r \in Requests, CtlInv, DataInv, curl_write_async(r)
    PROVE  DataInv'
<1> USE DEF CtlInv, DataInv
<1>1. /\ pc[r] = "handle" /\ socket[r] = "open" /\ Kind[r] = "sse"
      /\ UNCHANGED <<conn, state, msgs, timer, wire, sockets>>
      /\ Ctl(r) /\ Data(r) /\ step[r] \in Nat /\ made[r] \in Seq(Nat) /\ sockets[r] \in Nat
  BY Zenon DEF curl_write_async, Types, DataTypes, Ctl
<1>2. DataTypes'
  <2>1. step[r] + 1 \in Nat /\ Append(made[r], step[r] + 1) \in Seq(Nat)
    BY <1>1
  <2>2. made' = made \/ made' = [made EXCEPT ![r] = Append(made[r], step[r] + 1)]
    BY Zenon DEF curl_write_async
  <2> QED BY <1>1, <2>1, <2>2, Zenon DEF DataTypes
<1>3. \A q \in Requests : q # r => Same(q)
  BY ZenonT(40) DEF curl_write_async, WithBody, Types, DataTypes, Same
<1>4. CASE res[r].alive
  <2>1. /\ res'[r].alive /\ res'[r].body = step[r] + 1 /\ ~res'[r].final
        /\ made'[r] = With(made[r], step[r] + 1) /\ pc'[r] = "wait" /\ socket' = socket
    BY <1>1, <1>4 DEF curl_write_async, WithBody, With, Types, DataTypes
  <2>2. Order(r)'
    <3>1. InBody(r)' = step[r] + 1 /\ pc'[r] # "none"
      BY <2>1, Zenon DEF InBody, Filled
    <3>2. InBuffer(r)' = InBuffer(r) /\ wire' = wire
      BY <1>1, Zenon DEF InBuffer, InFlight
    <3>3. step[r] + 1 \in Nat
      BY <1>1
    <3>4. Order(r) /\ pc[r] = "handle" /\ (res'[r].alive <=> res[r].alive)
      BY <1>1, <1>4, <2>1, Zenon DEF Data
    <3> QED BY <2>1, <3>1, <3>2, <3>3, <3>4, OrderMade, Zenon
  <2>3. ProxyData(r)'
    BY <1>1, <1>4, <2>1, Zenon DEF Data, ProxyData, Ending
  <2>4. EndData(r)'
    BY <1>1, <2>1, Zenon DEF Data, EndData, Filled
  <2> QED BY <1>1, <1>2, <1>3, <2>2, <2>3, <2>4, OneMoves, Zenon DEF Data
<1>5. CASE ~res[r].alive
  <2>1. /\ res' = res /\ made' = made /\ pc' = pc /\ socket'[r] = "closed"
    BY <1>5, Zenon DEF curl_write_async, Types
  <2>2. Order(r)' /\ ProxyData(r)' /\ EndData(r)'
    BY <1>1, <1>5, <2>1, Zenon DEF Data, Order, ProxyData, EndData, Filled
  <2> QED BY <1>1, <1>2, <1>3, <2>2, OneMoves, Zenon DEF Data
<1> QED BY <1>4, <1>5, Zenon

(* The body moves to the buffer, which is free.                            *)
LEMMA DataAsyncReqResT ==
    ASSUME NEW r \in Requests, CtlInv, DataInv, async_req_res_t(r)
    PROVE  DataInv'
<1> USE DEF CtlInv, DataInv
<1>1. /\ pc[r] = "post" /\ pc'[r] = (IF Kind[r] = "sse" THEN "handle" ELSE "idle")
      /\ msgs'[r] = msgs[r] + 1 /\ msgs[r] \in Nat
      /\ UNCHANGED <<conn, timer, step, made, wire, socket, sockets>>
      /\ Ctl(r) /\ Data(r) /\ made[r] \in Seq(Nat) /\ wire[r] \in Seq(Nat) /\ res[r].body \in Nat
  BY Zenon DEF async_req_res_t, Types, DataTypes, Response
<1>2. DataTypes'
  BY <1>1, Zenon DEF DataTypes
<1>3. \A q \in Requests : q # r => Same(q)
  BY ZenonT(40) DEF async_req_res_t, WithBody, Types, DataTypes, Same
<1>4. Kind[r] = "plain" => PlainData(r)'
  BY <1>1, Zenon DEF Data, PlainData
<1>5. CASE res[r].alive
  <2>1. /\ state'[r].buf = res[r].body /\ state'[r].last = res[r].final
        /\ res'[r].alive /\ res'[r].body = 0
    BY <1>5 DEF async_req_res_t, WithBody, Types
  <2>2. ~InFlight(r) /\ conn[r] \in {"open", "between"}
    BY <1>1, <1>5, Zenon DEF Ctl, Turn
  <2>3. Order(r)'
    <3>1. InBuffer(r) = 0 /\ InBody(r) = res[r].body /\ InBuffer(r)' = res[r].body /\ InBody(r)' = 0
      <4>1. msgs'[r] > 0
        BY <1>1
      <4>2. InFlight(r)'
        BY <4>1, Zenon DEF InFlight
      <4>3. Filled(r) /\ ~Filled(r)'
        BY <1>1, Zenon DEF Filled
      <4> QED BY <2>1, <2>2, <4>2, <4>3, Zenon DEF InBuffer, InBody
    <3>2. made[r] = With(wire[r], res[r].body)
      BY <1>1, <1>5, <3>1, Zenon DEF Data, Order, With
    <3>3. made'[r] = With(With(wire'[r], InBuffer(r)'), InBody(r)')
      BY <1>1, <3>1, <3>2, Zenon DEF With
    <3> QED BY <1>1, <3>3, Zenon DEF Data, Order
  <2>4. Kind[r] = "stream" => ExportData(r)'
    BY <1>1, <1>5, <2>1, <2>2, Zenon DEF Data, ExportData, Filled, Ending, Exported
  <2>5. Kind[r] = "sse" => ProxyData(r)'
    BY <1>1, <1>5, <2>1, <2>2, Zenon DEF Data, ProxyData, Filled, Ending
  <2>6. EndData(r)'
    BY <1>1, <2>2, Zenon DEF EndData
  <2> QED BY <1>2, <1>3, <1>4, <2>3, <2>4, <2>5, <2>6, OneMoves, Zenon DEF Data
<1>6. CASE ~res[r].alive
  <2>1. state' = state /\ res' = res
    BY <1>6, Zenon DEF async_req_res_t
  <2>2. Order(r)'
    BY <1>1, <1>6, <2>1, Zenon DEF Data, Order
  <2>3. Kind[r] = "stream" => ExportData(r)'
    BY <1>1, <1>6, <2>1, Zenon DEF Data, ExportData
  <2>4. Kind[r] = "sse" => ProxyData(r)'
    BY <1>1, <1>6, <2>1, Zenon DEF Data, ProxyData
  <2>5. EndData(r)'
    BY <1>1, <2>1, Zenon DEF Data, EndData, Filled, Exported
  <2> QED BY <1>2, <1>3, <1>4, <2>2, <2>3, <2>4, <2>5, OneMoves, Zenon DEF Data
<1> QED BY <1>5, <1>6, Zenon

(* The message only says where the buffer is; one that holds nothing and   *)
(* is not the last is passed over.                                         *)
LEMMA DataOnStreamResponseMessage ==
    ASSUME NEW r \in Requests, CtlInv, DataInv, on_stream_response_message(r)
    PROVE  DataInv'
<1> USE DEF CtlInv, DataInv
<1>1. /\ msgs[r] > 0 /\ msgs'[r] = msgs[r] - 1 /\ msgs[r] \in Nat
      /\ UNCHANGED <<pc, state, step, made, wire, socket, sockets>>
      /\ Ctl(r) /\ Data(r)
  BY Zenon DEF on_stream_response_message, Types
<1>2. DataTypes'
  BY <1>1, Zenon DEF DataTypes
<1>3. ASSUME NEW q \in Requests, q # r PROVE Same(q)
  <2>1. res'[q] = res[q]
    BY <1>3, Zenon
    DEF on_stream_response_message, http_server_stream_response, response_proceed, WithReady, Types
  <2>2. conn'[q] = conn[q]
    BY <1>3, Zenon DEF on_stream_response_message, http_server_stream_response, Types
  <2>3. timer'[q] = timer[q]
    BY <1>3, Zenon
    DEF on_stream_response_message, http_server_stream_response, response_proceed, Types
  <2>4. msgs'[q] = msgs[q]
    BY <1>3, Zenon DEF on_stream_response_message, Types
  <2> QED BY <2>1, <2>2, <2>3, <2>4, Zenon DEF on_stream_response_message, Same
<1>4. /\ res'[r].alive = res[r].alive /\ res'[r].body = res[r].body
      /\ res'[r].final = res[r].final
  BY DEF on_stream_response_message, http_server_stream_response, response_proceed, WithReady, Types
<1>5. CASE res[r].alive
  <2>1. msgs[r] = 1 /\ msgs'[r] = 0 /\ conn[r] \in {"open", "between"}
    BY <1>1, <1>5 DEF Ctl, Turn
  <2>2. \/ /\ state[r].buf = 0 /\ ~state[r].last
           /\ conn'[r] = "between"
        \/ /\ conn'[r] = (IF state[r].last THEN "last" ELSE "sending")
           /\ timer' = timer
    BY <1>5, Zenon DEF on_stream_response_message, http_server_stream_response, Types
  <2>3. Kind[r] = "plain" => timer' = timer
    <3>1. Kind[r] = "plain" => state[r].last
      BY <1>1, <1>5, Zenon DEF Ctl, Plain
    <3> QED BY <1>5, <3>1, Zenon DEF on_stream_response_message, http_server_stream_response
  <2>4. Order(r)'
    <3>1. InBuffer(r)' = InBuffer(r) /\ InBody(r)' = InBody(r)
      BY <1>1, <1>4, <2>1, <2>2, Zenon DEF InBuffer, InFlight, InBody, Filled
    <3> QED BY <1>1, <1>4, <3>1, Zenon DEF Data, Order
  <2>5. Kind[r] = "plain" => PlainData(r)'
    BY <1>1, <2>3, Zenon DEF Data, PlainData
  <2>6. Ending(r)' => Ending(r)
    BY <1>1, <2>1, <2>2, Zenon DEF Ending
  <2>7. Kind[r] = "stream" => ExportData(r)'
    BY <1>1, <1>4, <2>6, Zenon DEF Data, ExportData, Filled, Exported
  <2>8. Kind[r] = "sse" => ProxyData(r)'
    BY <1>1, <1>4, <2>6, Zenon DEF Data, ProxyData, Filled
  <2>9. EndData(r)'
    BY <2>2, Zenon DEF EndData
  <2> QED BY <1>2, <1>3, <2>4, <2>5, <2>7, <2>8, <2>9, OneMoves, Zenon DEF Data
<1>6. CASE ~res[r].alive
  <2>1. conn' = conn /\ timer' = timer /\ ~res'[r].alive
    BY <1>4, <1>6, Zenon DEF on_stream_response_message
  <2>2. Order(r)'
    BY <1>1, <2>1, Zenon DEF Data, Order
  <2>3. Kind[r] = "plain" => PlainData(r)'
    BY <1>1, <2>1, Zenon DEF Data, PlainData
  <2>4. Kind[r] = "stream" => ExportData(r)'
    BY <1>1, <2>1, Zenon DEF Data, ExportData
  <2>5. Kind[r] = "sse" => ProxyData(r)'
    BY <1>1, <2>1, Zenon DEF Data, ProxyData
  <2>6. EndData(r)'
    BY <1>1, <2>1, Zenon DEF Data, EndData, Filled, Exported
  <2> QED BY <1>2, <1>3, <2>2, <2>3, <2>4, <2>5, <2>6, OneMoves, Zenon DEF Data
<1> QED BY <1>5, <1>6, Zenon

(* What h2o writes out is the next chunk of what was made.                 *)
LEMMA OrderSent ==
    ASSUME NEW r \in Requests, Types, DataTypes, Order(r), res[r].alive, pc[r] # "none",
           conn[r] \in {"sending", "last"}, wire' = [wire EXCEPT ![r] = Written(r)],
           made' = made, pc' = pc, InBody(r)' = InBody(r), InBuffer(r)' = 0
    PROVE  /\ Order(r)'
           /\ wire' \in [Requests -> Seq(Nat)]
           /\ made[r] = With(wire'[r], InBody(r))
<1>1. /\ wire[r] \in Seq(Nat) /\ state[r].buf \in Nat /\ InBody(r) \in Nat
      /\ InBuffer(r) = state[r].buf
  BY Zenon DEF Types, DataTypes, Response, InBody, InBuffer, InFlight
<1>2. Written(r) = With(wire[r], state[r].buf) /\ Written(r) \in Seq(Nat)
  BY <1>1 DEF Written, With
<1>3. wire'[r] = Written(r) /\ wire' \in [Requests -> Seq(Nat)]
  BY <1>2, Zenon DEF DataTypes
<1>4. made[r] = With(wire'[r], InBody(r))
  BY <1>1, <1>2, <1>3, Zenon DEF Order
<1>5. /\ Len(wire'[r]) <= Len(made[r])
      /\ \A k \in 1..Len(wire'[r]) : wire'[r][k] = made[r][k]
  BY <1>1, <1>2, <1>3, <1>4, WithAfter
<1>6. With(wire'[r], 0) = wire'[r]
  BY Zenon DEF With
<1> QED BY <1>3, <1>4, <1>5, <1>6, Zenon DEF Order

(* A chunk was taken, and the next one may be asked for.                   *)
LEMMA DataChunkTaken ==
    ASSUME NEW r \in Requests, CtlInv, DataInv, ChunkTaken(r)
    PROVE  DataInv'
<1> USE DEF CtlInv, DataInv
<1>1. /\ conn[r] = "sending" /\ conn'[r] = "between"
      /\ wire' = [wire EXCEPT ![r] = Written(r)]
      /\ UNCHANGED <<pc, state, msgs, step, made, socket, sockets>>
      /\ res'[r].alive = res[r].alive /\ res'[r].body = res[r].body
      /\ res'[r].final = res[r].final
      /\ Ctl(r) /\ Data(r)
  BY Zenon DEF ChunkTaken, response_proceed, WithReady, Types
<1>2. res[r].alive /\ msgs[r] = 0 /\ pc[r] # "none" /\ Kind[r] # "plain"
  <2>1. msgs[r] \in Nat /\ res[r].alive
    BY <1>1, Zenon DEF Types, Ctl, Held
  <2>2. msgs[r] = 0
    BY <1>1, <2>1, Counts, Zenon DEF Ctl, Turn
  <2> QED BY <1>1, <2>1, <2>2, Zenon DEF Ctl, Unhandled, Turn, Plain, InFlight
<1>3. InBody(r)' = InBody(r) /\ InBuffer(r)' = 0
  BY <1>1, <1>2 DEF InBody, InBuffer, InFlight, Filled
<1>4. Order(r)' /\ DataTypes'
  BY <1>1, <1>2, <1>3, OrderSent, Zenon DEF Data, DataTypes
<1>5. \A q \in Requests : q # r => Same(q)
  BY Zenon DEF ChunkTaken, response_proceed, WithReady, Types, DataTypes, Same
<1>6. ~Ending(r)' /\ EndData(r)'
  BY <1>1, <1>2, Counts, Zenon DEF Ending, EndData
<1>7. Kind[r] = "stream" => ExportData(r)'
  BY <1>1, <1>6, Zenon DEF Data, ExportData, Filled, Exported
<1>8. Kind[r] = "sse" => ProxyData(r)'
  BY <1>1, <1>6, Zenon DEF Data, ProxyData, Filled
<1> QED BY <1>2, <1>4, <1>5, <1>6, <1>7, <1>8, OneMoves, Zenon DEF Data

(* The final chunk was taken, and the response is over.                    *)
LEMMA DataLastTaken ==
    ASSUME NEW r \in Requests, CtlInv, DataInv, LastTaken(r)
    PROVE  DataInv'
<1> USE DEF CtlInv, DataInv
<1>1. /\ conn[r] = "last" /\ conn'[r] = "sent"
      /\ wire' = [wire EXCEPT ![r] = Written(r)]
      /\ UNCHANGED <<pc, res, state, msgs, timer, step, made, socket, sockets>>
      /\ Ctl(r) /\ Data(r)
  BY Zenon DEF LastTaken, Types
<1>2. res[r].alive /\ msgs[r] = 0 /\ pc[r] # "none" /\ ~timer[r]
  <2>1. msgs[r] \in Nat /\ res[r].alive
    BY <1>1, Zenon DEF Types, Ctl, Held
  <2>2. msgs[r] = 0
    BY <1>1, <2>1, Counts, Zenon DEF Ctl, Turn
  <2> QED BY <1>1, <2>1, <2>2, Zenon DEF Ctl, Unhandled, Turn, InFlight
<1>3. InBody(r)' = InBody(r) /\ InBuffer(r)' = 0
  BY <1>1, <1>2 DEF InBody, InBuffer, InFlight, Filled
<1>4. Order(r)' /\ DataTypes' /\ made[r] = With(wire'[r], InBody(r))
  BY <1>1, <1>2, <1>3, OrderSent, Zenon DEF Data, DataTypes
<1>5. \A q \in Requests : q # r => Same(q)
  BY Zenon DEF LastTaken, Types, DataTypes, Same
<1>6. ~Filled(r) => wire'[r] = made[r]
  BY <1>4, Zenon DEF InBody, With
<1>7. Kind[r] # "sse" => pc[r] = "idle" /\ ~Filled(r)
  BY <1>1, <1>2, Zenon DEF Ctl, Turn, Filled
<1>8. ~Ending(r)' /\ Ending(r)
  BY <1>1, <1>2, Counts, Zenon DEF Ending
<1>9. EndData(r)'
  BY <1>1, <1>2, <1>6, <1>7, <1>8, Zenon DEF Data, ExportData, ProxyData, EndData, Exported, Filled
<1>10. Kind[r] = "plain" => PlainData(r)'
  BY <1>1, Zenon DEF Data, PlainData
<1>11. Kind[r] = "stream" => ExportData(r)'
  BY <1>1, <1>8, Zenon DEF Data, ExportData, Filled, Exported
<1>12. Kind[r] = "sse" => ProxyData(r)'
  BY <1>1, <1>8, Zenon DEF Data, ProxyData, Filled
<1> QED BY <1>4, <1>5, <1>9, <1>10, <1>11, <1>12, OneMoves, Zenon DEF Data
-----------------------------------------------------------------------------
(* Nothing was made or sent at first.                                      *)
LEMMA DataStart == Init => DataInv
<1>1. Init => DataTypes
  BY DEF Init, DataTypes
<1>2. ASSUME Init, NEW r \in Requests PROVE Data(r)
  BY <1>2 DEF Init, Data, Order, PlainData, ExportData, ProxyData, EndData, Filled, Ending, Exported
<1> QED BY <1>1, <1>2, Zenon DEF DataInv

(* Every step keeps what is made, buffered and sent in order.              *)
LEMMA DataStep == CtlInv /\ DataInv /\ [Next]_vars => DataInv'
<1> SUFFICES ASSUME CtlInv, DataInv, [Next]_vars PROVE DataInv'
  BY Zenon
<1>1. CASE TakeTask
  BY <1>1, DataTakeTask, Zenon
<1>2. ASSUME NEW r \in Requests, Arriving(r) PROVE DataInv'
  BY <1>2, DataCatchAllHandler, DataAsyncReqCb, DataDeny, Zenon DEF Arriving
<1>3. ASSUME NEW r \in Requests, Handling(r) PROVE DataInv'
  BY <1>3, DataPlainHandler, DataGetExportDocuments, DataStreamResponse, DataWait,
     DataAsyncReqResT, DataConnect, DataCurlWriteAsync, DataCurlWriteAsyncDone,
     DataCallSseReturns, Zenon DEF Handling
<1>4. ASSUME NEW r \in Requests, Looping(r) \/ Sending(r) PROVE DataInv'
  BY <1>4, DataOnStreamResponseMessage, DataOnDeferredProcessRequest, DataChunkTaken,
     DataLastTaken, Zenon DEF Looping, Sending
<1>5. ASSUME NEW r \in Requests, response_abort(r) \/ on_res_generator_dispose(r) PROVE DataInv'
  BY <1>5, DataResponseAbort, DataDispose, Zenon
<1>6. CASE UNCHANGED vars
  <2>1. DataTypes'
    BY <1>6, Zenon DEF vars, DataInv, DataTypes
  <2>2. \A q \in Requests : Same(q)
    BY <1>6, Zenon DEF vars, Same
  <2> QED BY <2>1, <2>2, DataSame, Zenon DEF DataInv
<1> QED BY <1>1, <1>2, <1>3, <1>4, <1>5, <1>6, Zenon DEF Next

LEMMA DataAlways == Spec => []DataInv
BY CtlAlways, DataStart, DataStep, PTL DEF Spec

(* The client is sent what the handler made, in order, once and without a  *)
(* gap: for any number of requests and threads, any kinds of handlers and  *)
(* any number of chunks, and also of a response that was given up.         *)
THEOREM StreamSentAsMade == Spec => []SentAsMade
<1>1. DataInv => SentAsMade
  BY Zenon DEF DataInv, Data, Order, SentAsMade
<1> QED BY <1>1, DataAlways, PTL

(* A response that ended normally is whole: a plain one is its one chunk,  *)
(* an export has every batch or says why not, and a proxied stream that    *)
(* opened one socket has every chunk up to the close of it.                *)
THEOREM StreamEndedIsWhole == Spec => []EndedIsWhole
<1>1. CtlInv /\ DataInv => EndedIsWhole
  <2> SUFFICES ASSUME CtlInv, DataInv, NEW r \in Requests,
                      conn[r] \in {"sent", "done"}, sockets[r] <= 1
               PROVE  /\ wire[r] = made[r]
                      /\ Kind[r] = "plain" => wire[r] = <<1>>
                      /\ Kind[r] = "stream" =>
                             \/ step[r] = Chunks[r]
                             \/ wire[r] # <<>> /\ wire[r][Len(wire[r])] = ErrorChunk(r)
                      /\ Kind[r] = "sse" => socket[r] = "closed"
    BY Zenon DEF EndedIsWhole
  <2>1. Data(r)
    BY Zenon DEF DataInv
  <2>2. wire[r] = made[r]
    BY <2>1, Zenon DEF Data, EndData
  <2> QED BY <2>1, <2>2, Zenon DEF Data, EndData, PlainData, Exported
<1> QED BY <1>1, CtlAlways, DataAlways, PTL
=============================================================================
