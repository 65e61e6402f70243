----------------------------- MODULE HttpStream -----------------------------
(***************************************************************************)
(* The life of an HTTP response between three kinds of threads.            *)
(*                                                                         *)
(* The event loop (h2o, one thread) accepts a request, hands its handler   *)
(* to the thread pool and later writes what the handler produced.  A pool  *)
(* thread fills http_res, moves it into the request's res_state            *)
(* (async_req_res_t) and sends the loop a message; it may do so again only *)
(* when the loop has had the previous chunk taken, which it learns from    *)
(* the ready flag (http_res::wait and notify).  A streaming handler        *)
(* (export) is called again for every chunk, through a timer of the loop   *)
(* and the pool; a proxied stream (server-sent events) keeps its thread    *)
(* and is driven by libcurl's callbacks.  The client can go away at any    *)
(* moment, upon which h2o disposes of the request under both.              *)
(*                                                                         *)
(* A message carries only the two shared pointers: what the loop writes is *)
(* read from res_state when it is written, so a buffer that is replaced    *)
(* too early is sent in the place of the old one.                          *)
(*                                                                         *)
(* External: h2o's sending (conn), libcurl and the remote server.          *)
(***************************************************************************)
EXTENDS Integers, Sequences, FiniteSets

CONSTANTS
    Requests,     \* the requests that may arrive
    Kind,         \* Requests -> AllKinds
    Uploads,      \* the requests whose body may come in pieces
    Chunks,       \* Requests -> the number of batches or remote chunks
    Threads,      \* the size of the thread pool
    MaxSockets    \* bound: sockets libcurl opens for one transfer

(* plain: a route without async_res, its response posted by process_request *)
(* after the handler; stream: the handler calls stream_response itself, an *)
(* export or (with one chunk) a write; sse: a proxied stream.              *)
AllKinds == {"plain", "stream", "sse"}

ASSUME StreamAssumption ==
    /\ Kind \in [Requests -> AllKinds]
    /\ Uploads \subseteq Requests
    /\ Chunks \in [Requests -> Nat]
    /\ Threads \in Nat \ {0}
    /\ MaxSockets \in Nat

VARIABLES
    conn,      \* h2o's side of each request, see Conn
    pool,      \* the tasks of the thread pool, in order
    pc,        \* where the handler of each request is
    res,       \* http_res: [alive, final, ready, body]
    state,     \* stream_response_state_t: [buf, last]
    msgs,      \* stream-response messages on their way to the loop
    timer,     \* defer_timer.data is set
    step,      \* how many batches or remote chunks the handler is through
    made,      \* history: the chunks the handler put in a body, in order
    wire,      \* history: what the client was sent, in order
    socket,    \* libcurl's socket: "none", "open" or "closed"
    sockets    \* how many sockets libcurl has opened

vars == <<conn, pool, pc, res, state, msgs, timer, step, made, wire, socket, sockets>>

(* open: no response yet; between: started, nothing to write; sending and  *)
(* last: h2o holds a pointer to the buffer; sent: the final one is out;    *)
(* denied: answered without the handler; done, gone: disposed of.          *)
Conn == {"none", "upload", "open", "between", "sending", "last",
         "sent", "denied", "aborted", "done", "gone"}

Places == {"none", "queued", "handle", "check", "wait", "post", "idle"}

(* A chunk is its number, 0 an empty buffer.                               *)
ErrorChunk(r) == Chunks[r] + 1

(* The response with another body, another ready flag, and given up by h2o.*)
WithBody(r, c, final) ==
    [res EXCEPT ![r] = [alive |-> res[r].alive, final |-> final,
                        ready |-> res[r].ready, body |-> c]]

WithReady(r, ready) ==
    [res EXCEPT ![r] = [alive |-> res[r].alive, final |-> res[r].final,
                        ready |-> ready, body |-> res[r].body]]

Dead(r, ready) ==
    [res EXCEPT ![r] = [alive |-> FALSE, final |-> TRUE,
                        ready |-> ready, body |-> res[r].body]]

Running == {r \in Requests : pc[r] \in {"handle", "check", "wait", "post"}}

Enqueue(r) ==
    /\ pool' = Append(pool, r)
    /\ pc' = [pc EXCEPT ![r] = "queued"]
-----------------------------------------------------------------------------
(* The event loop: a request arrives.                                      *)

(* catch_all_handler: the generator is made and the response notified, so  *)
(* that the first chunk does not wait; with the whole body at hand the     *)
(* handler goes to the pool.  A request that is refused before that (no    *)
(* route, not ready, over the rate limit, no valid key) is answered on the *)
(* spot and leaves nothing behind: here it does not arrive.                *)
catch_all_handler(r, whole) ==
    /\ conn[r] = "none"
    /\ whole \/ r \in Uploads
    /\ res' = [res EXCEPT ![r] = [alive |-> TRUE, final |-> TRUE, ready |-> TRUE, body |-> 0]]
    /\ IF whole
       THEN conn' = [conn EXCEPT ![r] = "open"] /\ Enqueue(r)
       ELSE conn' = [conn EXCEPT ![r] = "upload"] /\ UNCHANGED <<pool, pc>>
    /\ UNCHANGED <<state, msgs, timer, step, made, wire, socket, sockets>>

(* The end of a body that came in pieces.  No route streams its request    *)
(* body, so the pieces before it are only collected, and the refusal of    *)
(* old curl clients, which is for routes that do, is not met.              *)
async_req_cb(r) ==
    /\ conn[r] = "upload"
    /\ conn' = [conn EXCEPT ![r] = "open"]
    /\ Enqueue(r)
    /\ UNCHANGED <<res, state, msgs, timer, step, made, wire, socket, sockets>>

(* process_request refuses a key that can be checked only with the body.   *)
Deny(r) ==
    /\ conn[r] = "upload"
    /\ conn' = [conn EXCEPT ![r] = "denied"]
    /\ UNCHANGED <<pool, pc, res, state, msgs, timer, step, made, wire, socket, sockets>>

-----------------------------------------------------------------------------
(* The thread pool.                                                        *)

TakeTask ==
    /\ pool # <<>>
    /\ Cardinality(Running) < Threads
    /\ pc' = [pc EXCEPT ![Head(pool)] = "handle"]
    /\ pool' = Tail(pool)
    /\ UNCHANGED <<conn, res, state, msgs, timer, step, made, wire, socket, sockets>>

(* A handler that only fills the response; process_request posts it.       *)
PlainHandler(r) ==
    /\ pc[r] = "handle"
    /\ Kind[r] = "plain"
    /\ pc' = [pc EXCEPT ![r] = "post"]
    /\ res' = WithBody(r, 1, res[r].final)
    /\ made' = [made EXCEPT ![r] = <<1>>]
    /\ UNCHANGED <<conn, pool, state, msgs, timer, step, wire, socket, sockets>>

(* Mutant: the last batch but one counts as the last.                      *)
ExportEndsEarly(r) ==
    /\ pc[r] = "handle"
    /\ Kind[r] = "stream"
    /\ pc' = [pc EXCEPT ![r] = "check"]
    /\ IF step[r] < Chunks[r]
       THEN /\ step' = [step EXCEPT ![r] = @ + 1]
            /\ res' = WithBody(r, step[r] + 1, step[r] + 2 >= Chunks[r])
            /\ made' = [made EXCEPT ![r] = Append(@, step[r] + 1)]
       ELSE /\ res' = WithBody(r, 0, res[r].final)
            /\ UNCHANGED <<step, made>>
    /\ UNCHANGED <<conn, pool, state, msgs, timer, wire, socket, sockets>>

(* get_export_documents: the next batch goes to the body.  A batch whose   *)
(* documents were deleted since the filter ran is empty; an export of      *)
(* nothing leaves final as it was; when the collection was dropped since   *)
(* the last batch, an error message ends the stream.                       *)
get_export_documents(r) ==
    /\ pc[r] = "handle"
    /\ Kind[r] = "stream"
    /\ pc' = [pc EXCEPT ![r] = "check"]
    /\ IF step[r] < Chunks[r]
       THEN \E c \in {0, step[r] + 1, ErrorChunk(r)} :
              /\ step' = [step EXCEPT ![r] = @ + 1]
              /\ res' = WithBody(r, c, step[r] + 1 = Chunks[r] \/ c = ErrorChunk(r))
              /\ made' = [made EXCEPT ![r] = IF c = 0 THEN @ ELSE Append(@, c)]
       ELSE /\ res' = WithBody(r, 0, res[r].final)
            /\ UNCHANGED <<step, made>>
    /\ UNCHANGED <<conn, pool, state, msgs, timer, wire, socket, sockets>>

(* stream_response of the API, and send_response of the runtime: nothing   *)
(* more is done for a dead request.                                        *)
stream_response(r) ==
    /\ pc[r] = "check"
    /\ pc' = [pc EXCEPT ![r] = IF res[r].alive THEN "wait" ELSE "idle"]
    /\ UNCHANGED <<conn, pool, res, state, msgs, timer, step, made, wire, socket, sockets>>

(* http_res::wait                                                          *)
wait(r) ==
    /\ pc[r] = "wait"
    /\ res[r].ready
    /\ res' = WithReady(r, FALSE)
    /\ pc' = [pc EXCEPT ![r] = "post"]
    /\ UNCHANGED <<conn, pool, state, msgs, timer, step, made, wire, socket, sockets>>

(* Mutant: a buffer that was filled once is kept.                          *)
BufferKept(r) ==
    /\ pc[r] = "post"
    /\ IF res[r].alive
       THEN /\ state' = [state EXCEPT ![r] = [buf |-> IF @.buf = 0 THEN res[r].body ELSE @.buf,
                                              last |-> res[r].final]]
            /\ res' = WithBody(r, 0, res[r].final)
       ELSE UNCHANGED <<state, res>>
    /\ msgs' = [msgs EXCEPT ![r] = @ + 1]
    /\ pc' = [pc EXCEPT ![r] = IF Kind[r] = "sse" THEN "handle" ELSE "idle"]
    /\ UNCHANGED <<conn, pool, timer, step, made, wire, socket, sockets>>

(* The constructor of async_req_res_t, under the shared lock of the        *)
(* response, moves the body into res_state unless the request is dead, and *)
(* the message is sent.  A proxied stream goes back to libcurl.            *)
async_req_res_t(r) ==
    /\ pc[r] = "post"
    /\ IF res[r].alive
       THEN /\ state' = [state EXCEPT ![r] = [buf |-> res[r].body, last |-> res[r].final]]
            /\ res' = WithBody(r, 0, res[r].final)
       ELSE UNCHANGED <<state, res>>
    /\ msgs' = [msgs EXCEPT ![r] = @ + 1]
    /\ pc' = [pc EXCEPT ![r] = IF Kind[r] = "sse" THEN "handle" ELSE "idle"]
    /\ UNCHANGED <<conn, pool, timer, step, made, wire, socket, sockets>>
-----------------------------------------------------------------------------
(* libcurl, on the pool thread of a proxied stream.                        *)

(* A socket is opened; a further one only when a connection attempt failed *)
(* and the host has another address.                                       *)
Connect(r) ==
    /\ pc[r] = "handle"
    /\ Kind[r] = "sse"
    /\ socket[r] # "open"
    /\ step[r] = 0
    /\ sockets[r] < MaxSockets
    /\ socket' = [socket EXCEPT ![r] = "open"]
    /\ sockets' = [sockets EXCEPT ![r] = @ + 1]
    /\ UNCHANGED <<conn, pool, pc, res, state, msgs, timer, step, made, wire>>

(* A chunk from the remote server: body and final are set, then the thread *)
(* waits for the previous chunk.  For a dead request the callback returns  *)
(* 0, which makes libcurl give up the transfer.                            *)
curl_write_async(r) ==
    /\ pc[r] = "handle"
    /\ socket[r] = "open"
    /\ step[r] < Chunks[r]
    /\ step' = [step EXCEPT ![r] = @ + 1]
    /\ IF res[r].alive
       THEN /\ res' = WithBody(r, step[r] + 1, FALSE)
            /\ made' = [made EXCEPT ![r] = Append(@, step[r] + 1)]
            /\ pc' = [pc EXCEPT ![r] = "wait"]
            /\ UNCHANGED socket
       ELSE /\ socket' = [socket EXCEPT ![r] = "closed"]
            /\ UNCHANGED <<res, made, pc>>
    /\ UNCHANGED <<conn, pool, state, msgs, timer, wire, sockets>>

(* A socket of the transfer is closed, at its end or because the attempt   *)
(* or the connection failed: the empty final chunk.                        *)
curl_write_async_done(r) ==
    /\ pc[r] = "handle"
    /\ socket[r] = "open"
    /\ socket' = [socket EXCEPT ![r] = "closed"]
    /\ IF res[r].alive
       THEN /\ res' = WithBody(r, 0, TRUE)
            /\ pc' = [pc EXCEPT ![r] = "wait"]
       ELSE UNCHANGED <<res, pc>>
    /\ UNCHANGED <<conn, pool, state, msgs, timer, step, made, wire, sockets>>

(* The transfer is over and the handler returns, whether or not a socket   *)
(* was ever opened.  The request is a POST: any other is answered at once, *)
(* as a plain handler's is.                                                *)
call_sse_returns(r) ==
    /\ pc[r] = "handle"
    /\ Kind[r] = "sse"
    /\ socket[r] # "open"
    /\ pc' = [pc EXCEPT ![r] = "idle"]
    /\ UNCHANGED <<conn, pool, res, state, msgs, timer, step, made, wire, socket, sockets>>
-----------------------------------------------------------------------------
(* The event loop: messages, timers, and what h2o does.                    *)

(* h2o has had the chunk taken: the next one may come.  A streaming        *)
(* handler is called again through defer_processing, a proxied one is not. *)
response_proceed(r) ==
    /\ res' = WithReady(r, TRUE)
    /\ timer' = [timer EXCEPT ![r] = @ \/ Kind[r] # "sse"]

(* Mutant: the waiter is woken when the chunk is handed to h2o.            *)
NotifyOnSend(r) ==
    /\ msgs[r] > 0
    /\ msgs' = [msgs EXCEPT ![r] = @ - 1]
    /\ res' = WithReady(r, TRUE)
    /\ conn' = [conn EXCEPT ![r] = IF ~res[r].alive THEN @
                                   ELSE IF state[r].last THEN "last" ELSE "sending"]
    /\ UNCHANGED <<pool, pc, state, timer, step, made, wire, socket, sockets>>

(* What is in res_state goes to h2o; an empty chunk that is not the last   *)
(* one only asks for the next.                                             *)
http_server_stream_response(r) ==
    IF state[r].buf = 0 /\ ~state[r].last
    THEN /\ conn' = [conn EXCEPT ![r] = "between"]
         /\ response_proceed(r)
    ELSE /\ conn' = [conn EXCEPT ![r] = IF state[r].last THEN "last" ELSE "sending"]
         /\ UNCHANGED <<res, timer>>

(* A message.  For a dead request it wakes whoever waits.                  *)
on_stream_response_message(r) ==
    /\ msgs[r] > 0
    /\ msgs' = [msgs EXCEPT ![r] = @ - 1]
    /\ IF res[r].alive THEN http_server_stream_response(r)
       ELSE /\ res' = WithReady(r, TRUE)
            /\ UNCHANGED <<conn, timer>>
    /\ UNCHANGED <<pool, pc, state, step, made, wire, socket, sockets>>

(* What h2o reads when it writes the buffer out.                           *)
Written(r) == IF state[r].buf = 0 THEN wire[r] ELSE Append(wire[r], state[r].buf)

ChunkTaken(r) ==
    /\ conn[r] = "sending"
    /\ conn' = [conn EXCEPT ![r] = "between"]
    /\ wire' = [wire EXCEPT ![r] = Written(r)]
    /\ response_proceed(r)
    /\ UNCHANGED <<pool, pc, state, msgs, step, made, socket, sockets>>

LastTaken(r) ==
    /\ conn[r] = "last"
    /\ conn' = [conn EXCEPT ![r] = "sent"]
    /\ wire' = [wire EXCEPT ![r] = Written(r)]
    /\ UNCHANGED <<pool, pc, res, state, msgs, timer, step, made, socket, sockets>>

(* The timer fires: the handler goes to the pool again.                    *)
on_deferred_process_request(r) ==
    /\ timer[r]
    /\ timer' = [timer EXCEPT ![r] = FALSE]
    /\ Enqueue(r)
    /\ UNCHANGED <<conn, res, state, msgs, step, made, wire, socket, sockets>>

(* The client goes away in the middle of a response.                       *)
response_abort(r) ==
    /\ conn[r] \in {"between", "sending"}
    /\ conn' = [conn EXCEPT ![r] = "aborted"]
    /\ res' = Dead(r, res[r].ready)
    /\ UNCHANGED <<pool, pc, state, msgs, timer, step, made, wire, socket, sockets>>

(* Mutant: no one is woken.                                                *)
DisposeSilently(r) ==
    /\ conn[r] \in {"upload", "open", "last", "sent", "denied", "aborted"}
    /\ conn' = [conn EXCEPT ![r] = IF @ = "sent" THEN "done" ELSE "gone"]
    /\ res' = Dead(r, res[r].ready)
    /\ UNCHANGED <<pool, pc, state, msgs, timer, step, made, wire, socket, sockets>>

(* h2o is through with the request, or the client went away before or      *)
(* after the response: the generator is disposed of and every waiter woken.*)
on_res_generator_dispose(r) ==
    /\ conn[r] \in {"upload", "open", "last", "sent", "denied", "aborted"}
    /\ conn' = [conn EXCEPT ![r] = IF @ = "sent" THEN "done" ELSE "gone"]
    /\ res' = Dead(r, TRUE)
    /\ UNCHANGED <<pool, pc, state, msgs, timer, step, made, wire, socket, sockets>>
-----------------------------------------------------------------------------
Init ==
    /\ conn = [r \in Requests |-> "none"]
    /\ pool = <<>>
    /\ pc = [r \in Requests |-> "none"]
    /\ res = [r \in Requests |-> [alive |-> FALSE, final |-> TRUE, ready |-> FALSE, body |-> 0]]
    /\ state = [r \in Requests |-> [buf |-> 0, last |-> FALSE]]
    /\ msgs = [r \in Requests |-> 0]
    /\ timer = [r \in Requests |-> FALSE]
    /\ step = [r \in Requests |-> 0]
    /\ made = [r \in Requests |-> <<>>]
    /\ wire = [r \in Requests |-> <<>>]
    /\ socket = [r \in Requests |-> "none"]
    /\ sockets = [r \in Requests |-> 0]

Arriving(r) ==
    \/ \E whole \in BOOLEAN : catch_all_handler(r, whole)
    \/ async_req_cb(r)
    \/ Deny(r)

Handling(r) ==
    \/ PlainHandler(r)
    \/ get_export_documents(r)
    \/ stream_response(r)
    \/ wait(r)
    \/ async_req_res_t(r)
    \/ Connect(r)
    \/ curl_write_async(r)
    \/ curl_write_async_done(r)
    \/ call_sse_returns(r)

Looping(r) == on_stream_response_message(r) \/ on_deferred_process_request(r)

Sending(r) == ChunkTaken(r) \/ LastTaken(r)

Next ==
    \/ TakeTask
    \/ \E r \in Requests :
           Arriving(r) \/ Handling(r) \/ Looping(r) \/ Sending(r)
                       \/ response_abort(r) \/ on_res_generator_dispose(r)

Spec == Init /\ [][Next]_vars

(* The pool and the loop run, libcurl ends every transfer (it has a time   *)
(* limit), and h2o gets rid of a buffer: the client takes it or is given   *)
(* up.  A client need not send anything, nor finish its body.              *)
FairSpec ==
    /\ Spec
    /\ WF_vars(TakeTask)
    /\ \A r \in Requests :
           /\ WF_vars(Handling(r))
           /\ WF_vars(Looping(r))
           /\ WF_vars(Sending(r))
           /\ WF_vars(conn[r] \in {"sent", "denied", "aborted"} /\ on_res_generator_dispose(r))
-----------------------------------------------------------------------------
Response == [alive : BOOLEAN, final : BOOLEAN, ready : BOOLEAN, body : Nat]

(* Types; no message is handled that was not sent.                         *)
TypeOK ==
    /\ conn \in [Requests -> Conn]
    /\ pool \in Seq(Requests)
    /\ pc \in [Requests -> Places]
    /\ res \in [Requests -> Response]
    /\ state \in [Requests -> [buf : Nat, last : BOOLEAN]]
    /\ msgs \in [Requests -> Nat]
    /\ timer \in [Requests -> BOOLEAN]
    /\ step \in [Requests -> Nat]
    /\ made \in [Requests -> Seq(Nat)]
    /\ wire \in [Requests -> Seq(Nat)]
    /\ socket \in [Requests -> {"none", "open", "closed"}]
    /\ sockets \in [Requests -> 0..MaxSockets]

(* The loop is writing a buffer of this request, or has been told to.      *)
InFlight(r) == conn[r] \in {"sending", "last"} \/ msgs[r] > 0

(* The code that writes res_state and the code that reads it run on        *)
(* different threads without a lock; what keeps them apart is that a       *)
(* second chunk of a live request is not built before h2o is through with  *)
(* the first.  So there is one message at most, none while h2o holds the   *)
(* buffer, and no thread that is about to replace it or free to.           *)
OneChunkInFlight ==
    \A r \in Requests : res[r].alive =>
        /\ msgs[r] <= 1
        /\ conn[r] \in {"sending", "last"} => msgs[r] = 0
        /\ InFlight(r) => pc[r] # "post" /\ ~(pc[r] = "wait" /\ res[r].ready)

(* While h2o holds a pointer to the buffer of a chunk, set_response does   *)
(* not free it.                                                            *)
BufferStable ==
    [][\A r \in Requests : conn[r] \in {"sending", "last"} => state'[r] = state[r]]_vars

(* A request has one handler call at a time: the timer of                  *)
(* defer_processing, the pool's queue and the running calls never hold it  *)
(* twice, for all that both the loop and libcurl drive it.  (The comment   *)
(* in defer_processing: timer data that is still set "should not happen".) *)
OneHandler ==
    \A r \in Requests :
        /\ timer[r] => /\ pc[r] = "idle"
                       /\ res[r].alive => ~InFlight(r)
        /\ \A i, j \in 1..Len(pool) : pool[i] = r /\ pool[j] = r => i = j
        /\ (\E i \in 1..Len(pool) : pool[i] = r) <=> pc[r] = "queued"

(* The client is sent what the handler made, in order, once and without a  *)
(* gap, whatever the order in which pool, loop and client run.             *)
SentAsMade ==
    \A r \in Requests :
        /\ Len(wire[r]) <= Len(made[r])
        /\ \A k \in 1..Len(wire[r]) : wire[r][k] = made[r][k]

(* A response that ended normally is whole: it has every batch of the      *)
(* export or tells the error that cut it short, and every chunk of the     *)
(* remote stream up to the close of its socket.  The exception is a        *)
(* proxied stream that needed a second socket: curl_write_async_done is    *)
(* the close callback of every socket, so a failed attempt ends the        *)
(* response.                                                               *)
EndedIsWhole ==
    \A r \in Requests : conn[r] \in {"sent", "done"} /\ sockets[r] <= 1 =>
        /\ wire[r] = made[r]
        /\ Kind[r] = "plain" => wire[r] = <<1>>
        /\ Kind[r] = "stream" =>
               \/ step[r] = Chunks[r]
               \/ wire[r] # <<>> /\ wire[r][Len(wire[r])] = ErrorChunk(r)
        /\ Kind[r] = "sse" => socket[r] = "closed"

(* The transfer of a proxied stream ended before a socket was opened (the  *)
(* name did not resolve): no callback ran, and nothing answers the client. *)
NeverConnected(r) == Kind[r] = "sse" /\ sockets[r] = 0 /\ pc[r] = "idle"

(* Every request that reached its handler is answered or given up by its   *)
(* client, and its handler gives the thread back, also from the wait for a *)
(* chunk of a client that went away: response_abort does not wake the      *)
(* waiter, the dispose that follows does.  The exception are proxied       *)
(* streams that never connected.                                           *)
EveryRequestEnds ==
    \A r \in Requests :
        (conn[r] = "open") ~>
            (pc[r] = "idle" /\ (conn[r] \in {"done", "gone"} \/ NeverConnected(r)))
=============================================================================
