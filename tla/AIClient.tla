------------------------------ MODULE AIClient ------------------------------
(***************************************************************************)
(* One call of the AI client: ArkOpenAIClient.complete, complete_json,      *)
(* complete_json_with_usage or stream.  A call sends HTTP requests, each    *)
(* answered by a status or by a stream of chunks; complete retries          *)
(* transient failures, complete_json asks again when the text is no JSON,   *)
(* around complete.  The circuit breaker sees the call from outside, once   *)
(* (module CircuitBreaker).                                                 *)
(***************************************************************************)
EXTENDS Integers

CONSTANTS
    MaxRetries,      \* _MAX_RETRIES: transient failures that are retried
    MaxJsonRetries,  \* max_retries of complete_json
    MaxChunks        \* bound: chunks of one response

ClientAssumption == MaxRetries \in Nat /\ MaxJsonRetries \in Nat /\ MaxChunks \in Nat

Kinds == {"complete", "json", "json_usage", "stream"}
Json == {"json", "json_usage"}

\* What a text is to parse_json_response: "object" is a JSON object, "prose" is not.
Texts == {"empty", "prose", "object"}

AIErrors == {"rate_limited", "unavailable", "timeout", "invalid"}

VARIABLES
    kind,       \* the method called
    pc,         \* where it is
    attempt,    \* of _complete
    format,     \* of _complete_json
    content,    \* the text of the content chunks of this response
    reasoning,  \* the text of its reasoning chunks
    chunks,     \* chunks of this response so far
    cut,        \* the response ended without [DONE]
    shown,      \* stream: what the caller was given, in order: "content" or "reasoning"
    sent,       \* HTTP requests sent by the call
    result,     \* the text a call returned
    error       \* how a call failed: an AI error; "raw": an exception of httpx;
                \* "malformed": an AttributeError

vars == <<kind, pc, attempt, format, content, reasoning, chunks, cut, shown, sent,
          result, error>>

\* The type invariant.
TypeOK ==
    /\ kind \in Kinds
    /\ pc \in {"start", "request", "stream", "collected", "pause", "text", "returned", "raised"}
    /\ attempt \in 0..MaxRetries
    /\ format \in 0..MaxJsonRetries
    /\ content \in Texts
    /\ reasoning \in Texts
    /\ chunks \in 0..MaxChunks
    /\ cut \in BOOLEAN
    /\ shown \in SUBSET {"content", "reasoning"}
    /\ sent \in Nat
    /\ result \in Texts
    /\ error \in {"none", "raw", "malformed"} \cup AIErrors

Init ==
    /\ kind \in Kinds
    /\ pc = "start"
    /\ attempt = 0
    /\ format = 0
    /\ content = "empty"
    /\ reasoning = "empty"
    /\ chunks = 0
    /\ cut = FALSE
    /\ shown = {}
    /\ sent = 0
    /\ result = "empty"
    /\ error = "none"

Response == <<content, reasoning, chunks, cut>>
Tries == <<attempt, format>>

-----------------------------------------------------------------------------
(* One request                                                              *)

\* client.stream("POST", ...).
Send ==
    /\ pc \in {"start", "pause"}
    /\ pc' = "request"
    /\ sent' = sent + 1
    /\ content' = "empty" /\ reasoning' = "empty" /\ chunks' = 0 /\ cut' = FALSE
    /\ UNCHANGED <<kind, Tries, shown, result, error>>

\* Seeded bug: there is one attempt too many.
MayRetryOnceMore == kind \in {"complete", "json"} /\ attempt <= MaxRetries

\* Only complete, and complete_json through it, retry.
MayRetry == kind \in {"complete", "json"} /\ attempt < MaxRetries

Raise(e) == pc' = "raised" /\ error' = e /\ UNCHANGED Tries

\* Rate limits and failures of the service, and timeouts: again after a pause.
Transient(e) ==
    \/ MayRetry /\ pc' = "pause" /\ attempt' = attempt + 1 /\ UNCHANGED <<format, error>>
    \/ ~MayRetry /\ Raise(e)

\* 200 opens the stream; any other status is an error of the AI layer.
Status ==
    /\ pc = "request"
    /\ \/ pc' = "stream" /\ UNCHANGED <<Tries, error>>
       \/ \E e \in {"rate_limited", "unavailable"} : Transient(e)
    /\ UNCHANGED <<kind, Response, shown, sent, result>>

\* complete_json_with_usage sends its requests itself: the exception of httpx is not
\* translated.
HttpxError(e) == IF kind = "json_usage" THEN "raw" ELSE e

\* The connection times out or breaks, before the first chunk or between two.
TimesOut ==
    /\ pc \in {"request", "stream"}
    /\ Transient(HttpxError("timeout"))
    /\ UNCHANGED <<kind, Response, shown, sent, result>>

Breaks ==
    /\ pc \in {"request", "stream"}
    /\ Raise(HttpxError("unavailable"))
    /\ UNCHANGED <<kind, Response, shown, sent, result>>

\* A text grows into prose or into a JSON object.
Grown == {"prose", "object"}

\* A chunk with content, with reasoning (DeepSeek), or with neither.
Chunk ==
    /\ pc = "stream"
    /\ chunks < MaxChunks
    /\ chunks' = chunks + 1
    /\ \/ /\ content' \in Grown
          /\ UNCHANGED reasoning
          /\ shown' = IF kind = "stream" THEN shown \cup {"content"} ELSE shown
       \/ /\ reasoning' \in Grown
          /\ UNCHANGED content
          /\ shown' = IF kind = "stream" THEN shown \cup {"reasoning"} ELSE shown
       \/ UNCHANGED <<content, reasoning, shown>>
    /\ UNCHANGED <<kind, pc, Tries, cut, sent, result, error>>

\* A chunk that is JSON but no object has no get: only JSONDecodeError and KeyError are
\* caught.
MalformedChunk ==
    /\ pc = "stream"
    /\ chunks < MaxChunks
    /\ Raise("malformed")
    /\ UNCHANGED <<kind, Response, shown, sent, result>>

\* [DONE], or the end of the response without it, which is not told apart.
EndOfStream ==
    /\ pc = "stream"
    /\ cut' \in BOOLEAN
    /\ pc' = IF kind = "stream" THEN "returned" ELSE "collected"
    /\ UNCHANGED <<kind, Tries, content, reasoning, chunks, shown, sent, result, error>>

-----------------------------------------------------------------------------
(* The whole text                                                           *)

\* The content, or the reasoning of a model that put everything there; a response
\* without text is a transient failure.
Collect ==
    /\ pc = "collected"
    /\ LET text == IF content # "empty" THEN content ELSE reasoning IN
          IF text = "empty"
          THEN Transient("unavailable") /\ UNCHANGED result
          ELSE pc' = "text" /\ result' = text /\ UNCHANGED <<Tries, error>>
    /\ UNCHANGED <<kind, Response, shown, sent>>

\* complete returns the text.
ReturnText ==
    /\ pc = "text"
    /\ kind \notin Json \/ result = "object"
    /\ pc' = "returned"
    /\ UNCHANGED <<kind, Tries, Response, shown, sent, result, error>>

\* The text is no JSON object: the prompt is made stricter and the attempts of _complete
\* begin anew.
NotJson ==
    /\ pc = "text"
    /\ kind \in Json
    /\ result # "object"
    /\ IF format < MaxJsonRetries
       THEN pc' = "start" /\ format' = format + 1 /\ attempt' = 0 /\ UNCHANGED error
       ELSE Raise("invalid")
    /\ result' = "empty"
    /\ UNCHANGED <<kind, Response, shown, sent>>

-----------------------------------------------------------------------------

Next == \/ Send \/ Status \/ TimesOut \/ Breaks \/ Chunk \/ MalformedChunk
        \/ EndOfStream
        \/ Collect \/ ReturnText \/ NotJson

Spec == Init /\ [][Next]_vars

-----------------------------------------------------------------------------
(* Properties                                                               *)

\* The nested retries send a bounded number of requests.
RequestsBounded ==
    sent <= CASE kind = "json" -> (MaxJsonRetries + 1) * (MaxRetries + 1)
              [] kind = "json_usage" -> MaxJsonRetries + 1
              [] kind = "complete" -> MaxRetries + 1
              [] OTHER -> 1

\* A text that is returned is not blank, and is JSON when JSON was asked for; a stream
\* may end without one.
TextReturned ==
    pc = "returned" /\ kind # "stream" =>
       /\ result # "empty"
       /\ kind \in Json => result = "object"

\* A call fails with an error of the AI layer, which the callers catch.  What httpx raises
\* escapes from complete_json_with_usage only, the call that makes the answers of the
\* personas; a malformed chunk, from every call.
ErrorsTranslated ==
    pc = "raised" => \/ error \in AIErrors \cup {"malformed"}
                     \/ error = "raw" /\ kind = "json_usage"

\* A call sends a bounded number of requests and ends with a text or a known error.
CallHolds == RequestsBounded /\ TextReturned /\ ErrorsTranslated

=============================================================================
