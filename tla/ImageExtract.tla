---------------------------- MODULE ImageExtract ----------------------------
(***************************************************************************)
(* Product fields extracted from images: requests look into a cache of the  *)
(* process, and on a miss call the vision provider, under a guard that      *)
(* bounds the calls under way and the calls that wait.  In the mode         *)
(* "vision" one call answers for all images and is tried again; in          *)
(* "vision_text" the text of an image is read and structured by the text    *)
(* provider, and a second image is read when the first was not enough.      *)
(*                                                                          *)
(* The requests are those of POST /products/extract-from-images and of      *)
(* POST /products, which goes on without the fields when it fails.          *)
(***************************************************************************)
EXTENDS Integers, Sequences, FiniteSets, Folding

CONSTANTS
    Requests,       \* requests under way at once
    Images,         \* the contents of first images; the others are not part of a cache key
    MaxConcurrency, \* VISION_MAX_CONCURRENCY
    MaxQueue,       \* VISION_MAX_QUEUE
    MaxAttempts,    \* VISION_MAX_RETRIES + 1
    CacheSize       \* _CACHE_MAX_SIZE

ExtractAssumption == /\ IsFiniteSet(Requests) /\ Images # {}
                     /\ MaxConcurrency \in Nat /\ MaxQueue \in Nat
                     /\ MaxAttempts \in Nat \ {0} /\ CacheSize \in Nat \ {0}

VARIABLES
    mode,      \* settings.image_extract_mode
    inflight,  \* _vision_inflight
    permits,   \* _vision_semaphore: free permits
    cache,     \* _extract_cache: the images it holds, oldest first
    request    \* where each request is and what it has done

vars == <<mode, inflight, permits, cache, request>>

Idle == [pc |-> "idle", image |-> CHOOSE i \in Images : TRUE, more |-> FALSE,
         calls |-> 0, texts |-> 0]

\* calls: guarded calls so far; texts: calls of the text provider.
RequestState ==
    [pc : {"idle", "lookup", "enter", "waiting", "calling", "structure"},
     image : Images, more : BOOLEAN, calls : Nat, texts : 0..1]

\* The type invariant.
TypeOK ==
    /\ mode \in {"vision", "vision_text"}
    /\ inflight \in 0..MaxConcurrency + MaxQueue
    /\ permits \in 0..MaxConcurrency
    /\ \E n \in 0..CacheSize : cache \in [1..n -> Images]
    /\ request \in [Requests -> RequestState]

Init ==
    /\ mode \in {"vision", "vision_text"}
    /\ inflight = 0
    /\ permits = MaxConcurrency
    /\ cache = <<>>
    /\ request = [r \in Requests |-> Idle]

Guard == <<inflight, permits>>
At(r, pc) == request[r].pc = pc
Move(r, s) == request' = [request EXCEPT ![r] = s] /\ UNCHANGED mode
Goes(r, pc) == Move(r, [request[r] EXCEPT !.pc = pc])

-----------------------------------------------------------------------------
(* The cache                                                                *)

\* A request: "more" when it has further images.
Arrive(r, image, more) ==
    /\ At(r, "idle")
    /\ Move(r, [Idle EXCEPT !.pc = "lookup", !.image = image, !.more = more])
    /\ UNCHANGED <<Guard, cache>>

Cached == {cache[n] : n \in DOMAIN cache}
Without(image) == Only(cache, Images \ {image})

End(r) == Move(r, Idle)

CacheHit(r) ==
    /\ At(r, "lookup")
    /\ request[r].image \in Cached
    /\ End(r)
    /\ UNCHANGED <<Guard, cache>>

\* Not cached; an entry that is too old is removed.
CacheMiss(r) ==
    /\ At(r, "lookup")
    /\ cache' = Without(request[r].image)
    /\ Goes(r, "enter")
    /\ UNCHANGED Guard

\* The oldest entry makes room, also for an image that is there already.
CachePut(image) ==
    LET room == IF Len(cache) >= CacheSize THEN Tail(cache) ELSE cache
    IN  cache' = Append(Only(room, Images \ {image}), image)

-----------------------------------------------------------------------------
(* The guard of a call                                                      *)

\* VISION_BUSY, which is never tried again.
Busy(r) ==
    /\ At(r, "enter")
    /\ inflight >= MaxConcurrency + MaxQueue
    /\ End(r)
    /\ UNCHANGED <<Guard, cache>>

Enter(r) ==
    /\ At(r, "enter")
    /\ inflight < MaxConcurrency + MaxQueue
    /\ inflight' = inflight + 1
    /\ Goes(r, "waiting")
    /\ UNCHANGED <<permits, cache>>

Acquire(r) ==
    /\ At(r, "waiting")
    /\ permits > 0
    /\ permits' = permits - 1
    /\ Move(r, [request[r] EXCEPT !.pc = "calling", !.calls = @ + 1])
    /\ UNCHANGED <<inflight, cache>>

\* Seeded bug: only a call that was made is counted out.
CancelKeepsPlace(r) ==
    /\ \/ /\ At(r, "waiting")
          /\ UNCHANGED Guard
       \/ /\ At(r, "calling")
          /\ inflight' = inflight - 1 /\ permits' = permits + 1
    /\ End(r)
    /\ UNCHANGED cache

\* The request is cancelled at one of the guard's awaits.
Cancel(r) ==
    /\ \/ /\ At(r, "waiting")
          /\ inflight' = inflight - 1 /\ UNCHANGED permits
       \/ /\ At(r, "calling")
          /\ inflight' = inflight - 1 /\ permits' = permits + 1
    /\ End(r)
    /\ UNCHANGED cache

Leave == inflight' = inflight - 1 /\ permits' = permits + 1

-----------------------------------------------------------------------------
(* What the provider answers                                                *)

AttemptLeft(r) == request[r].calls < MaxAttempts

\* Fields with the name of the product, or without it in the last attempt.
Fields(r) ==
    /\ At(r, "calling") /\ mode = "vision"
    /\ Leave
    /\ CachePut(request[r].image)
    /\ End(r)

\* No name, a failure or a timeout: the call is made again, through the guard.
TryAgain(r) ==
    /\ At(r, "calling") /\ mode = "vision"
    /\ AttemptLeft(r)
    /\ Leave
    /\ Goes(r, "enter")
    /\ UNCHANGED cache

\* The last attempt failed, the provider limits the rate (which is not tried again), or
\* the text of an image could not be read.
CallFails(r) ==
    /\ At(r, "calling")
    /\ Leave
    /\ End(r)
    /\ UNCHANGED cache

\* vision_text: the text of the first image, too short without the second, or the text of
\* both.
TextRead(r) ==
    /\ At(r, "calling") /\ mode = "vision_text"
    /\ Leave
    /\ \/ Goes(r, "structure")
       \/ /\ request[r].calls = 1 /\ request[r].more
          /\ Goes(r, "enter")
    /\ UNCHANGED cache

\* The text provider: neither name nor brand sends a request with a second image back to
\* it, once.  Without any text nothing is asked.
Structured(r) ==
    /\ At(r, "structure")
    /\ \/ /\ CachePut(request[r].image) /\ End(r)
       \/ /\ request[r].more /\ request[r].texts = 0
          /\ Move(r, [request[r] EXCEPT !.pc = "enter", !.texts = 1])
          /\ UNCHANGED cache
       \/ End(r) /\ UNCHANGED cache
    /\ UNCHANGED Guard

-----------------------------------------------------------------------------

Step(r) == \/ CacheHit(r) \/ CacheMiss(r) \/ Busy(r) \/ Enter(r) \/ Acquire(r)
           \/ Fields(r) \/ TryAgain(r) \/ CallFails(r) \/ TextRead(r) \/ Structured(r)

Next == \E r \in Requests :
            \/ \E image \in Images, more \in BOOLEAN :
                   Arrive(r, image, more)
            \/ Cancel(r)
            \/ Step(r)

Spec == Init /\ [][Next]_vars

-----------------------------------------------------------------------------
(* Properties                                                               *)

In(pcs) == Cardinality({r \in Requests : request[r].pc \in pcs})

\* The counter and the semaphore are what is under way, whatever was cancelled or failed:
\* a place that leaks would keep the service busy for ever.
PlacesAccounted == /\ inflight = In({"waiting", "calling"})
                   /\ MaxConcurrency - permits = In({"calling"})

\* A request makes no more calls than its attempts, and no more than three for two images.
CallsBounded == \A r \in Requests :
                    request[r].calls <= IF mode = "vision" THEN MaxAttempts ELSE 3

=============================================================================
