---------------------------- MODULE Conversation ----------------------------
(***************************************************************************)
(* The conversation of one user with one persona about one evaluation:      *)
(* creation, the messages sent to it with their streamed replies, the       *)
(* memories extracted from a turn, deletion.                                *)
(*                                                                          *)
(* send_message reads the row, flushes the user's message and the new       *)
(* count, and keeps that transaction, with the lock of the conversations    *)
(* row, open through the whole stream of the reply.  A send that waits for  *)
(* the lock holds the count it read before.                                 *)
(***************************************************************************)
EXTENDS Integers, FiniteSets

CONSTANTS
    Creates,   \* POST /conversations requests
    Sends,     \* POST /messages requests, numbered in the order they begin
    NoSend,    \* no send holds the row
    Limit      \* MESSAGE_LIMIT

ConversationAssumption == /\ Limit \in Nat /\ Sends \subseteq Nat /\ NoSend \notin Sends
                          /\ IsFiniteSet(Sends)

VARIABLES
    provider,  \* settings.ai_provider: "ark" streams, "mock" makes the reply up
    row,       \* the conversations row: "none", "active" or "deleted"
    count,     \* its message_count
    stored,    \* committed conversation_messages by role
    memories,  \* committed turns in persona_memories
    create,    \* where each create request is
    send,      \* where each send is and what it holds
    rowLock,   \* the send whose transaction has written the row
    stale      \* ghost: a count was written over one the writer had not seen

vars == <<provider, row, count, stored, memories, create, send, rowLock, stale>>

SendPc == {"new", "open", "streaming", "failed", "replied", "end", "gone", "refused"}

\* answered: what the client was told of the reply, which nothing takes back.
SendState == [pc : SendPc, count : Nat, outdated : BOOLEAN, extracted : BOOLEAN,
              answered : {"nothing", "reply", "error"}]

NewSend == [pc |-> "new", count |-> 0, outdated |-> FALSE, extracted |-> FALSE,
            answered |-> "nothing"]

\* The type invariant.
TypeOK ==
    /\ provider \in {"ark", "mock"}
    /\ row \in {"none", "active", "deleted"}
    /\ count \in Nat
    /\ stored \in [{"user", "assistant"} -> Nat]
    /\ memories \in SUBSET Sends
    /\ create \in [Creates -> {"new", "missing", "got", "conflict"}]
    /\ send \in [Sends -> SendState]
    /\ rowLock \in Sends \cup {NoSend}
    /\ stale \in BOOLEAN

Init ==
    /\ provider \in {"ark", "mock"}
    /\ row = "none"
    /\ count = 0
    /\ stored = [role \in {"user", "assistant"} |-> 0]
    /\ memories = {}
    /\ create = [c \in Creates |-> "new"]
    /\ send = [s \in Sends |-> NewSend]
    /\ rowLock = NoSend
    /\ stale = FALSE

Thread == <<count, stored, memories>>

-----------------------------------------------------------------------------
(* Creation and deletion                                                    *)

\* create_or_get looks for an active conversation of the triple.
CreateLookup(c) ==
    /\ create[c] = "new"
    /\ create' = [create EXCEPT ![c] = IF row = "active" THEN "got" ELSE "missing"]
    /\ UNCHANGED <<provider, row, Thread, send, rowLock, stale>>

\* The INSERT: uq_conversations_user_eval_persona also counts a deleted row, and one
\* that another request has created since.
CreateInsert(c) ==
    /\ create[c] = "missing"
    /\ create' = [create EXCEPT ![c] = IF row = "none" THEN "got" ELSE "conflict"]
    /\ row' = IF row = "none" THEN "active" ELSE row
    /\ UNCHANGED <<provider, Thread, send, rowLock, stale>>

\* delete_conversation waits for a stream that holds the row.
DeleteConversation ==
    /\ row = "active"
    /\ rowLock = NoSend
    /\ row' = "deleted"
    /\ UNCHANGED <<provider, Thread, create, send, rowLock, stale>>

-----------------------------------------------------------------------------
(* Sending a message                                                        *)

Keeps(s, changed) == /\ send' = [send EXCEPT ![s] = changed]
                     /\ UNCHANGED <<provider, row, create>>

RoomLeft == count < Limit

\* _get_owned, the limit, the length and the moderation of the input.
OpenSend(s) ==
    /\ send[s].pc = "new"
    /\ \A t \in Sends : t < s => send[t].pc # "new"
    /\ row = "active"
    /\ \/ RoomLeft /\ Keeps(s, [send[s] EXCEPT !.pc = "open", !.count = count])
       \/ Keeps(s, [send[s] EXCEPT !.pc = "refused"])
    /\ UNCHANGED <<Thread, rowLock, stale>>

\* The user's message and message_count + 1 are flushed: the row is locked.
FlushMessage(s) ==
    /\ send[s].pc = "open"
    /\ rowLock = NoSend
    /\ rowLock' = s
    /\ Keeps(s, [send[s] EXCEPT !.pc = "streaming", !.count = @ + 1])
    /\ UNCHANGED <<Thread, stale>>

\* The other sends that hold a count from before this commit.
Outdate(s, changed) ==
    send' = [t \in Sends |->
                IF t = s THEN changed
                ELSE IF send[t].pc = "open" THEN [send[t] EXCEPT !.outdated = TRUE]
                ELSE send[t]]

\* The commit of a send with n messages of the assistant.
CommitSend(s, n, changed) ==
    /\ count' = changed.count
    /\ stored' = [stored EXCEPT !["user"] = @ + 1, !["assistant"] = @ + n]
    /\ stale' = (stale \/ send[s].outdated)
    /\ rowLock' = NoSend
    /\ Outdate(s, changed)
    /\ UNCHANGED <<provider, row, create, memories>>

\* The whole reply has been streamed and has passed moderation; the mock reply is
\* stored first and streamed then.
Reply(s) ==
    /\ send[s].pc = "streaming"
    /\ CommitSend(s, 1, [send[s] EXCEPT !.pc = IF provider = "ark" THEN "replied" ELSE "end",
                                        !.count = @ + 1, !.answered = "reply"])

\* The provider or the moderation fails: the error is streamed first ...
ReplyFails(s) ==
    /\ send[s].pc = "streaming"
    /\ provider = "ark"
    /\ Keeps(s, [send[s] EXCEPT !.pc = "failed", !.answered = "error"])
    /\ UNCHANGED <<Thread, rowLock, stale>>

\* Seeded bugs: the transaction of a stream that failed is rolled back; or left open.
RollBackAfterError(s) ==
    /\ send[s].pc = "failed"
    /\ rowLock' = NoSend
    /\ Keeps(s, [send[s] EXCEPT !.pc = "end"])
    /\ UNCHANGED <<Thread, stale>>
ForgetAfterError(s) ==
    /\ send[s].pc = "failed"
    /\ Keeps(s, [send[s] EXCEPT !.pc = "end"])
    /\ UNCHANGED <<Thread, rowLock, stale>>

\* ... and then the user's message is committed alone.
CommitAfterError(s) ==
    /\ send[s].pc = "failed"
    /\ CommitSend(s, 0, [send[s] EXCEPT !.pc = "end"])

\* The client goes away at a yield of the stream, the one of an error included, or the
\* commit after the error fails: the session rolls back, what was told stays told.
Disconnect(s) ==
    /\ send[s].pc \in {"streaming", "failed"}
    /\ provider = "ark"
    /\ rowLock' = NoSend
    /\ Keeps(s, [send[s] EXCEPT !.pc = "gone"])
    /\ UNCHANGED <<Thread, stale>>

\* add_chat_turn after the commit: memories are flushed to a transaction that nothing
\* commits, or none is extracted.  The stream ends, the session closes.
Remember(s) ==
    /\ send[s].pc = "replied"
    /\ \E found \in BOOLEAN : Keeps(s, [send[s] EXCEPT !.pc = "end", !.extracted = found])
    /\ UNCHANGED <<Thread, rowLock, stale>>

-----------------------------------------------------------------------------

SendGoesOn(s) == \/ FlushMessage(s) \/ Reply(s) \/ ReplyFails(s) \/ CommitAfterError(s)
                 \/ Disconnect(s) \/ Remember(s)

Next == \/ \E c \in Creates : CreateLookup(c) \/ CreateInsert(c)
        \/ DeleteConversation
        \/ \E s \in Sends : OpenSend(s) \/ SendGoesOn(s)

Spec == Init /\ [][Next]_vars

\* A send that has begun goes on: the provider answers or times out.
FairSpec == Spec /\ \A s \in Sends : WF_vars(SendGoesOn(s))

-----------------------------------------------------------------------------
(* Properties                                                               *)

Total == stored["user"] + stored["assistant"]

\* message_count, which the limit is checked on, is the number of messages as long as
\* no overlapping send wrote it from an outdated copy, and it is never more.
CountIsExact == count <= Total /\ (~stale => count = Total)

\* MESSAGE_LIMIT is passed by one reply at most, unless sends overlapped.
LimitHolds == ~stale => Total <= Limit + 1

\* The sends that came to the end of their stream with one of the outcomes.
Outcomes(ss) == Cardinality({s \in Sends : send[s].pc \in {"replied", "end"}
                                           /\ send[s].answered \in ss})

\* What is stored is what the clients that stayed were told: a reply with its question, a
\* question whose reply failed.  Of a stream that was cut nothing is stored, which parts
\* what is told and what is stored in one case: a client told of an error whose question
\* is rolled back.  A client told of a reply always finds it.
StoredAsTold == /\ stored["user"] = Outcomes({"reply", "error"})
                /\ stored["assistant"] = Outcomes({"reply"})
                /\ \A s \in Sends : send[s].answered = "reply" => send[s].pc \in {"replied", "end"}

\* Sends wait for one lock only, which every end of a stream gives back.
SendsEnd == \A s \in Sends : send[s].pc = "open" ~> send[s].pc \in {"end", "gone"}

\* persona_memories: "Stores extracted persona memories for cross-conversation recall."
TurnRemembered == \A s \in Sends : send[s].pc = "end" /\ send[s].extracted => s \in memories

=============================================================================
