------------------------- MODULE ConversationProofs -------------------------
(***************************************************************************)
(* Proofs about Conversation, for any creates, any finite set of sends and  *)
(* any limit of messages.                                                   *)
(*                                                                          *)
(* That the count is exact is a statement about what each send holds: the   *)
(* count it read, whether a commit has outdated it since, and the lock that *)
(* keeps the other sends from committing while it streams.                  *)
(***************************************************************************)
EXTENDS Conversation, FiniteSetTheorems, TLAPS

\* The row is locked by the one send that streams, or has failed to.
LockInv == \A s \in Sends : send[s].pc \in {"streaming", "failed"} <=> rowLock = s

\* What a send holds was the count when it read it, with its own message added while it
\* streams, and there was room then.  Total bounds it where the count may not: a commit
\* from an outdated copy lets the count fall.
HeldInv ==
    \A s \in Sends :
        /\ send[s].pc = "open" =>
              /\ send[s].count < Limit
              /\ send[s].count <= Total
              /\ ~send[s].outdated => send[s].count = count
        /\ send[s].pc \in {"streaming", "failed"} =>
              /\ send[s].count <= Limit
              /\ send[s].count <= Total + 1
              /\ ~send[s].outdated => send[s].count = count + 1

ThreadInv == TypeOK /\ LockInv /\ HeldInv /\ CountIsExact /\ LimitHolds

Counts == [{"user", "assistant"} -> Nat]

-----------------------------------------------------------------------------
(* What a step does to the sends                                            *)

LEMMA NewSendType == NewSend \in SendState /\ NewSend.pc = "new"
  BY DEF NewSend, SendState, SendPc

LEMMA ThreadInit == ConversationAssumption /\ Init => ThreadInv
  <1> SUFFICES ASSUME ConversationAssumption, Init
               PROVE  ThreadInv
    OBVIOUS
  <1>1. /\ send \in [Sends -> SendState]
        /\ \A s \in Sends : send[s].pc = "new"
    BY NewSendType DEF Init
  <1>2. /\ stored \in Counts
        /\ stored["user"] = 0 /\ stored["assistant"] = 0
    BY DEF Init, Counts
  <1>3. TypeOK
    BY <1>1, <1>2 DEF Init, TypeOK, Counts
  <1>4. LockInv
    BY <1>1 DEF Init, LockInv, ConversationAssumption
  <1>5. HeldInv
    BY <1>1 DEF HeldInv
  <1>6. CountIsExact /\ LimitHolds
    BY <1>2 DEF Init, CountIsExact, LimitHolds, Total, ConversationAssumption
  <1> QED BY <1>3, <1>4, <1>5, <1>6 DEF ThreadInv

\* A step of one send that commits nothing keeps the counts, when the send itself holds
\* what its new place in the code says.
LEMMA QuietSend ==
    ASSUME ConversationAssumption, ThreadInv, NEW s \in Sends, NEW changed \in SendState,
           Keeps(s, changed), UNCHANGED <<Thread, stale>>,
           rowLock' \in Sends \cup {NoSend},
           \A t \in Sends : (IF t = s THEN changed.pc \in {"streaming", "failed"}
                             ELSE send[t].pc \in {"streaming", "failed"}) <=> rowLock' = t,
           changed.pc = "open" =>
              /\ changed.count < Limit /\ changed.count <= Total
              /\ ~changed.outdated => changed.count = count,
           changed.pc \in {"streaming", "failed"} =>
              /\ changed.count <= Limit /\ changed.count <= Total + 1
              /\ ~changed.outdated => changed.count = count + 1
    PROVE  ThreadInv'
  <1>1. /\ send' \in [Sends -> SendState]
        /\ \A t \in Sends : send'[t] = IF t = s THEN changed ELSE send[t]
    BY DEF Keeps, ThreadInv, TypeOK
  <1>2. UNCHANGED <<count, stored, memories, stale, Total>>
    BY DEF Thread, Total
  <1>3. TypeOK'
    BY <1>1, <1>2 DEF ThreadInv, TypeOK, Keeps
  <1>4. LockInv'
    BY <1>1 DEF LockInv
  <1>5. HeldInv'
    BY <1>1, <1>2 DEF HeldInv, ThreadInv
  <1>6. CountIsExact' /\ LimitHolds'
    BY <1>2 DEF CountIsExact, LimitHolds, ThreadInv
  <1> QED BY <1>3, <1>4, <1>5, <1>6 DEF ThreadInv

\* The commit of a send with its n messages of the assistant: the others that hold a count
\* are outdated by it.
LEMMA CommitKeepsThread ==
    ASSUME ConversationAssumption, ThreadInv, NEW s \in Sends, NEW n \in 0..1,
           NEW changed \in SendState, CommitSend(s, n, changed),
           send[s].pc \in {"streaming", "failed"},
           changed.pc \in {"replied", "end"},
           changed.count = send[s].count + n
    PROVE  ThreadInv'
  <1>1. /\ send \in [Sends -> SendState] /\ stored \in Counts /\ count \in Nat
        /\ send[s].count \in Nat /\ Total \in Nat /\ Limit \in Nat
    BY DEF ThreadInv, TypeOK, SendState, Counts, Total, ConversationAssumption
  <1>2. /\ send' \in [Sends -> SendState]
        /\ \A t \in Sends :
              /\ t = s => send'[t] = changed
              /\ t # s => /\ send'[t].pc = send[t].pc
                          /\ send'[t].count = send[t].count
                          /\ send[t].pc = "open" => send'[t].outdated
    <2> DEFINE Other(t) == IF send[t].pc = "open" THEN [send[t] EXCEPT !.outdated = TRUE]
                           ELSE send[t]
    <2>1. ASSUME NEW t \in Sends
          PROVE  /\ Other(t) \in SendState
                 /\ Other(t).pc = send[t].pc /\ Other(t).count = send[t].count
                 /\ send[t].pc = "open" => Other(t).outdated
      BY <1>1 DEF SendState
    <2>2. send' = [t \in Sends |-> IF t = s THEN changed ELSE Other(t)]
      BY DEF CommitSend, Outdate
    <2> HIDE DEF Other
    <2> QED BY <2>1, <2>2
  <1>3. /\ stored' \in Counts
        /\ Total' = Total + 1 + n
    BY <1>1 DEF CommitSend, Counts, Total
  <1>4. /\ count' = send[s].count + n /\ rowLock' = NoSend
        /\ stale' = (stale \/ send[s].outdated)
        /\ UNCHANGED <<provider, row, create, memories>>
    BY DEF CommitSend
  <1>5. \A t \in Sends : t # s => send[t].pc \notin {"streaming", "failed"}
    BY DEF ThreadInv, LockInv
  <1>6. TypeOK'
    <2>1. count' \in Nat /\ stale' \in BOOLEAN
      BY <1>1, <1>4 DEF ThreadInv, TypeOK
    <2> QED BY <1>2, <1>3, <1>4, <2>1 DEF ThreadInv, TypeOK, Counts
  <1>7. LockInv'
    BY <1>2, <1>4, <1>5 DEF LockInv, ConversationAssumption
  <1>8. HeldInv'
    <2> SUFFICES ASSUME NEW t \in Sends, send'[t].pc \in {"open", "streaming", "failed"}
                 PROVE  /\ send'[t].pc = "open" /\ send'[t].outdated
                        /\ send'[t].count < Limit /\ send'[t].count <= Total'
      BY DEF HeldInv
    <2>1. t # s
      BY <1>2
    <2>2. send'[t].pc = "open" /\ send'[t].outdated /\ send'[t].count = send[t].count
      BY <1>2, <1>5, <2>1
    <2>3. /\ send[t].count \in Nat /\ send[t].count < Limit /\ send[t].count <= Total
      BY <1>1, <1>2, <2>1, <2>2 DEF HeldInv, ThreadInv, SendState
    <2> QED BY <1>1, <1>3, <2>2, <2>3
  <1>9. CountIsExact' /\ LimitHolds'
    <2>1. send[s].count <= Limit /\ send[s].count <= Total + 1
      BY DEF ThreadInv, HeldInv
    <2>2. count' <= Total'
      BY <1>1, <1>3, <1>4, <2>1
    <2>3. ASSUME ~stale'
          PROVE  count' = Total' /\ Total' <= Limit + 1
      <3>1. ~stale /\ ~send[s].outdated
        BY <1>4, <2>3
      <3>2. count = Total /\ send[s].count = count + 1
        BY <3>1 DEF ThreadInv, HeldInv, CountIsExact
      <3> QED BY <1>1, <1>3, <1>4, <2>1, <3>2
    <2> QED BY <2>2, <2>3 DEF CountIsExact, LimitHolds
  <1> QED BY <1>6, <1>7, <1>8, <1>9 DEF ThreadInv

-----------------------------------------------------------------------------
(* The invariant, step by step                                              *)

LEMMA SendKeepsThread ==
    ASSUME ConversationAssumption, ThreadInv, NEW s \in Sends, OpenSend(s) \/ SendGoesOn(s)
    PROVE  ThreadInv'
  <1> /\ send[s] \in SendState /\ send[s].count \in Nat /\ count \in Nat
      /\ rowLock \in Sends \cup {NoSend} /\ NoSend \notin Sends
      /\ Limit \in Nat /\ Total \in Nat
    BY DEF ThreadInv, TypeOK, SendState, Total, ConversationAssumption
  <1> \A t \in Sends : send[t].pc \in {"streaming", "failed"} <=> rowLock = t
    BY DEF ThreadInv, LockInv
  <1>1. CASE OpenSend(s)
    <2>1. CASE RoomLeft /\ Keeps(s, [send[s] EXCEPT !.pc = "open", !.count = count])
      <3> DEFINE changed == [send[s] EXCEPT !.pc = "open", !.count = count]
      <3>1. /\ changed \in SendState /\ changed.pc = "open" /\ changed.count = count
            /\ changed.count < Limit /\ changed.count <= Total
        BY <2>1 DEF SendState, SendPc, RoomLeft, ThreadInv, CountIsExact
      <3>2. UNCHANGED <<Thread, stale>> /\ rowLock' = rowLock /\ send[s].pc = "new"
        BY <1>1 DEF OpenSend
      <3> HIDE DEF changed
      <3>3. Keeps(s, changed)
        BY <2>1 DEF changed
      <3> QED BY <3>1, <3>2, <3>3, QuietSend
    <2>2. CASE Keeps(s, [send[s] EXCEPT !.pc = "refused"])
      <3> DEFINE changed == [send[s] EXCEPT !.pc = "refused"]
      <3>1. changed \in SendState /\ changed.pc = "refused"
        BY DEF SendState, SendPc
      <3>2. UNCHANGED <<Thread, stale>> /\ rowLock' = rowLock /\ send[s].pc = "new"
        BY <1>1 DEF OpenSend
      <3> HIDE DEF changed
      <3>3. Keeps(s, changed)
        BY <2>2 DEF changed
      <3> QED BY <3>1, <3>2, <3>3, QuietSend
    <2> QED BY <1>1, <2>1, <2>2 DEF OpenSend
  <1>2. CASE FlushMessage(s)
    <2> DEFINE changed == [send[s] EXCEPT !.pc = "streaming", !.count = @ + 1]
    <2> send[s].count + 1 \in Nat
      OBVIOUS
    <2>1. /\ changed.pc = "streaming" /\ changed.count = send[s].count + 1
          /\ changed.outdated = send[s].outdated
      BY DEF SendState
    <2> changed \in SendState
      BY DEF SendState, SendPc
    <2>2. /\ UNCHANGED <<Thread, stale>> /\ rowLock = NoSend /\ rowLock' = s
          /\ send[s].pc = "open"
      BY <1>2 DEF FlushMessage
    <2> HIDE DEF changed
    <2>3. Keeps(s, changed)
      BY <1>2 DEF FlushMessage, changed
    <2>4. /\ changed.count <= Limit /\ changed.count <= Total + 1
          /\ ~changed.outdated => changed.count = count + 1
      BY <2>1, <2>2 DEF ThreadInv, HeldInv
    <2> QED BY <2>1, <2>2, <2>3, <2>4, QuietSend
  <1>3. CASE Reply(s)
    <2> DEFINE changed == [send[s] EXCEPT !.pc = IF provider = "ark" THEN "replied" ELSE "end",
                                          !.count = @ + 1, !.answered = "reply"]
    <2> send[s].count + 1 \in Nat
      OBVIOUS
    <2>1. changed.pc \in {"replied", "end"} /\ changed.count = send[s].count + 1
      BY DEF SendState
    <2> changed \in SendState
      BY DEF SendState, SendPc
    <2> HIDE DEF changed
    <2>2. CommitSend(s, 1, changed) /\ send[s].pc = "streaming"
      BY <1>3 DEF Reply, changed
    <2> QED BY <2>1, <2>2, CommitKeepsThread
  <1>4. CASE ReplyFails(s)
    <2> DEFINE changed == [send[s] EXCEPT !.pc = "failed", !.answered = "error"]
    <2>1. /\ changed \in SendState /\ changed.pc = "failed"
          /\ changed.count = send[s].count
      BY DEF SendState, SendPc
    <2> changed.outdated = send[s].outdated
      BY DEF SendState
    <2>2. UNCHANGED <<Thread, stale>> /\ rowLock' = rowLock /\ send[s].pc = "streaming"
      BY <1>4 DEF ReplyFails
    <2> HIDE DEF changed
    <2>3. Keeps(s, changed)
      BY <1>4 DEF ReplyFails, changed
    <2>4. /\ changed.count <= Limit /\ changed.count <= Total + 1
          /\ ~changed.outdated => changed.count = count + 1
      BY <2>1, <2>2 DEF ThreadInv, HeldInv
    <2> QED BY <2>1, <2>2, <2>3, <2>4, QuietSend
  <1>5. CASE CommitAfterError(s)
    <2> DEFINE changed == [send[s] EXCEPT !.pc = "end"]
    <2>1. /\ changed \in SendState /\ changed.pc = "end"
          /\ changed.count = send[s].count + 0
      BY DEF SendState, SendPc
    <2> HIDE DEF changed
    <2>2. CommitSend(s, 0, changed) /\ send[s].pc = "failed"
      BY <1>5 DEF CommitAfterError, changed
    <2> QED BY <2>1, <2>2, CommitKeepsThread
  <1>6. CASE Disconnect(s)
    <2> DEFINE changed == [send[s] EXCEPT !.pc = "gone"]
    <2>1. changed \in SendState /\ changed.pc = "gone"
      BY DEF SendState, SendPc
    <2>2. /\ UNCHANGED <<Thread, stale>> /\ rowLock' = NoSend
          /\ send[s].pc \in {"streaming", "failed"}
      BY <1>6 DEF Disconnect
    <2> HIDE DEF changed
    <2>3. Keeps(s, changed)
      BY <1>6 DEF Disconnect, changed
    <2> QED BY <2>1, <2>2, <2>3, QuietSend
  <1>7. CASE Remember(s)
    <2> PICK found \in BOOLEAN : Keeps(s, [send[s] EXCEPT !.pc = "end", !.extracted = found])
      BY <1>7 DEF Remember
    <2> DEFINE changed == [send[s] EXCEPT !.pc = "end", !.extracted = found]
    <2>1. changed \in SendState /\ changed.pc = "end"
      BY DEF SendState, SendPc
    <2>2. UNCHANGED <<Thread, stale>> /\ rowLock' = rowLock /\ send[s].pc = "replied"
      BY <1>7 DEF Remember
    <2> HIDE DEF changed
    <2>3. Keeps(s, changed)
      BY DEF changed
    <2> QED BY <2>1, <2>2, <2>3, QuietSend
  <1> QED BY <1>1, <1>2, <1>3, <1>4, <1>5, <1>6, <1>7 DEF SendGoesOn

\* Creation, deletion and stuttering leave the thread and its sends alone.
LEMMA RowKeepsThread ==
    ASSUME ThreadInv,
           \/ \E c \in Creates : CreateLookup(c) \/ CreateInsert(c)
           \/ DeleteConversation \/ UNCHANGED vars
    PROVE  ThreadInv'
  <1>1. UNCHANGED <<provider, count, stored, memories, send, rowLock, stale>>
    BY DEF CreateLookup, CreateInsert, DeleteConversation, vars, Thread
  <1>2. row' \in {"none", "active", "deleted"}
    BY DEF CreateLookup, CreateInsert, DeleteConversation, vars, ThreadInv, TypeOK
  <1>3. create' \in [Creates -> {"new", "missing", "got", "conflict"}]
    BY DEF CreateLookup, CreateInsert, DeleteConversation, vars, ThreadInv, TypeOK
  <1> QED BY <1>1, <1>2, <1>3 DEF ThreadInv, TypeOK, LockInv, HeldInv, CountIsExact,
                                 LimitHolds, Total

LEMMA ThreadStep == ConversationAssumption /\ ThreadInv /\ [Next]_vars => ThreadInv'
  BY SendKeepsThread, RowKeepsThread DEF Next

\* The message count is exact until overlapping sends write it from outdated copies, and
\* never more than the messages there are (conversation_service.py, send_message).
THEOREM CountStaysExact ==
    ASSUME ConversationAssumption
    PROVE  Spec => []CountIsExact
  <1>1. Init => ThreadInv  BY ThreadInit
  <1>2. ThreadInv /\ [Next]_vars => ThreadInv'  BY ThreadStep
  <1>3. ThreadInv => CountIsExact  BY DEF ThreadInv
  <1> QED BY <1>1, <1>2, <1>3, PTL DEF Spec

\* MESSAGE_LIMIT is passed by one reply at most, unless sends overlapped.
THEOREM LimitAlwaysHolds ==
    ASSUME ConversationAssumption
    PROVE  Spec => []LimitHolds
  <1>1. Init => ThreadInv  BY ThreadInit
  <1>2. ThreadInv /\ [Next]_vars => ThreadInv'  BY ThreadStep
  <1>3. ThreadInv => LimitHolds  BY DEF ThreadInv
  <1> QED BY <1>1, <1>2, <1>3, PTL DEF Spec

-----------------------------------------------------------------------------
(* What the client was told                                                 *)

Ended == {"replied", "end"}

\* A stream that failed has told the client so.
ToldInv == /\ StoredAsTold
           /\ \A s \in Sends : send[s].pc = "failed" => send[s].answered = "error"

\* A step that changes no send's outcome keeps their number.
LEMMA SameOutcomes ==
    ASSUME NEW ss,
           \A t \in Sends : (send'[t].pc \in Ended /\ send'[t].answered \in ss)
                               <=> (send[t].pc \in Ended /\ send[t].answered \in ss)
    PROVE  Outcomes(ss)' = Outcomes(ss)
  <1>1. {t \in Sends : send'[t].pc \in {"replied", "end"} /\ send'[t].answered \in ss}
          = {t \in Sends : send[t].pc \in {"replied", "end"} /\ send[t].answered \in ss}
    BY DEF Ended
  <1> QED BY <1>1 DEF Outcomes

\* A send that ends with one of the outcomes adds one to their number.
LEMMA OneMoreOutcome ==
    ASSUME ConversationAssumption, NEW ss, NEW s \in Sends,
           send[s].pc \notin Ended, send'[s].pc \in Ended, send'[s].answered \in ss,
           \A t \in Sends \ {s} :
              (send'[t].pc \in Ended /\ send'[t].answered \in ss)
                 <=> (send[t].pc \in Ended /\ send[t].answered \in ss)
    PROVE  Outcomes(ss)' = Outcomes(ss) + 1
  <1> DEFINE old == {t \in Sends : send[t].pc \in {"replied", "end"} /\ send[t].answered \in ss}
             new == {t \in Sends : send'[t].pc \in {"replied", "end"} /\ send'[t].answered \in ss}
  <1>1. IsFiniteSet(old)
    BY FS_Subset DEF ConversationAssumption
  <1>2. new = old \cup {s} /\ s \notin old
    BY DEF Ended
  <1>3. Cardinality(new) = Cardinality(old) + 1
    BY <1>1, <1>2, FS_AddElement
  <1> QED BY <1>3 DEF Outcomes

\* A step of one send that commits nothing and changes no outcome of a stream that ended.
LEMMA QuietTold ==
    ASSUME ThreadInv, ToldInv, NEW s \in Sends, NEW changed \in SendState,
           Keeps(s, changed), stored' = stored,
           changed.pc = "failed" => changed.answered = "error",
           changed.answered = "reply" => changed.pc \in Ended,
           \A ss \in {{"reply"}, {"reply", "error"}} :
              (changed.pc \in Ended /\ changed.answered \in ss)
                 <=> (send[s].pc \in Ended /\ send[s].answered \in ss)
    PROVE  ToldInv'
  <1>1. \A t \in Sends : send'[t] = IF t = s THEN changed ELSE send[t]
    BY DEF Keeps, ThreadInv, TypeOK
  <1>2. Outcomes({"reply"})' = Outcomes({"reply"})
    BY <1>1, SameOutcomes
  <1>3. Outcomes({"reply", "error"})' = Outcomes({"reply", "error"})
    BY <1>1, SameOutcomes
  <1>4. StoredAsTold'
    BY <1>1, <1>2, <1>3 DEF ToldInv, StoredAsTold, Ended
  <1> QED BY <1>1, <1>4 DEF ToldInv

\* A commit that tells the client of a reply (n = 1) or of an error (n = 0).
LEMMA CommitTold ==
    ASSUME ConversationAssumption, ThreadInv, ToldInv, NEW s \in Sends, NEW n \in 0..1,
           NEW changed \in SendState, CommitSend(s, n, changed),
           send[s].pc \in {"streaming", "failed"}, changed.pc \in Ended,
           changed.answered = IF n = 1 THEN "reply" ELSE "error"
    PROVE  ToldInv'
  <1> stored \in Counts
    BY DEF ThreadInv, TypeOK, Counts
  <1>1. /\ send'[s] = changed
        /\ \A t \in Sends \ {s} : send'[t].pc = send[t].pc /\ send'[t].answered = send[t].answered
    BY DEF CommitSend, Outdate, ThreadInv, TypeOK, SendState
  <1>2. /\ stored'["user"] = stored["user"] + 1
        /\ stored'["assistant"] = stored["assistant"] + n
    BY DEF CommitSend, Counts
  <1>3. Outcomes({"reply", "error"})' = Outcomes({"reply", "error"}) + 1
    BY <1>1, OneMoreOutcome DEF Ended
  <1>6. \A t \in Sends : send'[t].answered = "reply" => send'[t].pc \in {"replied", "end"}
    BY <1>1 DEF ToldInv, StoredAsTold, Ended
  <1>4. CASE n = 1
    <2>1. Outcomes({"reply"})' = Outcomes({"reply"}) + 1
      BY <1>1, <1>4, OneMoreOutcome DEF Ended
    <2>2. StoredAsTold'
      BY <1>2, <1>3, <1>4, <1>6, <2>1 DEF ToldInv, StoredAsTold
    <2> QED BY <1>1, <2>2 DEF ToldInv, Ended
  <1>5. CASE n = 0
    <2>1. Outcomes({"reply"})' = Outcomes({"reply"})
      BY <1>1, <1>5, SameOutcomes DEF Ended
    <2>2. StoredAsTold'
      BY <1>2, <1>3, <1>5, <1>6, <2>1 DEF ToldInv, StoredAsTold, Counts
    <2> QED BY <1>1, <2>2 DEF ToldInv, Ended
  <1> QED BY <1>4, <1>5

LEMMA SendTold ==
    ASSUME ConversationAssumption, ThreadInv, ToldInv, NEW s \in Sends,
           OpenSend(s) \/ SendGoesOn(s)
    PROVE  ToldInv'
  <1> send[s] \in SendState
    BY DEF ThreadInv, TypeOK
  <1> send[s].count \in Nat /\ send[s].count + 1 \in Nat /\ count \in Nat
    BY DEF ThreadInv, TypeOK, SendState
  <1>1. CASE OpenSend(s)
    <2>1. PICK pc \in {"open", "refused"}, n \in Nat :
             Keeps(s, [send[s] EXCEPT !.pc = pc, !.count = n])
      <3>1. CASE Keeps(s, [send[s] EXCEPT !.pc = "open", !.count = count])
        BY <3>1
      <3>2. CASE Keeps(s, [send[s] EXCEPT !.pc = "refused"])
        <4>1. [send[s] EXCEPT !.pc = "refused"]
                = [send[s] EXCEPT !.pc = "refused", !.count = send[s].count]
          BY DEF SendState
        <4> QED BY <3>2, <4>1
      <3> QED BY <1>1, <3>1, <3>2 DEF OpenSend
    <2> DEFINE changed == [send[s] EXCEPT !.pc = pc, !.count = n]
    <2>3. stored' = stored /\ send[s].pc = "new"
      BY <1>1 DEF OpenSend, Thread
    <2>2. changed \in SendState /\ changed.pc = pc /\ changed.answered # "reply"
      BY <2>3 DEF SendState, SendPc, ToldInv, StoredAsTold
    <2> HIDE DEF changed
    <2>4. Keeps(s, changed)
      BY <2>1 DEF changed
    <2> QED BY <2>2, <2>3, <2>4, QuietTold DEF Ended
  <1>2. CASE FlushMessage(s)
    <2> DEFINE changed == [send[s] EXCEPT !.pc = "streaming", !.count = @ + 1]
    <2>2. stored' = stored /\ send[s].pc = "open"
      BY <1>2 DEF FlushMessage, Thread
    <2>1. changed \in SendState /\ changed.pc = "streaming" /\ changed.answered # "reply"
      BY <2>2 DEF SendState, SendPc, ToldInv, StoredAsTold
    <2> HIDE DEF changed
    <2>3. Keeps(s, changed)
      BY <1>2 DEF FlushMessage, changed
    <2> QED BY <2>1, <2>2, <2>3, QuietTold DEF Ended
  <1>3. CASE Reply(s)
    <2> DEFINE changed == [send[s] EXCEPT !.pc = IF provider = "ark" THEN "replied" ELSE "end",
                                          !.count = @ + 1, !.answered = "reply"]
    <2>1. changed.pc \in Ended /\ changed.answered = "reply"
      BY DEF SendState, Ended
    <2>2. changed \in SendState
      BY DEF SendState, SendPc
    <2> HIDE DEF changed
    <2>3. CommitSend(s, 1, changed) /\ send[s].pc = "streaming"
      BY <1>3 DEF Reply, changed
    <2> QED BY <2>1, <2>2, <2>3, CommitTold
  <1>4. CASE ReplyFails(s)
    <2> DEFINE changed == [send[s] EXCEPT !.pc = "failed", !.answered = "error"]
    <2>1. changed \in SendState /\ changed.pc = "failed" /\ changed.answered = "error"
      BY DEF SendState, SendPc
    <2>2. stored' = stored /\ send[s].pc = "streaming"
      BY <1>4 DEF ReplyFails, Thread
    <2> HIDE DEF changed
    <2>3. Keeps(s, changed)
      BY <1>4 DEF ReplyFails, changed
    <2> QED BY <2>1, <2>2, <2>3, QuietTold DEF Ended
  <1>5. CASE CommitAfterError(s)
    <2> DEFINE changed == [send[s] EXCEPT !.pc = "end"]
    <2>1. changed \in SendState /\ changed.pc = "end" /\ changed.answered = send[s].answered
      BY DEF SendState, SendPc
    <2> HIDE DEF changed
    <2>2. CommitSend(s, 0, changed) /\ send[s].pc = "failed"
      BY <1>5 DEF CommitAfterError, changed
    <2>3. changed.answered = "error"
      BY <2>1, <2>2 DEF ToldInv
    <2> QED BY <2>1, <2>2, <2>3, CommitTold DEF Ended
  <1>6. CASE Disconnect(s)
    <2> DEFINE changed == [send[s] EXCEPT !.pc = "gone"]
    <2>2. stored' = stored /\ send[s].pc \in {"streaming", "failed"}
      BY <1>6 DEF Disconnect, Thread
    <2>1. changed \in SendState /\ changed.pc = "gone" /\ changed.answered # "reply"
      BY <2>2 DEF SendState, SendPc, ToldInv, StoredAsTold
    <2> HIDE DEF changed
    <2>3. Keeps(s, changed)
      BY <1>6 DEF Disconnect, changed
    <2> QED BY <2>1, <2>2, <2>3, QuietTold DEF Ended
  <1>7. CASE Remember(s)
    <2> PICK found \in BOOLEAN : Keeps(s, [send[s] EXCEPT !.pc = "end", !.extracted = found])
      BY <1>7 DEF Remember
    <2> DEFINE changed == [send[s] EXCEPT !.pc = "end", !.extracted = found]
    <2>1. changed \in SendState /\ changed.pc = "end" /\ changed.answered = send[s].answered
      BY DEF SendState, SendPc
    <2>2. stored' = stored /\ send[s].pc = "replied"
      BY <1>7 DEF Remember, Thread
    <2> HIDE DEF changed
    <2>3. Keeps(s, changed)
      BY DEF changed
    <2> QED BY <2>1, <2>2, <2>3, QuietTold DEF Ended
  <1> QED BY <1>1, <1>2, <1>3, <1>4, <1>5, <1>6, <1>7 DEF SendGoesOn

LEMMA RowTold ==
    ASSUME ToldInv,
           \/ \E c \in Creates : CreateLookup(c) \/ CreateInsert(c)
           \/ DeleteConversation \/ UNCHANGED vars
    PROVE  ToldInv'
  <1>1. UNCHANGED <<stored, send>>
    BY DEF CreateLookup, CreateInsert, DeleteConversation, vars, Thread
  <1> QED BY <1>1 DEF ToldInv, StoredAsTold, Outcomes

LEMMA ToldInit == ConversationAssumption /\ Init => ToldInv
  <1> SUFFICES ASSUME ConversationAssumption, Init
               PROVE  ToldInv
    OBVIOUS
  <1>1. \A s \in Sends : send[s].pc = "new" /\ send[s].answered = "nothing"
    BY DEF Init, NewSend
  <1>2. ASSUME NEW ss PROVE Outcomes(ss) = 0
    <2>1. {s \in Sends : send[s].pc \in {"replied", "end"} /\ send[s].answered \in ss} = {}
      BY <1>1
    <2> QED BY <2>1, FS_EmptySet DEF Outcomes
  <1>3. stored["user"] = 0 /\ stored["assistant"] = 0
    BY DEF Init
  <1> QED BY <1>1, <1>2, <1>3 DEF ToldInv, StoredAsTold

\* What is stored is what the clients that stayed were told, whatever fails; of a stream
\* that is cut nothing is stored, and no client was told of a reply then.
THEOREM AlwaysStoredAsTold ==
    ASSUME ConversationAssumption
    PROVE  Spec => []StoredAsTold
  <1>1. Init => ThreadInv /\ ToldInv
    BY ThreadInit, ToldInit
  <1>2. ThreadInv /\ ToldInv /\ [Next]_vars => (ThreadInv /\ ToldInv)'
    BY ThreadStep, SendTold, RowTold DEF Next
  <1>3. ToldInv => StoredAsTold
    BY DEF ToldInv
  <1> QED BY <1>1, <1>2, <1>3, PTL DEF Spec
=============================================================================
