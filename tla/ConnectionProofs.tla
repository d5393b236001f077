-------------------------- MODULE ConnectionProofs --------------------------
(* Proofs about the broker connection, for any number of requests.         *)
EXTENDS Connection, SequenceTheorems, TLAPS

LEMMA NobodyIsNoRequest == Nobody \notin Requests
  BY ConnectionAssumption DEF Nobody, Requests

LEMMA InitHolds == Init => ConnInv
  <1> SUFFICES ASSUME Init PROVE ConnInv OBVIOUS
  <1>1. TypeOK
    <2>1. DOMAIN inFlight = {} BY DEF Init
    <2>2. answers \in Seq([corr : Nat, says : {"ok", "bad"}])
      BY DEF Init
    <2>3. hand \in Responses /\ reader # "replying"
      BY DEF Init, NoResponse, Responses
    <2>4. \A r \in Requests : writer = r <=> stage[r] \in {"writing", "partial"}
      BY NobodyIsNoRequest DEF Init
    <2>5. /\ stage \in [Requests -> {"new", "open", "queued", "writing",
                 "partial", "waiting", "expired", "ok", "failed"}]
          /\ corr \in [Requests -> Nat]
          /\ reply \in [Requests -> {"none", "ok", "bad", "closed"}]
      BY DEF Init
    <2>6. DOMAIN inFlight \subseteq 1 .. next - 1 /\ next \in Nat \ {0}
      BY <2>1 DEF Init
    <2>7. \A c \in DOMAIN inFlight : inFlight[c] \in Requests
      BY <2>1
    <2>8. /\ closed \in BOOLEAN /\ handles \in BOOLEAN /\ hungUp \in BOOLEAN
          /\ writer \in Requests \cup {Nobody}
          /\ reader \in {"reading", "replying", "ended"}
          /\ stream \in {"clean", "torn", "overrun"}
          /\ asked \subseteq Requests /\ abandoned \subseteq Requests
          /\ served \subseteq Requests
      BY DEF Init
    <2> QED BY <2>2, <2>3, <2>4, <2>5, <2>6, <2>7, <2>8 DEF TypeOK
  <1>2. NoEntryLeftBehind /\ OwnAnswer
    BY DEF Init, NoEntryLeftBehind, OwnAnswer
  <1>3. IdInv /\ BrokerInv /\ ReplyInv
    BY NobodyIsNoRequest
    DEF Init, IdInv, BrokerInv, ReplyInv, NoResponse, Awaiting
  <1>4. AnswerInv /\ TearInv /\ CalmInv
    BY DEF Init, AnswerInv, TearInv, CalmInv, NoResponse
  <1> QED BY <1>1, <1>2, <1>3, <1>4 DEF ConnInv

-----------------------------------------------------------------------------
(* A request's own steps.                                                  *)

LEMMA BeginKeeps ==
  ASSUME ConnInv, NEW r \in Requests, Begin(r) PROVE ConnInv'
  BY NobodyIsNoRequest
  DEF ConnInv, TypeOK, NoEntryLeftBehind, OwnAnswer, IdInv, BrokerInv, ReplyInv,
      AnswerInv, TearInv, CalmInv, Awaiting, Early, Begin, First, shared,
      socket, task, history

LEMMA RegisterKeeps ==
  ASSUME ConnInv, NEW r \in Requests, Register(r) PROVE ConnInv'
  BY NobodyIsNoRequest
  DEF ConnInv, TypeOK, NoEntryLeftBehind, OwnAnswer, IdInv, BrokerInv, ReplyInv,
      AnswerInv, TearInv, CalmInv, Awaiting, Early, Register, First, shared,
      socket, task, history

LEMMA LockWriterKeeps ==
  ASSUME ConnInv, NEW r \in Requests, LockWriter(r) PROVE ConnInv'
  BY NobodyIsNoRequest
  DEF ConnInv, TypeOK, NoEntryLeftBehind, OwnAnswer, IdInv, BrokerInv, ReplyInv,
      AnswerInv, TearInv, CalmInv, Awaiting, Early, LockWriter, shared, socket,
      task, history

LEMMA WriteSomeKeeps ==
  ASSUME ConnInv, NEW r \in Requests, WriteSome(r) PROVE ConnInv'
  BY NobodyIsNoRequest
  DEF ConnInv, TypeOK, NoEntryLeftBehind, OwnAnswer, IdInv, BrokerInv, ReplyInv,
      AnswerInv, TearInv, CalmInv, Awaiting, Early, WriteSome, Spoils, shared,
      task, history

LEMMA WriteDoneKeeps ==
  ASSUME ConnInv, NEW r \in Requests, WriteDone(r) PROVE ConnInv'
  BY NobodyIsNoRequest
  DEF ConnInv, TypeOK, NoEntryLeftBehind, OwnAnswer, IdInv, BrokerInv, ReplyInv,
      AnswerInv, TearInv, CalmInv, Awaiting, Early, WriteDone, Spoils, shared,
      task, history

LEMMA WriteFailsKeeps ==
  ASSUME ConnInv, NEW r \in Requests, WriteFails(r) PROVE ConnInv'
  BY NobodyIsNoRequest
  DEF ConnInv, TypeOK, NoEntryLeftBehind, OwnAnswer, IdInv, BrokerInv, ReplyInv,
      AnswerInv, TearInv, CalmInv, Awaiting, Early, WriteFails, Without, socket,
      task, history

LEMMA ReturnKeeps ==
  ASSUME ConnInv, NEW r \in Requests, Return(r) PROVE ConnInv'
  BY NobodyIsNoRequest
  DEF ConnInv, TypeOK, NoEntryLeftBehind, OwnAnswer, IdInv, BrokerInv, ReplyInv,
      AnswerInv, TearInv, CalmInv, Awaiting, Early, Return, shared, socket,
      task, history

LEMMA ExpireKeeps ==
  ASSUME ConnInv, NEW r \in Requests, Expire(r) PROVE ConnInv'
  BY NobodyIsNoRequest
  DEF ConnInv, TypeOK, NoEntryLeftBehind, OwnAnswer, IdInv, BrokerInv, ReplyInv,
      AnswerInv, TearInv, CalmInv, Awaiting, Early, Expire, FailAll, Without,
      Registered, socket, task, history

\* What the guards do when a future is dropped keeps the invariant, wherever
\* the request was.
LEMMA DropFutureKeeps ==
  ASSUME ConnInv, NEW r \in Requests, NEW end \in {"failed", "expired"},
         Awaiting(r), DropFuture(r), stage' = [stage EXCEPT ![r] = end]
  PROVE  ConnInv'
  <1>1. CASE stage[r] \in {"writing", "partial"}
    <2>1. /\ FailAll /\ writer' = Nobody /\ abandoned' = abandoned \cup {r}
          /\ stream' = IF stage[r] = "partial" /\ ~Spoils THEN "torn" ELSE stream
          /\ UNCHANGED <<next, handles, task, corr, asked, answers, hungUp, served>>
      BY <1>1 DEF DropFuture
    <2>2. TypeOK'
      BY <1>1, <2>1, NobodyIsNoRequest
      DEF ConnInv, TypeOK, FailAll, Without, task, Spoils
    <2>3. NoEntryLeftBehind' /\ ReplyInv' /\ CalmInv'
      BY <2>1 DEF ConnInv, NoEntryLeftBehind, ReplyInv, CalmInv, FailAll, Without,
                  Registered, IdInv, TypeOK, task
    <2>4. OwnAnswer' /\ AnswerInv'
      BY <2>1 DEF ConnInv, OwnAnswer, AnswerInv, FailAll, TypeOK, task, Spoils
    <2>5. IdInv' /\ BrokerInv' /\ TearInv'
      BY <1>1, <2>1 DEF ConnInv, IdInv, BrokerInv, TearInv, FailAll, TypeOK, Early,
                        Awaiting
    <2> QED BY <2>2, <2>3, <2>4, <2>5 DEF ConnInv
  <1>2. CASE stage[r] \in {"queued", "waiting"}
    <2>1. /\ inFlight' = Without({corr[r]}) /\ abandoned' = abandoned \cup {r}
          /\ UNCHANGED <<closed, reply, writer, stream, next, handles, task, corr,
                         asked, answers, hungUp, served>>
      BY <1>2 DEF DropFuture
    <2>2. TypeOK'
      BY <1>2, <2>1, NobodyIsNoRequest DEF ConnInv, TypeOK, Without, task
    <2>3. NoEntryLeftBehind' /\ ReplyInv' /\ CalmInv'
      BY <1>2, <2>1 DEF ConnInv, NoEntryLeftBehind, ReplyInv, CalmInv, Without, IdInv,
                        TypeOK, task, Awaiting
    <2>4. OwnAnswer' /\ AnswerInv'
      BY <2>1 DEF ConnInv, OwnAnswer, AnswerInv, TypeOK, task
    <2>5. IdInv' /\ BrokerInv' /\ TearInv'
      BY <1>2, <2>1 DEF ConnInv, IdInv, BrokerInv, TearInv, TypeOK, Early, Awaiting
    <2> QED BY <2>2, <2>3, <2>4, <2>5 DEF ConnInv
  <1> QED BY <1>1, <1>2 DEF Awaiting

LEMMA CancelKeeps ==
  ASSUME ConnInv, NEW r \in Requests, Cancel(r) PROVE ConnInv'
  BY DropFutureKeeps DEF Cancel

LEMMA TimeoutKeeps ==
  ASSUME ConnInv, NEW r \in Requests, Timeout(r) PROVE ConnInv'
  BY DropFutureKeeps DEF Timeout

-----------------------------------------------------------------------------
(* The reader, the broker and the last handle.                             *)

Frames == [corr : Nat, says : {"ok", "bad"}]

LEMMA ReaderTakesKeeps == ASSUME ConnInv, ReaderTakes PROVE ConnInv'
  <1> DEFINE c == Head(answers).corr
  <1>1. /\ Head(answers) \in Frames /\ Tail(answers) \in Seq(Frames)
        /\ Head(answers) = answers[1] /\ 1 \in DOMAIN answers
        /\ DOMAIN Tail(answers) = 1 .. Len(answers) - 1
        /\ Len(answers) \in Nat /\ DOMAIN answers = 1 .. Len(answers)
        /\ \A i \in DOMAIN Tail(answers) :
              i + 1 \in DOMAIN answers /\ Tail(answers)[i] = answers[i + 1]
    <2>1. answers \in Seq(Frames) /\ answers # <<>>
      BY DEF ConnInv, TypeOK, ReaderTakes, Frames
    <2>2. /\ Head(answers) \in Frames /\ Tail(answers) \in Seq(Frames)
          /\ Len(Tail(answers)) = Len(answers) - 1
          /\ \A i \in 1 .. Len(Tail(answers)) : Tail(answers)[i] = answers[i + 1]
      BY <2>1, HeadTailProperties
    <2>3. Len(answers) \in Nat \ {0} /\ DOMAIN answers = 1 .. Len(answers)
      BY <2>1, EmptySeq, LenProperties
    <2>4. DOMAIN Tail(answers) = 1 .. Len(Tail(answers))
      BY <2>2, LenProperties
    <2>5. Head(answers) = answers[1] BY <2>1
    <2> QED BY <2>2, <2>3, <2>4, <2>5
  <1>2. CASE c \in DOMAIN inFlight
    <2>1. /\ hand' = [to |-> inFlight[c], says |-> Head(answers).says]
          /\ inFlight' = Without({c}) /\ reader' = "replying"
          /\ answers' = Tail(answers)
          /\ UNCHANGED <<closed, reply, next, writer, handles, stage, corr, stream,
                         asked, hungUp, abandoned, served>>
      BY <1>2 DEF ReaderTakes, history
    <2>2. TypeOK'
      BY <1>1, <1>2, <2>1 DEF ConnInv, TypeOK, Responses, Without, Frames
    <2>3. NoEntryLeftBehind' /\ ReplyInv' /\ OwnAnswer'
      BY <1>2, <2>1 DEF ConnInv, NoEntryLeftBehind, ReplyInv, OwnAnswer, IdInv, Without,
                        Awaiting, TypeOK
    <2>4. IdInv' /\ BrokerInv' /\ TearInv'
      BY <2>1 DEF ConnInv, IdInv, BrokerInv, TearInv, Awaiting
    <2>5. AnswerInv'
      <3>1. SUFFICES ASSUME stream # "overrun" PROVE AnswerInv'
        BY <2>1 DEF AnswerInv
      <3>2. \A i \in DOMAIN answers' :
               \E r \in served' : corr'[r] = answers'[i].corr
        BY <1>1, <2>1, <3>1 DEF ConnInv, AnswerInv
      <3>3. PICK r \in served : corr[r] = c
        BY <1>1, <3>1 DEF ConnInv, AnswerInv
      <3>4. inFlight[c] = r
        BY <1>2, <3>3 DEF ConnInv, NoEntryLeftBehind, IdInv, TypeOK
      <3> QED BY <2>1, <3>1, <3>2, <3>3, <3>4 DEF ConnInv, AnswerInv
    <2>6. CalmInv'
      <3>1. SUFFICES ASSUME abandoned = {}, ~hungUp, handles PROVE CalmInv'
        BY <2>1 DEF CalmInv
      <3>2. PICK s \in served : corr[s] = c
        BY <1>1, <3>1 DEF ConnInv, AnswerInv, TearInv
      <3>3. \A r \in Requests :
               stage[r] \in {"queued", "writing", "partial"} \/ r \in asked
                   => corr[r] \in DOMAIN inFlight /\ corr[r] # c
        BY <1>1, <3>1, <3>2
        DEF ConnInv, CalmInv, BrokerInv, IdInv, Early, TypeOK, Awaiting
      <3>4. \A i \in DOMAIN answers' :
               /\ answers'[i].corr \in DOMAIN inFlight /\ answers'[i].corr # c
               /\ \A r \in asked : corr[r] # answers'[i].corr
               /\ \A j \in DOMAIN answers' :
                     answers'[i].corr = answers'[j].corr => i = j
        BY <1>1, <2>1, <3>1 DEF ConnInv, CalmInv
      <3> QED BY <2>1, <3>1, <3>3, <3>4 DEF ConnInv, CalmInv, Without
    <2> QED BY <2>2, <2>3, <2>4, <2>5, <2>6 DEF ConnInv
  <1>3. CASE c \notin DOMAIN inFlight
    <2>1. /\ FailAll /\ reader' = "ended" /\ answers' = Tail(answers)
          /\ UNCHANGED <<hand, next, writer, handles, stage, corr, stream, asked,
                         hungUp, abandoned, served>>
      BY <1>3 DEF ReaderTakes, history
    <2>2. ~(abandoned = {} /\ ~hungUp /\ handles)
      BY <1>1, <1>3 DEF ConnInv, CalmInv
    <2>3. TypeOK'
      BY <1>1, <2>1 DEF ConnInv, TypeOK, FailAll, Without, Frames
    <2>4. NoEntryLeftBehind' /\ ReplyInv' /\ CalmInv'
      BY <2>1, <2>2 DEF ConnInv, NoEntryLeftBehind, ReplyInv, CalmInv, FailAll,
                        Without, Registered, IdInv, TypeOK
    <2>5. OwnAnswer' /\ AnswerInv'
      BY <1>1, <2>1 DEF ConnInv, OwnAnswer, AnswerInv, FailAll, TypeOK
    <2>6. IdInv' /\ BrokerInv' /\ TearInv'
      BY <2>1 DEF ConnInv, IdInv, BrokerInv, TearInv, FailAll, Awaiting
    <2> QED BY <2>3, <2>4, <2>5, <2>6 DEF ConnInv
  <1> QED BY <1>2, <1>3

LEMMA ReaderRepliesKeeps == ASSUME ConnInv, ReaderReplies PROVE ConnInv'
  BY NobodyIsNoRequest
  DEF ConnInv, TypeOK, NoEntryLeftBehind, OwnAnswer, IdInv, BrokerInv, ReplyInv,
      AnswerInv, TearInv, CalmInv, Awaiting, Early, Responses, ReaderReplies,
      NoResponse, shared, socket, history

LEMMA ReaderFailsKeeps == ASSUME ConnInv, ReaderFails PROVE ConnInv'
  BY NobodyIsNoRequest
  DEF ConnInv, TypeOK, NoEntryLeftBehind, OwnAnswer, IdInv, BrokerInv, ReplyInv,
      AnswerInv, TearInv, CalmInv, Awaiting, Early, ReaderFails, FailAll,
      Without, Registered, socket, history

LEMMA DropConnectionKeeps == ASSUME ConnInv, DropConnection PROVE ConnInv'
  <1>1. /\ handles' = FALSE /\ FailAll /\ reader' = "ended" /\ hand' = NoResponse
        /\ UNCHANGED <<next, writer, stage, corr, stream, asked, answers, hungUp,
                       abandoned, served>>
    BY DEF DropConnection, socket, history
  <1>2. TypeOK'
    BY <1>1, NobodyIsNoRequest
    DEF ConnInv, TypeOK, FailAll, Without, NoResponse, Responses
  <1>3. NoEntryLeftBehind' /\ ReplyInv' /\ CalmInv'
    BY <1>1, NobodyIsNoRequest
    DEF ConnInv, NoEntryLeftBehind, ReplyInv, CalmInv, FailAll, Without, Registered,
        NoResponse, IdInv, TypeOK
  <1>4. OwnAnswer' /\ AnswerInv'
    BY <1>1 DEF ConnInv, OwnAnswer, AnswerInv, FailAll, TypeOK, NoResponse
  <1>5. IdInv' /\ BrokerInv' /\ TearInv'
    BY <1>1 DEF ConnInv, IdInv, BrokerInv, TearInv, FailAll, Awaiting
  <1> QED BY <1>2, <1>3, <1>4, <1>5 DEF ConnInv

LEMMA BrokerAnswersKeeps ==
  ASSUME ConnInv, NEW r \in Requests, BrokerAnswers(r) PROVE ConnInv'
  <1>1. PICK says \in {"ok", "bad"} :
           /\ answers' = Append(answers, [corr |-> corr[r], says |-> says])
           /\ asked' = asked \ {r} /\ served' = served \cup {r} /\ r \in asked
           /\ UNCHANGED <<shared, next, writer, handles, task, stage, corr, reply,
                          stream, hungUp, abandoned>>
    BY DEF BrokerAnswers, Answer
  <1>2. /\ answers' \in Seq(Frames)
        /\ Len(answers) \in Nat /\ DOMAIN answers = 1 .. Len(answers)
        /\ DOMAIN answers' = 1 .. Len(answers) + 1
        /\ \A i \in DOMAIN answers : answers'[i] = answers[i]
        /\ answers'[Len(answers) + 1].corr = corr[r]
    <2> DEFINE new == [corr |-> corr[r], says |-> says]
    <2>1. answers \in Seq(Frames) /\ new \in Frames
      BY DEF ConnInv, TypeOK, Frames
    <2>2. Len(answers) \in Nat /\ DOMAIN answers = 1 .. Len(answers)
      BY <2>1, LenProperties
    <2>3. /\ answers' \in Seq(Frames) /\ Len(answers') = Len(answers) + 1
          /\ \A i \in 1 .. Len(answers) : answers'[i] = answers[i]
          /\ answers'[Len(answers) + 1] = new
      BY <1>1, <2>1, AppendProperties
    <2>4. DOMAIN answers' = 1 .. Len(answers')
      BY <2>3, LenProperties
    <2> QED BY <2>2, <2>3, <2>4
  <1>3. TypeOK'
    BY <1>1, <1>2 DEF ConnInv, TypeOK, shared, task, Frames
  <1>4. NoEntryLeftBehind' /\ ReplyInv' /\ OwnAnswer' /\ TearInv'
    BY <1>1 DEF ConnInv, NoEntryLeftBehind, ReplyInv, OwnAnswer, TearInv, shared,
                task, Awaiting
  <1>5. IdInv' /\ BrokerInv'
    BY <1>1 DEF ConnInv, IdInv, BrokerInv, Awaiting
  <1>6. AnswerInv'
    <2>1. SUFFICES ASSUME stream # "overrun" PROVE AnswerInv'
      BY <1>1 DEF AnswerInv
    <2>2. ASSUME NEW i \in DOMAIN answers'
          PROVE  \E q \in served' : corr'[q] = answers'[i].corr
      <3>1. CASE i \in DOMAIN answers
        BY <1>1, <1>2, <2>1, <3>1 DEF ConnInv, AnswerInv
      <3>2. CASE i = Len(answers) + 1 BY <1>1, <1>2, <3>2
      <3> QED BY <1>2, <2>2, <3>1, <3>2
    <2> QED BY <1>1, <2>1, <2>2 DEF ConnInv, AnswerInv, task
  <1>7. CalmInv'
    <2>1. SUFFICES ASSUME abandoned = {}, ~hungUp, handles PROVE CalmInv'
      BY <1>1 DEF CalmInv
    <2>2. \A i \in DOMAIN answers' :
             /\ answers'[i].corr \in DOMAIN inFlight
             /\ \A q \in asked' : corr[q] # answers'[i].corr
             /\ \A j \in DOMAIN answers' : answers'[i].corr = answers'[j].corr => i = j
      <3>1. /\ corr[r] \in DOMAIN inFlight
            /\ \A q \in asked' : corr[q] # corr[r]
            /\ \A i \in DOMAIN answers : answers[i].corr # corr[r]
        BY <1>1, <2>1 DEF ConnInv, CalmInv, IdInv, TypeOK
      <3>2. \A i \in DOMAIN answers' :
               i \in DOMAIN answers \/ i = Len(answers) + 1
        BY <1>2
      <3>3. \A i \in DOMAIN answers :
             /\ answers[i].corr \in DOMAIN inFlight
             /\ \A q \in asked : corr[q] # answers[i].corr
             /\ \A j \in DOMAIN answers : answers[i].corr = answers[j].corr => i = j
        BY <2>1 DEF ConnInv, CalmInv
      <3> QED BY <1>1, <1>2, <3>1, <3>2, <3>3
    <2> QED BY <1>1, <2>1, <2>2 DEF ConnInv, CalmInv, shared
  <1> QED BY <1>3, <1>4, <1>5, <1>6, <1>7 DEF ConnInv

LEMMA BrokerMisreadsKeeps == ASSUME ConnInv, BrokerMisreads PROVE ConnInv'
  BY NobodyIsNoRequest
  DEF ConnInv, TypeOK, NoEntryLeftBehind, OwnAnswer, IdInv, BrokerInv, ReplyInv,
      AnswerInv, TearInv, CalmInv, Awaiting, Early, BrokerMisreads, Answer,
      shared, task, history

LEMMA BrokerHangsUpKeeps == ASSUME ConnInv, BrokerHangsUp PROVE ConnInv'
  BY NobodyIsNoRequest
  DEF ConnInv, TypeOK, NoEntryLeftBehind, OwnAnswer, IdInv, BrokerInv, ReplyInv,
      AnswerInv, TearInv, CalmInv, Awaiting, Early, BrokerHangsUp, shared, task,
      history

-----------------------------------------------------------------------------
LEMMA StepKeeps == ConnInv /\ [Next]_vars => ConnInv'
  <1> SUFFICES ASSUME ConnInv, [Next]_vars PROVE ConnInv'
    OBVIOUS
  <1>1. CASE UNCHANGED vars
    BY <1>1
    DEF ConnInv, TypeOK, NoEntryLeftBehind, OwnAnswer, IdInv, BrokerInv, ReplyInv,
        AnswerInv, TearInv, CalmInv, Awaiting, vars, shared, socket, task, history
  <1>2. ASSUME NEW r \in Requests, RequestStep(r) PROVE ConnInv'
    BY <1>2, BeginKeeps, RegisterKeeps, LockWriterKeeps, WriteSomeKeeps,
       WriteDoneKeeps, WriteFailsKeeps, ReturnKeeps, CancelKeeps, TimeoutKeeps,
       ExpireKeeps
    DEF RequestStep
  <1>3. CASE ReaderStep
    BY <1>3, ReaderTakesKeeps, ReaderRepliesKeeps, ReaderFailsKeeps DEF ReaderStep
  <1>4. CASE BrokerStep
    BY <1>4, BrokerAnswersKeeps, BrokerMisreadsKeeps, BrokerHangsUpKeeps
    DEF BrokerStep
  <1>5. CASE DropConnection BY <1>5, DropConnectionKeeps
  <1> QED BY <1>1, <1>2, <1>3, <1>4, <1>5 DEF Next

\* The inductive invariant of the connection holds of every behaviour: of the
\* in-flight table, the correlation ids, the replies under way and the socket.
THEOREM ConnectionInvariant == Spec => []ConnInv
  BY InitHolds, StepKeeps, PTL DEF Spec

\* Each caller is given the response to its own request (read_response looks
\* the entry up by the id the request was registered under), for any number of
\* requests, cancelled and timed out in any order.
THEOREM AnswersAreOwn == Spec => []OwnAnswer
  <1>1. ConnInv => OwnAnswer BY DEF ConnInv
  <1> QED BY <1>1, ConnectionInvariant, PTL

\* No cancelled, timed-out or failed request leaves its entry in the in-flight
\* table (InFlightGuard).
THEOREM TableIsClean == Spec => []NoEntryLeftBehind
  <1>1. ConnInv => NoEntryLeftBehind BY DEF ConnInv
  <1> QED BY <1>1, ConnectionInvariant, PTL

\* fail_all runs only when a caller gave up, the broker hung up or the last
\* handle went: register-then-write keeps every response from beating its entry.
THEOREM FailuresHaveCause == Spec => []FailsForCause
  <1>1. ConnInv => FailsForCause BY DEF ConnInv, CalmInv, FailsForCause
  <1> QED BY <1>1, ConnectionInvariant, PTL

\* A connection with part of a frame on its socket is closed (WriteGuard).
THEOREM TornConnectionsFail == Spec => []TornIsFailed
  <1>1. ConnInv => TornIsFailed BY DEF ConnInv, TearInv, TornIsFailed
  <1> QED BY <1>1, ConnectionInvariant, PTL
=============================================================================
