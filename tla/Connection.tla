----------------------------- MODULE Connection -----------------------------
(***************************************************************************)
(* One broker connection of odradek-client (conn.rs): requests that        *)
(* pipeline on one socket, a reader task that matches responses to them by *)
(* correlation id, and callers that may go away at any await.              *)
(*                                                                         *)
(* A request is cut at its awaits (the writer's mutex, the write, the      *)
(* reply) and, since callers run on several threads, between its look at   *)
(* `closed' and its entry in the in-flight table.  The broker is external. *)
(***************************************************************************)
EXTENDS Naturals, Sequences

CONSTANT
    MaxRequests \* bound: calls of Connection::request ever made

ASSUME ConnectionAssumption == MaxRequests \in Nat

\* Requests are alike until they register, and numbered as they do.
Requests == 1 .. MaxRequests
Nobody == 0     \* no request: the writer's mutex is free

VARIABLES
    \* struct Inner and struct Shared
    closed,     \* Shared::closed
    inFlight,   \* Shared::in_flight: the request registered, by correlation id
    next,       \* next_correlation
    writer,     \* who holds the writer's mutex
    handles,    \* whether any Connection is left
    \* the reader task
    reader,     \* "reading", "replying" or "ended"
    hand,       \* the response it has matched: whose it is, and what it says
    \* each request
    stage,      \* the await it is at, or how it ended
    corr,       \* its correlation id; 0 before it has one
    reply,      \* what its oneshot channel holds
    \* the socket and the broker behind it (external)
    stream,     \* the bytes written: "clean", "torn" inside a frame, or
                \* "overrun" by bytes written after the tear
    asked,      \* requests the broker has read and not answered
    answers,    \* responses on their way
    hungUp,     \* the broker has closed, or sent what is no frame
    \* history
    abandoned,  \* requests whose caller went away or whose time ran out
    served      \* requests the broker has really answered

shared == <<closed, inFlight>>
socket == <<stream, asked, answers, hungUp>>
task == <<reader, hand>>
history == <<abandoned, served>>
vars == <<shared, next, writer, handles, task, stage, corr, reply, socket,
          history>>

NoResponse == [to |-> Nobody, says |-> "none"]

Init ==
    /\ closed = FALSE /\ inFlight = [c \in {} |-> Nobody] /\ next = 1
    /\ writer = Nobody /\ handles = TRUE
    /\ reader = "reading" /\ hand = NoResponse
    /\ stage = [r \in Requests |-> "new"]
    /\ corr = [r \in Requests |-> 0]
    /\ reply = [r \in Requests |-> "none"]
    /\ stream = "clean" /\ asked = {} /\ answers = <<>> /\ hungUp = FALSE
    /\ abandoned = {} /\ served = {}

-----------------------------------------------------------------------------
(* The in-flight table.                                                    *)

\* The table without these correlation ids.
Without(ids) == [c \in DOMAIN inFlight \ ids |-> inFlight[c]]

Registered == {inFlight[c] : c \in DOMAIN inFlight}

\* Shared::fail_all: whoever is registered is told ConnectionClosed.
FailAll ==
    /\ closed' = TRUE
    /\ inFlight' = Without(DOMAIN inFlight)
    /\ reply' = [r \in Requests |-> IF r \in Registered THEN "closed" ELSE reply[r]]

-----------------------------------------------------------------------------
(* One request.                                                            *)

First(r, at) == stage[r] = at /\ \A q \in Requests : q < r => stage[q] # at

\* request_unbounded looks whether the connection is closed.
Begin(r) ==
    /\ handles
    /\ First(r, "new")
    /\ stage' = [stage EXCEPT ![r] = IF closed THEN "failed" ELSE "open"]
    /\ UNCHANGED <<shared, next, writer, handles, task, corr, reply, socket,
                   history>>

\* Mutant: the entry is keyed by the counter, not by the id taken from it.
RegisterLate(r) ==
    /\ First(r, "open")
    /\ next' = next + 1
    /\ corr' = [corr EXCEPT ![r] = next]
    /\ inFlight' = [c \in DOMAIN inFlight \cup {next'} |->
                       IF c = next' THEN r ELSE inFlight[c]]
    /\ stage' = [stage EXCEPT ![r] = "queued"]
    /\ UNCHANGED <<closed, writer, handles, task, reply, socket, history>>

\* Mutant: the counter is read and never moved.
RegisterSameId(r) ==
    /\ First(r, "open")
    /\ corr' = [corr EXCEPT ![r] = next]
    /\ inFlight' = [c \in DOMAIN inFlight \cup {next} |->
                       IF c = next THEN r ELSE inFlight[c]]
    /\ stage' = [stage EXCEPT ![r] = "queued"]
    /\ UNCHANGED <<closed, next, writer, handles, task, reply, socket, history>>

\* It takes a correlation id, enters the table and asks for the writer.
Register(r) ==
    /\ First(r, "open")
    /\ next' = next + 1
    /\ corr' = [corr EXCEPT ![r] = next]
    /\ inFlight' = [c \in DOMAIN inFlight \cup {next} |->
                       IF c = next THEN r ELSE inFlight[c]]
    /\ stage' = [stage EXCEPT ![r] = "queued"]
    /\ UNCHANGED <<closed, writer, handles, task, reply, socket, history>>

\* It has the writer's mutex; from here the WriteGuard is armed.
LockWriter(r) ==
    /\ stage[r] = "queued" /\ writer = Nobody
    /\ writer' = r
    /\ stage' = [stage EXCEPT ![r] = "writing"]
    /\ UNCHANGED <<shared, next, handles, task, corr, reply, socket, history>>

\* Bytes reach a socket that was left inside somebody's frame.
Spoils == stream \in {"torn", "overrun"}

\* Part of the frame is on the socket.
WriteSome(r) ==
    /\ stage[r] = "writing"
    /\ stage' = [stage EXCEPT ![r] = "partial"]
    /\ stream' = IF Spoils THEN "overrun" ELSE "clean"
    /\ UNCHANGED <<shared, next, writer, handles, task, corr, reply, asked,
                   answers, hungUp, history>>

\* All of it is, and the writer is free again.
WriteDone(r) ==
    /\ stage[r] \in {"writing", "partial"}
    /\ stage' = [stage EXCEPT ![r] = "waiting"]
    /\ writer' = Nobody
    /\ stream' = IF Spoils THEN "overrun" ELSE "clean"
    /\ asked' = IF Spoils THEN asked ELSE asked \cup {r}
    /\ UNCHANGED <<shared, next, handles, task, corr, reply, answers, hungUp,
                   history>>

\* The write fails on a socket the broker has closed: the InFlightGuard takes
\* the entry back, and the connection is left to the reader to fail. Nobody
\* reads the part of the frame that went out, so it tears nothing.
WriteFails(r) ==
    /\ stage[r] \in {"writing", "partial"}
    /\ hungUp
    /\ stage' = [stage EXCEPT ![r] = "failed"]
    /\ writer' = Nobody
    /\ inFlight' = Without({corr[r]})
    /\ UNCHANGED <<closed, next, handles, task, corr, reply, socket, history>>

\* The reply is there.
Return(r) ==
    /\ stage[r] = "waiting"
    /\ reply[r] # "none"
    /\ stage' = [stage EXCEPT ![r] = IF reply[r] = "ok" THEN "ok" ELSE "failed"]
    /\ UNCHANGED <<shared, next, writer, handles, task, corr, reply, socket,
                   history>>

\* Mutant: no InFlightGuard.
DropFutureUnguarded(r) ==
    /\ abandoned' = abandoned \cup {r}
    /\ IF stage[r] \in {"writing", "partial"}
       THEN /\ FailAll
            /\ writer' = Nobody
            /\ stream' = IF stage[r] = "partial" /\ ~Spoils THEN "torn" ELSE stream
       ELSE UNCHANGED <<closed, inFlight, reply, writer, stream>>
    /\ UNCHANGED <<next, handles, task, corr, asked, answers, hungUp, served>>

\* Mutant: no WriteGuard, and so a torn connection that looks well.
DropFutureUnfailed(r) ==
    /\ abandoned' = abandoned \cup {r}
    /\ inFlight' = Without({corr[r]})
    /\ writer' = IF writer = r THEN Nobody ELSE writer
    /\ stream' = IF stage[r] = "partial" /\ ~Spoils THEN "torn" ELSE stream
    /\ UNCHANGED <<closed, next, handles, task, corr, reply, asked, answers,
                   hungUp, served>>

\* The future is dropped at an await.  While it writes, the WriteGuard fails
\* the connection before the mutex is let go; elsewhere the InFlightGuard only
\* takes the entry back.
DropFuture(r) ==
    /\ abandoned' = abandoned \cup {r}
    /\ IF stage[r] \in {"writing", "partial"}
       THEN /\ FailAll
            /\ writer' = Nobody
            /\ stream' = IF stage[r] = "partial" /\ ~Spoils THEN "torn" ELSE stream
       ELSE /\ inFlight' = Without({corr[r]})
            /\ UNCHANGED <<closed, reply, writer, stream>>
    /\ UNCHANGED <<next, handles, task, corr, asked, answers, hungUp, served>>

Awaiting(r) == stage[r] \in {"queued", "writing", "partial", "waiting"}

\* The caller goes away.
Cancel(r) ==
    /\ Awaiting(r)
    /\ DropFuture(r)
    /\ stage' = [stage EXCEPT ![r] = "failed"]

\* Mutant: only the wait for the reply is timed.
TimeoutReplyOnly(r) ==
    /\ stage[r] = "waiting" /\ reply[r] = "none"
    /\ DropFuture(r)
    /\ stage' = [stage EXCEPT ![r] = "expired"]

\* request_timeout passes: the future is dropped.  A reply that is already
\* there wins.
Timeout(r) ==
    /\ Awaiting(r)
    /\ stage[r] = "waiting" => reply[r] = "none"
    /\ DropFuture(r)
    /\ stage' = [stage EXCEPT ![r] = "expired"]

\* And then the connection is failed.
Expire(r) ==
    /\ stage[r] = "expired"
    /\ FailAll
    /\ stage' = [stage EXCEPT ![r] = "failed"]
    /\ UNCHANGED <<next, writer, handles, task, corr, socket, history>>

-----------------------------------------------------------------------------
(* The reader task, and the end of the connection.                         *)

\* read_response matches a response: its entry leaves the table.
ReaderTakes ==
    /\ reader = "reading"
    /\ answers # <<>>
    /\ answers' = Tail(answers)
    /\ LET c == Head(answers).corr
       IN  IF c \in DOMAIN inFlight
           THEN /\ hand' = [to |-> inFlight[c], says |-> Head(answers).says]
                /\ inFlight' = Without({c})
                /\ reader' = "replying"
                /\ UNCHANGED <<closed, reply>>
           ELSE /\ FailAll
                /\ reader' = "ended"
                /\ UNCHANGED hand
    /\ UNCHANGED <<next, writer, handles, stage, corr, stream, asked, hungUp,
                   history>>

\* And its body, or the failure to decode its header, is sent on: to nobody,
\* if the caller has gone in the meantime.
ReaderReplies ==
    /\ reader = "replying"
    /\ reply' = IF Awaiting(hand.to)
                THEN [reply EXCEPT ![hand.to] = hand.says] ELSE reply
    /\ reader' = "reading"
    /\ hand' = NoResponse
    /\ UNCHANGED <<shared, next, writer, handles, stage, corr, socket, history>>

\* The socket ends, or holds what is no frame.
ReaderFails ==
    /\ reader = "reading"
    /\ answers = <<>> /\ hungUp
    /\ FailAll
    /\ reader' = "ended"
    /\ UNCHANGED <<next, writer, handles, hand, stage, corr, socket, history>>

\* The last Connection is dropped: no request borrows it any more.
DropConnection ==
    /\ handles
    /\ \A r \in Requests : stage[r] \in {"new", "ok", "failed"}
    /\ handles' = FALSE
    /\ FailAll
    /\ reader' = "ended"
    /\ hand' = NoResponse
    /\ UNCHANGED <<next, writer, stage, corr, socket, history>>

-----------------------------------------------------------------------------
(* The broker.                                                             *)

Answer(c, says) ==
    /\ ~hungUp
    /\ answers' = Append(answers, [corr |-> c, says |-> says])

\* It answers a request it has read, in any order; the header of an answer
\* may be one the client cannot decode.
BrokerAnswers(r) ==
    /\ r \in asked
    /\ \E says \in {"ok", "bad"} : Answer(corr[r], says)
    /\ asked' = asked \ {r}
    /\ served' = served \cup {r}
    /\ UNCHANGED <<shared, next, writer, handles, task, stage, corr, reply,
                   stream, hungUp, abandoned>>

\* It reads a frame completed with bytes that were not part of it: the answer
\* may bear any correlation id.
BrokerMisreads ==
    /\ stream = "overrun"
    /\ answers = <<>>
    /\ \E c \in 1 .. next : Answer(c, "ok")
    /\ UNCHANGED <<shared, next, writer, handles, task, stage, corr, reply,
                   stream, asked, hungUp, history>>

BrokerHangsUp ==
    /\ ~hungUp
    /\ hungUp' = TRUE
    /\ UNCHANGED <<shared, next, writer, handles, task, stage, corr, reply,
                   stream, asked, answers, history>>

-----------------------------------------------------------------------------
RequestStep(r) ==
    \/ Begin(r) \/ Register(r) \/ LockWriter(r) \/ WriteSome(r) \/ WriteDone(r)
    \/ WriteFails(r) \/ Return(r) \/ Cancel(r) \/ Timeout(r) \/ Expire(r)

ReaderStep == ReaderTakes \/ ReaderReplies \/ ReaderFails

BrokerStep ==
    \/ \E r \in Requests : BrokerAnswers(r)
    \/ BrokerMisreads \/ BrokerHangsUp

Next == ReaderStep \/ BrokerStep \/ DropConnection
        \/ \E r \in Requests : RequestStep(r)

Spec == Init /\ [][Next]_vars

\* The runtime polls the reader and a request that can go on, and timers
\* fire; the broker and a write owe nothing.
Fairness ==
    /\ WF_vars(ReaderStep)
    /\ \A r \in Requests :
          /\ WF_vars(Register(r)) /\ WF_vars(Return(r))
          /\ WF_vars(Timeout(r)) /\ WF_vars(Expire(r))

FairSpec == Spec /\ Fairness

-----------------------------------------------------------------------------
(* Properties.                                                             *)

Responses == [to : Requests \cup {Nobody}, says : {"none", "ok", "bad"}]

\* The type invariant: the fields of Inner and Shared, with the writer's mutex
\* held exactly by the request that writes.
TypeOK ==
    /\ closed \in BOOLEAN /\ handles \in BOOLEAN /\ hungUp \in BOOLEAN
    /\ next \in Nat \ {0}
    /\ DOMAIN inFlight \subseteq 1 .. next - 1
    /\ \A c \in DOMAIN inFlight : inFlight[c] \in Requests
    /\ writer \in Requests \cup {Nobody}
    /\ \A r \in Requests : writer = r <=> stage[r] \in {"writing", "partial"}
    /\ reader \in {"reading", "replying", "ended"} /\ hand \in Responses
    /\ reader = "replying" => hand.to \in Requests
    /\ stage \in [Requests -> {"new", "open", "queued", "writing", "partial",
                               "waiting", "expired", "ok", "failed"}]
    /\ corr \in [Requests -> Nat]
    /\ reply \in [Requests -> {"none", "ok", "bad", "closed"}]
    /\ stream \in {"clean", "torn", "overrun"}
    /\ asked \subseteq Requests
    /\ answers \in Seq([corr : Nat, says : {"ok", "bad"}])
    /\ abandoned \subseteq Requests /\ served \subseteq Requests

\* Every entry of the in-flight table is that of a request still in progress,
\* under its own id: cancelled, timed out and failed ones leave none behind
\* (InFlightGuard), whatever the reader and fail_all do at the same time.
NoEntryLeftBehind ==
    \A c \in DOMAIN inFlight : Awaiting(inFlight[c]) /\ corr[inFlight[c]] = c

\* A caller is given the response to its own request, though others were
\* cancelled and their responses come late or never: as long as no byte is
\* written behind a torn frame.
OwnAnswer ==
    \A r \in Requests : (stage[r] = "ok" /\ stream # "overrun") => r \in served

\* A caller that goes away inside a write costs the connection, as the doc of
\* Connection::request says: with part of a frame on the socket it is closed,
\* so a request that only begins after that is refused (WriteGuard).
TornIsFailed == stream # "clean" => closed

\* Pipelined requests cost each other nothing: the connection fails only when
\* a caller went away, time ran out, the broker hung up or the last handle was
\* dropped, never over a response that beat its entry into the table
\* ("Register-then-write").
FailsForCause == closed => abandoned # {} \/ hungUp \/ ~handles

\* Every request returns, also one queued behind a write that hangs: the
\* request timeout covers the wait for the writer, the write and the reply.
RequestsReturn ==
    \A r \in Requests : stage[r] = "open" ~> stage[r] \in {"ok", "failed"}

-----------------------------------------------------------------------------
(* The inductive strengthening of the invariants.                          *)

Early == {"new", "open", "queued", "writing", "partial"}

\* Correlation ids are unique, and taken before a request is registered.
IdInv ==
    /\ \A r \in Requests :
          /\ corr[r] < next
          /\ stage[r] \in {"new", "open"} => corr[r] = 0
          /\ Awaiting(r) \/ r \in asked \cup served => corr[r] # 0
    /\ \A r, s \in Requests : (corr[r] = corr[s] /\ corr[r] # 0) => r = s

\* The broker knows only of requests that have been written.
BrokerInv ==
    /\ \A r \in asked \cup served : stage[r] \notin Early
    /\ asked \cap served = {}

\* Whoever has a reply, or is about to be sent one, is out of the table.
ReplyInv ==
    \A r \in Requests : (reply[r] # "none" \/ hand.to = r) =>
        corr[r] # 0 /\ corr[r] \notin DOMAIN inFlight

\* What is on its way to a caller is an answer to it, on a socket that is not
\* overrun.
AnswerInv ==
    stream # "overrun" =>
        /\ \A i \in DOMAIN answers : \E r \in served : corr[r] = answers[i].corr
        /\ hand.to \in served \cup {Nobody}
        /\ \A r \in Requests : reply[r] = "ok" => r \in served

\* A frame is torn, and a timeout pending, only by a caller that gave up.
TearInv ==
    /\ stream # "clean" => closed /\ abandoned # {}
    /\ \A r \in Requests : stage[r] = "expired" => r \in abandoned

\* While nobody has given up and the broker is there, every response finds its
\* entry.
CalmInv ==
    (abandoned = {} /\ ~hungUp /\ handles) =>
        /\ ~closed
        /\ \A r \in Requests :
              stage[r] \in {"queued", "writing", "partial"} \/ r \in asked
                  => corr[r] \in DOMAIN inFlight
        /\ \A i \in DOMAIN answers :
              /\ answers[i].corr \in DOMAIN inFlight
              /\ \A r \in asked : corr[r] # answers[i].corr
              /\ \A j \in DOMAIN answers :
                    answers[i].corr = answers[j].corr => i = j

\* The inductive invariant of the connection.
ConnInv ==
    /\ TypeOK /\ NoEntryLeftBehind /\ OwnAnswer
    /\ IdInv /\ BrokerInv /\ ReplyInv /\ AnswerInv /\ TearInv /\ CalmInv
=============================================================================
