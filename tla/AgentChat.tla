----------------------------- MODULE AgentChat -----------------------------
(***************************************************************************)
(* Chats with an agent (agent_chat_service.py and aperag/agent).  For each *)
(* message of a user a producer asks the agent and puts what it says into  *)
(* a queue, the event bus adds the results of tools, and a consumer sends  *)
(* the queue to the client until it reads the end of the stream.  The      *)
(* agent and its language model live in a session of the chat, which is    *)
(* shared by its messages and closed after half an hour by a background    *)
(* task or by the next message, without locks.                             *)
(***************************************************************************)
EXTENDS Naturals, Sequences, FiniteSets

CONSTANTS Requests,  \* the messages; each may be on a connection of its own
          Chats,
          UsesTools,    \* the messages the agent uses tools for
          Assignments,  \* the chats the messages may belong to
          NoSession

ASSUME AssignmentsAssumption == UsesTools \subseteq Requests /\ Assignments \subseteq [Requests -> Chats]
ASSUME NamesAssumption == Requests \cap Chats = {} /\ NoSession \notin Requests \cup Chats

\* A session is named after the request that makes it, or after its chat if
\* it was there from the start.
Sessions == Requests \cup Chats

ProducerSteps == {"idle", "begun", "looking", "cleaning", "starting",
                  "generating", "returned", "raised"}
ConsumerSteps == {"idle", "reading", "returned", "raised"}
HandlerSteps == {"idle", "waiting", "ended"}
SessionStates == {"none", "ready", "closing", "closed"}
Messages == {"start", "tool", "content", "stop", "none"}

VARIABLES
  chat,      \* the chat of each request
  hasModel,  \* the message or the bot names a model
  handler,   \* _handle_single_message, which waits for both tasks
  producer,  \* process_agent_message
  consumer,  \* _consume_messages_from_queue
  using,     \* the session the producer looks at, then works with
  queue,     \* the AgentMessageQueue, and whether it is closed
  received,  \* what the client was sent for a message that is worked on
  tools,     \* a result of a tool is on its way through the event bus
  table,     \* _chat_sessions
  state,     \* where each session is
  expired,   \* the sessions not used for half an hour
  listed,    \* cleanup_expired_sessions: the expired keys it goes through
  closing    \* ... and the session it is cleaning up

sessionVars == <<table, state, expired, listed, closing>>
chatVars == <<chat, hasModel, handler, producer, consumer, using, queue, received, tools,
              sessionVars>>

NewQueue == [messages |-> <<>>, closed |-> FALSE]

ChatInit ==
  /\ chat \in Assignments
  /\ hasModel \in [Requests -> BOOLEAN]
  /\ handler = [r \in Requests |-> "idle"]
  /\ producer = [r \in Requests |-> "idle"]
  /\ consumer = [r \in Requests |-> "idle"]
  /\ using = [r \in Requests |-> NoSession]
  /\ queue = [r \in Requests |-> NewQueue]
  /\ received = [r \in Requests |-> <<>>]
  /\ tools = {}
  /\ table = [c \in Chats |-> c]
  /\ state = [s \in Sessions |-> IF s \in Chats THEN "ready" ELSE "none"]
  /\ expired = {}
  /\ listed = {}
  /\ closing = NoSession

-----------------------------------------------------------------------------
(* AgentMessageQueue *)

\* put: a closed queue takes no message.
Put(q, messages) ==
  IF q.closed THEN q ELSE [q EXCEPT !.messages = @ \o messages]

\* Mutated: the queue is closed without the end of the stream.
ClosesSilently(q) == [q EXCEPT !.closed = TRUE]

Close(q) == [messages |-> Append(q.messages, "none"), closed |-> TRUE]

-----------------------------------------------------------------------------
(* The handler: the listener is registered and both tasks are created. *)

Receive(r) ==
  /\ handler[r] = "idle"
  /\ handler' = [handler EXCEPT ![r] = "waiting"]
  /\ producer' = [producer EXCEPT ![r] = "begun"]
  /\ consumer' = [consumer EXCEPT ![r] = "reading"]
  /\ UNCHANGED <<chat, hasModel, using, queue, received, tools, sessionVars>>

Finished == {"returned", "raised"}

\* Both tasks are done: an error is sent or the turn is saved, the listener
\* is unregistered, and the tasks and the queue are gone.
Gather(r) ==
  /\ handler[r] = "waiting"
  /\ producer[r] \in Finished /\ consumer[r] \in Finished
  /\ handler' = [handler EXCEPT ![r] = "ended"]
  /\ producer' = [producer EXCEPT ![r] = "idle"]
  /\ consumer' = [consumer EXCEPT ![r] = "idle"]
  /\ using' = [using EXCEPT ![r] = NoSession]
  /\ queue' = [queue EXCEPT ![r] = NewQueue]
  /\ received' = [received EXCEPT ![r] = <<>>]
  /\ UNCHANGED <<chat, hasModel, tools, sessionVars>>

-----------------------------------------------------------------------------
(* The producer.  What it raises after the start closes the queue; a        *)
(* message without a model is refused before that.                         *)

RefusedBeforeStart(r) == ~ hasModel[r]

Refuse(r) ==
  /\ producer[r] = "begun"
  /\ RefusedBeforeStart(r)
  /\ producer' = [producer EXCEPT ![r] = "raised"]
  /\ UNCHANGED <<chat, hasModel, handler, consumer, using, queue, received, tools, sessionVars>>

Start(r) ==
  /\ producer[r] = "begun"
  /\ hasModel[r]
  /\ producer' = [producer EXCEPT ![r] = "looking"]
  /\ queue' = [queue EXCEPT ![r] = Put(@, <<"start">>)]
  /\ UNCHANGED <<chat, hasModel, handler, consumer, using, received, tools, sessionVars>>

Raise(r) ==
  /\ producer' = [producer EXCEPT ![r] = "raised"]
  /\ queue' = [queue EXCEPT ![r] = Close(@)]

\* The history or the provider cannot be read.
LookupFails(r) ==
  /\ producer[r] = "looking"
  /\ Raise(r)
  /\ UNCHANGED <<chat, hasModel, handler, consumer, using, received, tools, sessionVars>>

-----------------------------------------------------------------------------
(* get_or_create_session.  A session counts as ready until its cleanup has  *)
(* come to its end.                                                        *)

Ready(s) == state[s] \in {"ready", "closing"}
Usable(s) == s # NoSession /\ Ready(s) /\ s \notin expired

UseSession(r) ==
  LET s == table[chat[r]]
  IN /\ producer[r] = "looking"
     /\ Usable(s)
     /\ producer' = [producer EXCEPT ![r] = "generating"]
     /\ using' = [using EXCEPT ![r] = s]
     /\ UNCHANGED <<chat, hasModel, handler, consumer, queue, received, tools, sessionVars>>

\* The old session is cleaned up first, which takes its time.
CloseSession(s) ==
  state' = IF s # NoSession /\ state[s] = "ready" THEN [state EXCEPT ![s] = "closing"]
                                                  ELSE state

ReplaceSession(r) ==
  LET s == table[chat[r]]
  IN /\ producer[r] = "looking"
     /\ ~ Usable(s)
     /\ CloseSession(s)
     /\ producer' = [producer EXCEPT ![r] = "cleaning"]
     /\ using' = [using EXCEPT ![r] = s]
     /\ UNCHANGED <<chat, hasModel, handler, consumer, queue, received, tools,
                    table, expired, listed, closing>>

ClosedSession(s) ==
  state' = IF s # NoSession THEN [state EXCEPT ![s] = "closed"] ELSE state

OldSessionClosed(r) ==
  /\ producer[r] = "cleaning"
  /\ ClosedSession(using[r])
  /\ producer' = [producer EXCEPT ![r] = "starting"]
  /\ using' = [using EXCEPT ![r] = NoSession]
  /\ UNCHANGED <<chat, hasModel, handler, consumer, queue, received, tools,
                 table, expired, listed, closing>>

\* The new session is initialised and put into the table.
SessionStarts(r) ==
  /\ producer[r] = "starting"
  /\ state' = [state EXCEPT ![r] = "ready"]
  /\ table' = [table EXCEPT ![chat[r]] = r]
  /\ producer' = [producer EXCEPT ![r] = "generating"]
  /\ using' = [using EXCEPT ![r] = r]
  /\ UNCHANGED <<chat, hasModel, handler, consumer, queue, received, tools,
                 expired, listed, closing>>

SessionFails(r) ==
  /\ producer[r] = "starting"
  /\ state' = [state EXCEPT ![r] = "closed"]
  /\ Raise(r)
  /\ UNCHANGED <<chat, hasModel, handler, consumer, using, received, tools,
                 table, expired, listed, closing>>

-----------------------------------------------------------------------------
(* The agent works.  Results of tools reach the queue through the bus. *)

\* Bound: one result of a tool for each message that uses tools.
InTransit(r) == queue[r].messages \o received[r]

ToolResult(r) ==
  /\ r \in UsesTools \ tools
  /\ producer[r] = "generating"
  /\ \A i \in DOMAIN InTransit(r) : InTransit(r)[i] # "tool"
  /\ tools' = tools \cup {r}
  /\ UNCHANGED <<chat, hasModel, handler, producer, consumer, using, queue, received, sessionVars>>

\* The listener is gone when the handler has ended.
DispatchTool(r) ==
  /\ r \in tools
  /\ tools' = tools \ {r}
  /\ queue' = IF handler[r] = "ended" THEN queue
              ELSE [queue EXCEPT ![r] = Put(@, <<"tool">>)]
  /\ UNCHANGED <<chat, hasModel, handler, producer, consumer, using, received, sessionVars>>

GenerationFails(r) ==
  /\ producer[r] = "generating"
  /\ Raise(r)
  /\ UNCHANGED <<chat, hasModel, handler, consumer, using, received, tools, sessionVars>>

\* Mutated: the end is put before the answer.
EndsFirst == <<"stop", "content">>

AnswerMessages == <<"content", "stop">>

\* The language model has answered.
AgentAnswers(r) ==
  /\ producer[r] = "generating"
  /\ queue' = [queue EXCEPT ![r] = Close(Put(@, AnswerMessages))]
  /\ producer' = [producer EXCEPT ![r] = "returned"]
  /\ UNCHANGED <<chat, hasModel, handler, consumer, using, received, tools, sessionVars>>

\* The answer is out, and its references cannot be made from the history.
ReferencesFail(r) ==
  /\ producer[r] = "generating"
  /\ queue' = [queue EXCEPT ![r] = Close(Put(@, <<"content">>))]
  /\ producer' = [producer EXCEPT ![r] = "raised"]
  /\ UNCHANGED <<chat, hasModel, handler, consumer, using, received, tools, sessionVars>>

-----------------------------------------------------------------------------
(* The consumer *)

Consume(r) ==
  /\ consumer[r] = "reading"
  /\ queue[r].messages # <<>>
  /\ queue' = [queue EXCEPT ![r].messages = Tail(@)]
  /\ IF Head(queue[r].messages) = "none"
     THEN consumer' = [consumer EXCEPT ![r] = "returned"] /\ UNCHANGED received
     ELSE /\ received' = [received EXCEPT ![r] = Append(@, Head(queue[r].messages))]
          /\ UNCHANGED consumer
  /\ UNCHANGED <<chat, hasModel, handler, producer, using, tools, sessionVars>>

\* The client is gone.
SendFails(r) ==
  /\ consumer[r] = "reading"
  /\ queue[r].messages \notin {<<>>, <<"none">>}
  /\ queue' = [queue EXCEPT ![r].messages = Tail(@)]
  /\ consumer' = [consumer EXCEPT ![r] = "raised"]
  /\ UNCHANGED <<chat, hasModel, handler, producer, using, received, tools, sessionVars>>

-----------------------------------------------------------------------------
(* cleanup_expired_sessions, every five minutes *)

Expire(s) ==
  /\ state[s] = "ready"
  /\ s \notin expired
  /\ expired' = expired \cup {s}
  /\ UNCHANGED <<chat, hasModel, handler, producer, consumer, using, queue, received, tools,
                 table, state, listed, closing>>

ListExpired ==
  /\ listed = {}
  /\ closing = NoSession
  /\ listed' = {c \in Chats : table[c] \in expired}
  /\ listed' # {}
  /\ UNCHANGED <<chat, hasModel, handler, producer, consumer, using, queue, received, tools,
                 table, state, expired, closing>>

\* Mutated: the session is looked up, and stays in the table.
LooksUp(c) ==
  /\ c \in listed
  /\ closing = NoSession
  /\ listed' = listed \ {c}
  /\ closing' = table[c]
  /\ CloseSession(table[c])
  /\ UNCHANGED <<chat, hasModel, handler, producer, consumer, using, queue, received, tools,
                 table, expired>>

\* The next key is popped, and its session, whichever that is now, cleaned up.
PopExpired(c) ==
  /\ c \in listed
  /\ closing = NoSession
  /\ listed' = listed \ {c}
  /\ closing' = table[c]
  /\ table' = [table EXCEPT ![c] = NoSession]
  /\ CloseSession(table[c])
  /\ UNCHANGED <<chat, hasModel, handler, producer, consumer, using, queue, received, tools,
                 expired>>

ExpiredClosed ==
  /\ closing # NoSession
  /\ ClosedSession(closing)
  /\ closing' = NoSession
  /\ UNCHANGED <<chat, hasModel, handler, producer, consumer, using, queue, received, tools,
                 table, expired, listed>>

-----------------------------------------------------------------------------
ProducerStep(r) ==
  \/ Refuse(r) \/ Start(r) \/ LookupFails(r)
  \/ UseSession(r) \/ ReplaceSession(r) \/ OldSessionClosed(r)
  \/ SessionStarts(r) \/ SessionFails(r)
  \/ GenerationFails(r) \/ AgentAnswers(r) \/ ReferencesFail(r)

ConsumerStep(r) == Consume(r) \/ SendFails(r)
CleanupStep == ListExpired \/ ExpiredClosed \/ \E c \in Chats : PopExpired(c)

ChatNext ==
  \/ \E r \in Requests :
       \/ Receive(r) \/ ProducerStep(r) \/ ConsumerStep(r) \/ Gather(r)
       \/ ToolResult(r) \/ DispatchTool(r)
  \/ \E s \in Sessions : Expire(s)
  \/ CleanupStep

ChatSpec == ChatInit /\ [][ChatNext]_chatVars

\* The event loop runs its tasks, and calls of the agent come to an end.
FairChatSpec ==
  /\ ChatSpec
  /\ WF_chatVars(CleanupStep)
  /\ \A r \in Requests : /\ WF_chatVars(ProducerStep(r)) /\ WF_chatVars(ConsumerStep(r))
                         /\ WF_chatVars(Gather(r))

-----------------------------------------------------------------------------
ChatTypeOK ==
  /\ chat \in [Requests -> Chats]
  /\ hasModel \in [Requests -> BOOLEAN]
  /\ handler \in [Requests -> HandlerSteps]
  /\ producer \in [Requests -> ProducerSteps]
  /\ consumer \in [Requests -> ConsumerSteps]
  /\ using \in [Requests -> Sessions \cup {NoSession}]
  /\ \A r \in Requests : /\ queue[r].messages \in Seq(Messages)
                         /\ queue[r].closed \in BOOLEAN
                         /\ received[r] \in Seq(Messages)
  /\ tools \subseteq Requests
  /\ table \in [Chats -> Sessions \cup {NoSession}]
  /\ state \in [Sessions -> SessionStates]
  /\ expired \subseteq Sessions
  /\ listed \subseteq Chats
  /\ closing \in Sessions \cup {NoSession}

\* What a client is sent for a message is framed: it begins with the start,
\* the end of it is the last, and comes after the whole answer, wherever the
\* results of tools and the closing of the queue fall between them.
AnswerIsFramed ==
  \A r \in Requests : \A i \in DOMAIN received[r] :
    /\ received[r][i] = "start" <=> i = 1
    /\ received[r][i] = "stop" => /\ i = Len(received[r])
                                  /\ \E j \in 1 .. i : received[r][j] = "content"

\* The table never hands out a session whose language model is already gone,
\* although a session that is being closed still counts as ready.
HandedOutIsOpen ==
  [][ \A r \in Requests :
        (producer[r] # "generating" /\ producer'[r] = "generating")
          => state'[using'[r]] = "ready" ]_chatVars

\* A message with a model comes to its end: neither task waits for the other
\* forever, whatever raises, expires or disconnects.
MessagesEnd ==
  \A r \in Requests :
    (handler[r] = "waiting" /\ hasModel[r]) ~> handler[r] = "ended"

\* Every message comes to its end, one without a model, too: it is refused
\* with "Model specification is required for AI response generation".
RefusalIsReported ==
  \A r \in Requests : handler[r] = "waiting" ~> handler[r] = "ended"

\* What the comment of get_or_create_session says of its races: "Worst case:
\* we create an extra session that gets cleaned up later."
ExtraSessionsAreCleanedUp ==
  \A s \in Sessions :
    state[s] = "ready" => \/ \E c \in Chats : table[c] = s
                          \/ \E r \in Requests : using[r] = s

\* The session of a message that is worked on is closed only if it expired.
FreshSessionsStayOpen ==
  \A r \in Requests :
    (producer[r] = "generating" /\ state[using[r]] # "ready") => using[r] \in expired
=============================================================================
